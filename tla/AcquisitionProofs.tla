------------------------- MODULE AcquisitionProofs -------------------------
(***************************************************************************)
(* What the acquisition keeps for every set of ranges, of fitted sensors   *)
(* and every number of failures: runs of transfers first, whose effect is  *)
(* proved by induction on their number, then the invariant.                *)
(***************************************************************************)
EXTENDS Acquisition, WellFoundedInduction, TLAPS

\* Every set of naturals that is not empty has a least element: the induction
\* the lemmas on runs of transfers rest on.
Less == {ss \in Nat \X Nat : ss[1] < ss[2]}

LEMMA LeastNatural ==
  ASSUME NEW T, T \subseteq Nat, T # {}
  PROVE  \E m \in T : \A n \in T : m <= n
<1>1. IsWellFoundedOn(Less, Nat)
  BY NatLessThanWellFounded DEF OpToRel, Less
<1>2. PICK m \in T : \A n \in T : ~ (<<n, m>> \in Less)
  BY <1>1, WFMin
<1>3. ASSUME NEW n \in T PROVE m <= n
  <2>1. n \in Nat /\ m \in Nat /\ <<n, m>> \notin Less
    BY <1>2
  <2>2. ~ (n < m)
    BY <2>1 DEF Less
  <2> QED
    BY <2>1, <2>2
<1> QED
  BY <1>3

----------------------------------------------------------------------------
(* Runs of transfers.                                                      *)

\* f[n] is what the device may be after the first n of the transfers ts.
IsReached(f, s, d, ts, m) ==
  f = [n \in 0..m |-> IF n = 0 THEN {d} ELSE UNION {Takes(s, x, ts[n]) : x \in f[n - 1]}]

LEMMA ReachedStep ==
  ASSUME NEW s, NEW d, NEW ts, NEW m \in Nat \ {0}, NEW f, IsReached(f, s, d, ts, m - 1)
  PROVE  \E g : IsReached(g, s, d, ts, m)
<1> DEFINE g == [n \in 0..m |-> IF n = 0 THEN {d}
                                ELSE UNION {Takes(s, x, ts[n]) : x \in f[n - 1]}]
<1>1. ASSUME NEW n \in 0..m, n # 0 PROVE g[n - 1] = f[n - 1]
  <2>1. n - 1 \in 0..(m - 1) /\ n - 1 \in 0..m
    BY <1>1
  <2>2. f[n - 1] = IF n - 1 = 0 THEN {d}
                   ELSE UNION {Takes(s, x, ts[n - 1]) : x \in f[n - 1 - 1]}
    BY <2>1 DEF IsReached
  <2>3. g[n - 1] = IF n - 1 = 0 THEN {d}
                   ELSE UNION {Takes(s, x, ts[n - 1]) : x \in f[n - 1 - 1]}
    BY <2>1, Zenon
  <2> QED
    BY <2>2, <2>3
<1>2. g = [n \in 0..m |-> IF n = 0 THEN {d}
                          ELSE UNION {Takes(s, x, ts[n]) : x \in g[n - 1]}]
  <2> HIDE DEF g
  <2>1. \A n \in 0..m : g[n] = IF n = 0 THEN {d}
                               ELSE UNION {Takes(s, x, ts[n]) : x \in g[n - 1]}
    <3> TAKE n \in 0..m
    <3>1. g[n] = IF n = 0 THEN {d} ELSE UNION {Takes(s, x, ts[n]) : x \in f[n - 1]}
      BY DEF g
    <3>2. n # 0 => g[n - 1] = f[n - 1]
      BY <1>1
    <3> QED
      BY <3>1, <3>2, Zenon
  <2>2. g = [n \in 0..m |-> g[n]]
    BY DEF g
  <2> QED
    BY <2>1, <2>2, Zenon
<1> QED
  BY <1>2, Zenon DEF IsReached

LEMMA ReachedExists ==
  ASSUME NEW s, NEW d, NEW ts, NEW m \in Nat
  PROVE  \E f : IsReached(f, s, d, ts, m)
<1> DEFINE T == {n \in Nat : ~ \E f : IsReached(f, s, d, ts, n)}
<1> SUFFICES ASSUME T # {} PROVE FALSE
  BY Zenon
<1>1. PICK n \in T : \A k \in T : n <= k
  <2> HIDE DEF T
  <2>1. T \subseteq Nat
    BY DEF T
  <2> QED
    BY <2>1, LeastNatural
<1>2. CASE n = 0
  <2> DEFINE f == [i \in 0..0 |-> {d}]
  <2>1. f = [i \in 0..n |-> IF i = 0 THEN {d}
                            ELSE UNION {Takes(s, x, ts[i]) : x \in f[i - 1]}]
    BY <1>2
  <2> QED
    BY <1>1, <2>1, Zenon DEF IsReached
<1>3. CASE n # 0
  <2>1. n \in Nat \ {0} /\ n - 1 \in Nat /\ n - 1 \notin T
    BY <1>1, <1>3
  <2>2. PICK f : IsReached(f, s, d, ts, n - 1)
    BY <2>1, Zenon
  <2>3. \E g : IsReached(g, s, d, ts, n)
    BY <2>1, <2>2, ReachedStep
  <2> QED
    BY <1>1, <2>3, Zenon
<1> QED
  BY <1>2, <1>3

\* Bounds that the transfers carry from one to the next bound what the run ends in.
LEMMA AfterChain ==
  ASSUME NEW s, NEW d, NEW ts, Len(ts) \in Nat, NEW S, d \in S[0],
         \A n \in 1..Len(ts) : \A x \in S[n - 1] : Takes(s, x, ts[n]) \subseteq S[n]
  PROVE  After(s, d, ts) \subseteq S[Len(ts)]
<1> DEFINE f == CHOOSE g : IsReached(g, s, d, ts, Len(ts))
           T == {n \in Nat : n <= Len(ts) /\ ~ (f[n] \subseteq S[n])}
<1>1. IsReached(f, s, d, ts, Len(ts))
  BY ReachedExists, Zenon
<1>2. After(s, d, ts) = f[Len(ts)]
  BY Zenon DEF After, IsReached
<1> HIDE DEF f
<1>3. f[0] = {d}
  BY <1>1 DEF IsReached
<1>4. ASSUME NEW n \in 1..Len(ts)
      PROVE  f[n] = UNION {Takes(s, x, ts[n]) : x \in f[n - 1]}
  <2>1. n \in 0..Len(ts) /\ n # 0
    OBVIOUS
  <2>2. f[n] = IF n = 0 THEN {d} ELSE UNION {Takes(s, x, ts[n]) : x \in f[n - 1]}
    BY <1>1, <2>1, Zenon DEF IsReached
  <2> QED
    BY <2>1, <2>2
<1>5. T = {}
  <2> SUFFICES ASSUME T # {} PROVE FALSE
    OBVIOUS
  <2>1. PICK n \in T : \A k \in T : n <= k
    <3> HIDE DEF T
    <3>1. T \subseteq Nat
      BY DEF T
    <3> QED
      BY <3>1, LeastNatural
  <2>2. n # 0
    BY <1>3, <2>1
  <2>3. n \in 1..Len(ts) /\ n - 1 \in Nat /\ n - 1 <= Len(ts) /\ n - 1 \notin T
    BY <2>1, <2>2
  <2>4. f[n - 1] \subseteq S[n - 1]
    BY <2>3
  <2>5. f[n] \subseteq S[n]
    <3>1. f[n] = UNION {Takes(s, x, ts[n]) : x \in f[n - 1]}
      BY <1>4, <2>3
    <3>2. \A x \in f[n - 1] : Takes(s, x, ts[n]) \subseteq S[n]
      BY <2>3, <2>4
    <3> QED
      BY <3>1, <3>2, Zenon
  <2> QED
    BY <2>1, <2>5
<1> QED
  BY <1>2, <1>5

\* What every transfer of a run keeps, the run keeps, finished or abandoned.
LEMMA RunKeeps ==
  ASSUME NEW s, NEW T, NEW ts \in Seq(T), NEW P, NEW d \in P,
         \A n \in 1..Len(ts) : \A x \in P : Takes(s, x, ts[n]) \subseteq P
  PROVE  /\ After(s, d, ts) \subseteq P
         /\ Abandoned(s, d, ts) \subseteq P
<1>1. ASSUME NEW k \in 0..Len(ts)
      PROVE  After(s, d, SubSeq(ts, 1, k)) \subseteq P
  <2> DEFINE pre == SubSeq(ts, 1, k)
             S == [n \in 0..k |-> P]
  <2>1. Len(pre) = k /\ \A n \in 1..k : pre[n] = ts[n]
    BY <1>1
  <2>2. d \in S[0]
    OBVIOUS
  <2> HIDE DEF pre
  <2>3. \A n \in 1..Len(pre) : \A x \in S[n - 1] : Takes(s, x, pre[n]) \subseteq S[n]
    BY <2>1
  <2>4. Len(pre) \in Nat /\ S[Len(pre)] = P
    BY <2>1
  <2> HIDE DEF S
  <2> QED
    BY <2>2, <2>3, <2>4, AfterChain DEF pre
<1>2. SubSeq(ts, 1, Len(ts)) = ts
  OBVIOUS
<1>3. After(s, d, ts) \subseteq P
  BY <1>1, <1>2, Len(ts) \in 0..Len(ts)
<1> QED
  BY <1>1, <1>3, Zenon DEF Abandoned

----------------------------------------------------------------------------
(* The ADXL355.                                                            *)

AdxlState == [FILTER : {"default", "ODR_125"}, SYNC : {"default", "EXT_CLK"},
              RANGE : {"2g"} \cup AdxlRange, POWER_CTL : {"STANDBY", "MEASURE"}]
AdxlClocked == {x \in AdxlState : x.FILTER = "ODR_125" /\ x.SYNC = "EXT_CLK"}

\* The transfers any driver function makes to it.
AdxlWrites == {Write("FILTER", "ODR_125"), Write("SYNC", "EXT_CLK"),
               Write("POWER_CTL", "STANDBY"), Write("POWER_CTL", "MEASURE")}
                \cup {Write("RANGE", v) : v \in {"2g"} \cup AdxlRange}

LEMMA AdxlRuns ==
  ASSUME NEW v \in {"2g"} \cup AdxlRange
  PROVE  AdxlInit(v) \in Seq(AdxlWrites) /\ AdxlSetRange(v) \in Seq(AdxlWrites)
<1>1. Write("RANGE", v) \in AdxlWrites
  BY DEF AdxlWrites
<1>2. /\ Write("FILTER", "ODR_125") \in AdxlWrites /\ Write("SYNC", "EXT_CLK") \in AdxlWrites
      /\ Write("POWER_CTL", "STANDBY") \in AdxlWrites
      /\ Write("POWER_CTL", "MEASURE") \in AdxlWrites
  BY DEF AdxlWrites
<1> QED
  BY <1>1, <1>2 DEF AdxlInit, AdxlSetRange

LEMMA AdxlKeeps ==
  ASSUME NEW t \in AdxlWrites, NEW x \in AdxlState
  PROVE  /\ Takes("ADXL355", x, t) \subseteq AdxlState
         /\ x \in AdxlClocked => Takes("ADXL355", x, t) \subseteq AdxlClocked
<1>1. Takes("ADXL355", x, t) \subseteq {x, [x EXCEPT ![t.reg] = t.val]}
  BY DEF Takes, AdxlTakes
<1>2. /\ [x EXCEPT ![t.reg] = t.val] \in AdxlState
      /\ x \in AdxlClocked => [x EXCEPT ![t.reg] = t.val] \in AdxlClocked
  BY DEF AdxlWrites, Write, AdxlState, AdxlClocked
<1> QED
  BY <1>1, <1>2

\* Whatever the device was in before, and wherever a call stops, it stays in one
\* of its states, and on the external clock if it was on it.
LEMMA AdxlStays ==
  ASSUME NEW ts \in Seq(AdxlWrites), NEW d \in AdxlState
  PROVE  /\ After("ADXL355", d, ts) \cup Abandoned("ADXL355", d, ts) \subseteq AdxlState
         /\ d \in AdxlClocked =>
              After("ADXL355", d, ts) \cup Abandoned("ADXL355", d, ts) \subseteq AdxlClocked
<1>1. \A n \in 1..Len(ts) : ts[n] \in AdxlWrites
  OBVIOUS
<1>2. AdxlClocked \subseteq AdxlState
  BY DEF AdxlClocked
<1>3. \A n \in 1..Len(ts) : \A x \in AdxlState : Takes("ADXL355", x, ts[n]) \subseteq AdxlState
  BY <1>1, AdxlKeeps
<1>4. \A n \in 1..Len(ts) : \A x \in AdxlClocked :
        Takes("ADXL355", x, ts[n]) \subseteq AdxlClocked
  BY <1>1, <1>2, AdxlKeeps
<1> QED
  BY <1>3, <1>4, RunKeeps

\* An init that finds the device in standby and finishes puts it on the clock.
LEMMA AdxlInitClocks ==
  ASSUME NEW v \in {"2g"} \cup AdxlRange, NEW d \in AdxlState, d.POWER_CTL = "STANDBY"
  PROVE  After("ADXL355", d, AdxlInit(v)) \subseteq AdxlClocked
<1> DEFINE S == [n \in 0..4 |->
                   {x \in AdxlState : /\ n < 4 => x.POWER_CTL = "STANDBY"
                                      /\ n >= 1 => x.FILTER = "ODR_125"
                                      /\ n >= 2 => x.SYNC = "EXT_CLK"}]
           ts == AdxlInit(v)
<1>1. Len(ts) = 4 /\ d \in S[0]
  BY DEF AdxlInit
<1>2. \A n \in 1..4 : \A x \in S[n - 1] : Takes("ADXL355", x, ts[n]) \subseteq S[n]
  <2>1. \A x \in S[0] : Takes("ADXL355", x, ts[1]) \subseteq S[1]
    BY DEF Takes, AdxlTakes, AdxlInit, Write, AdxlState
  <2>2. \A x \in S[1] : Takes("ADXL355", x, ts[2]) \subseteq S[2]
    BY DEF Takes, AdxlTakes, AdxlInit, Write, AdxlState
  <2>3. \A x \in S[2] : Takes("ADXL355", x, ts[3]) \subseteq S[3]
    BY DEF Takes, AdxlTakes, AdxlInit, Write, AdxlState
  <2>4. \A x \in S[3] : Takes("ADXL355", x, ts[4]) \subseteq S[4]
    BY DEF Takes, AdxlTakes, AdxlInit, Write, AdxlState
  <2> HIDE DEF S, ts
  <2>5. \A n \in 1..4 : n \in {1, 2, 3, 4}
    OBVIOUS
  <2>6. 1 - 1 = 0 /\ 2 - 1 = 1 /\ 3 - 1 = 2 /\ 4 - 1 = 3
    OBVIOUS
  <2> QED
    BY <2>1, <2>2, <2>3, <2>4, <2>5, <2>6
<1>3. S[4] \subseteq AdxlClocked
  BY DEF AdxlClocked
<1> HIDE DEF S, ts
<1>4. After("ADXL355", d, ts) \subseteq S[4]
  <2>1. Len(ts) \in Nat /\ d \in S[0]
    BY <1>1
  <2>2. \A n \in 1..Len(ts) : \A x \in S[n - 1] : Takes("ADXL355", x, ts[n]) \subseteq S[n]
    BY <1>1, <1>2
  <2>3. After("ADXL355", d, ts) \subseteq S[Len(ts)]
    BY <2>1, <2>2, AfterChain, Zenon
  <2> QED
    BY <1>1, <2>3
<1> QED
  BY <1>3, <1>4 DEF ts

\* A range change that finishes has changed the range, whatever came before.
LEMMA AdxlRangeTakes ==
  ASSUME NEW v \in {"2g"} \cup AdxlRange, NEW d \in AdxlState,
         NEW e \in After("ADXL355", d, AdxlSetRange(v))
  PROVE  e.RANGE = v /\ e.POWER_CTL = "MEASURE"
<1> DEFINE S == [n \in 0..3 |->
                   {x \in AdxlState : /\ n \in {1, 2} => x.POWER_CTL = "STANDBY"
                                      /\ n >= 2 => x.RANGE = v
                                      /\ n = 3 => x.POWER_CTL = "MEASURE"}]
           ts == AdxlSetRange(v)
<1>1. Len(ts) = 3 /\ d \in S[0]
  BY DEF AdxlSetRange
<1>2. \A n \in 1..3 : \A x \in S[n - 1] : Takes("ADXL355", x, ts[n]) \subseteq S[n]
  <2>1. \A x \in S[0] : Takes("ADXL355", x, ts[1]) \subseteq S[1]
    BY DEF Takes, AdxlTakes, AdxlSetRange, Write, AdxlState
  <2>2. \A x \in S[1] : Takes("ADXL355", x, ts[2]) \subseteq S[2]
    BY DEF Takes, AdxlTakes, AdxlSetRange, Write, AdxlState
  <2>3. \A x \in S[2] : Takes("ADXL355", x, ts[3]) \subseteq S[3]
    BY DEF Takes, AdxlTakes, AdxlSetRange, Write, AdxlState
  <2> HIDE DEF S, ts
  <2>4. \A n \in 1..3 : n \in {1, 2, 3}
    OBVIOUS
  <2>5. 1 - 1 = 0 /\ 2 - 1 = 1 /\ 3 - 1 = 2
    OBVIOUS
  <2> QED
    BY <2>1, <2>2, <2>3, <2>4, <2>5
<1>3. \A x \in S[3] : x.RANGE = v /\ x.POWER_CTL = "MEASURE"
  OBVIOUS
<1> HIDE DEF S, ts
<1>4. After("ADXL355", d, ts) \subseteq S[3]
  <2>1. Len(ts) \in Nat /\ d \in S[0]
    BY <1>1
  <2>2. \A n \in 1..Len(ts) : \A x \in S[n - 1] : Takes("ADXL355", x, ts[n]) \subseteq S[n]
    BY <1>1, <1>2
  <2>3. After("ADXL355", d, ts) \subseteq S[Len(ts)]
    BY <2>1, <2>2, AfterChain, Zenon
  <2> QED
    BY <1>1, <2>3
<1> QED
  BY <1>3, <1>4 DEF ts

----------------------------------------------------------------------------
(* The ICM-42688-P.                                                        *)

IcmState == [BANK_SEL : {0, 1}, INTF_CONFIG5 : {"default", "CLKIN"},
             INTF_CONFIG1 : {"default", "RTC"},
             GYRO_CONFIG0 : {"2000dps", "15dps"} \cup IcmGyro,
             ACCEL_CONFIG0 : {"16g", "8g"} \cup IcmAccel,
             INT_CONFIG : {"default", "INT1"}, INT_SOURCE0 : {"default", "DRDY"},
             PWR_MGMT0 : {"OFF", "ON"}]
IcmClocked == {x \in IcmState : /\ x.INTF_CONFIG5 = "CLKIN" /\ x.INTF_CONFIG1 = "RTC"
                                /\ x.INT_SOURCE0 = "DRDY"}

IcmWrites == {Write("BANK_SEL", 0), Write("BANK_SEL", 1), Write("INTF_CONFIG5", "CLKIN"),
              Write("INTF_CONFIG1", "RTC"), Write("INT_CONFIG", "INT1"),
              Write("INT_SOURCE0", "DRDY"), Write("PWR_MGMT0", "ON")}
               \cup {Write("GYRO_CONFIG0", v) : v \in {"15dps"} \cup IcmGyro}
               \cup {Write("ACCEL_CONFIG0", v) : v \in {"8g"} \cup IcmAccel}

LEMMA IcmRuns ==
  /\ \A v \in {"8g"} \cup IcmAccel : /\ IcmInit(v) \in Seq(IcmWrites)
                                     /\ IcmSetAccelRange(v) \in Seq(IcmWrites)
  /\ \A v \in {"15dps"} \cup IcmGyro : IcmSetGyroRange(v) \in Seq(IcmWrites)
<1>1. ASSUME NEW v \in {"8g"} \cup IcmAccel
      PROVE  IcmInit(v) \in Seq(IcmWrites) /\ IcmSetAccelRange(v) \in Seq(IcmWrites)
  <2>1. Write("ACCEL_CONFIG0", v) \in IcmWrites /\ Write("GYRO_CONFIG0", "15dps") \in IcmWrites
    BY DEF IcmWrites
  <2>2. /\ Write("BANK_SEL", 0) \in IcmWrites /\ Write("BANK_SEL", 1) \in IcmWrites
        /\ Write("INTF_CONFIG5", "CLKIN") \in IcmWrites
        /\ Write("INTF_CONFIG1", "RTC") \in IcmWrites
        /\ Write("INT_CONFIG", "INT1") \in IcmWrites
        /\ Write("INT_SOURCE0", "DRDY") \in IcmWrites
        /\ Write("PWR_MGMT0", "ON") \in IcmWrites
    BY Zenon DEF IcmWrites
  <2> QED
    BY <2>1, <2>2 DEF IcmInit, IcmSetAccelRange
<1>2. ASSUME NEW v \in {"15dps"} \cup IcmGyro
      PROVE  IcmSetGyroRange(v) \in Seq(IcmWrites)
  <2>1. Write("GYRO_CONFIG0", v) \in IcmWrites
    BY DEF IcmWrites
  <2> QED
    BY <2>1 DEF IcmSetGyroRange
<1> QED
  BY <1>1, <1>2

\* A write lands in its register, or nowhere when it meets the wrong bank.
LEMMA IcmTakesOne ==
  ASSUME NEW t \in IcmWrites, NEW x \in IcmState
  PROVE  /\ [x EXCEPT ![t.reg] = t.val] \in IcmState
         /\ Takes("ICM42688", x, t) = IF t.reg = "BANK_SEL" \/ x.BANK_SEL = Bank(t.reg)
                                      THEN {[x EXCEPT ![t.reg] = t.val]} ELSE {x}
<1>1. [x EXCEPT ![t.reg] = t.val] \in IcmState
  BY DEF IcmWrites, Write, IcmState
<1>2. Takes("ICM42688", x, t) = IcmTakes(x, t)
  BY DEF Takes
<1> QED
  BY <1>1, <1>2, Zenon DEF IcmTakes

\* The same, by what the clock registers and the bank select are then.
LEMMA IcmEffect ==
  ASSUME NEW t \in IcmWrites, NEW x \in IcmState, NEW y \in Takes("ICM42688", x, t)
  PROVE  /\ y \in IcmState
         /\ y.BANK_SEL = IF t.reg = "BANK_SEL" THEN t.val ELSE x.BANK_SEL
         /\ \A r \in {"INTF_CONFIG5", "INTF_CONFIG1", "INT_SOURCE0"} :
              y[r] = IF t.reg = r /\ x.BANK_SEL = Bank(r) THEN t.val ELSE x[r]
<1>1. CASE t.reg = "BANK_SEL" \/ x.BANK_SEL = Bank(t.reg)
  <2>1. y = [x EXCEPT ![t.reg] = t.val] /\ y \in IcmState
    BY <1>1, IcmTakesOne
  <2>2. t.reg \in DOMAIN x /\ DOMAIN x = {"BANK_SEL", "INTF_CONFIG5", "INTF_CONFIG1",
          "GYRO_CONFIG0", "ACCEL_CONFIG0", "INT_CONFIG", "INT_SOURCE0", "PWR_MGMT0"}
    BY DEF IcmState, IcmWrites, Write
  <2>3. ASSUME NEW r \in DOMAIN x PROVE y[r] = IF t.reg = r THEN t.val ELSE x[r]
    BY <2>1, <2>2
  <2>4. y.BANK_SEL = IF t.reg = "BANK_SEL" THEN t.val ELSE x.BANK_SEL
    BY <2>2, <2>3
  <2>5. ASSUME NEW r \in {"INTF_CONFIG5", "INTF_CONFIG1", "INT_SOURCE0"}
        PROVE  y[r] = IF t.reg = r /\ x.BANK_SEL = Bank(r) THEN t.val ELSE x[r]
    <3>1. y[r] = IF t.reg = r THEN t.val ELSE x[r]
      BY <2>2, <2>3
    <3>2. t.reg = r => x.BANK_SEL = Bank(r)
      BY <1>1
    <3> QED
      BY <3>1, <3>2
  <2> QED
    BY <2>1, <2>4, <2>5
<1>2. CASE ~ (t.reg = "BANK_SEL" \/ x.BANK_SEL = Bank(t.reg))
  <2>1. y = x
    BY <1>2, IcmTakesOne
  <2>2. \A r \in {"INTF_CONFIG5", "INTF_CONFIG1", "INT_SOURCE0"} :
          ~ (t.reg = r /\ x.BANK_SEL = Bank(r))
    BY <1>2
  <2> QED
    BY <1>2, <2>1, <2>2
<1> QED
  BY <1>1, <1>2

\* An ICM-42688-P that is on the clock stays on it, wherever a call stops.
LEMMA IcmStays ==
  ASSUME NEW ts \in Seq(IcmWrites), NEW d \in IcmState
  PROVE  /\ After("ICM42688", d, ts) \cup Abandoned("ICM42688", d, ts) \subseteq IcmState
         /\ d \in IcmClocked =>
              After("ICM42688", d, ts) \cup Abandoned("ICM42688", d, ts) \subseteq IcmClocked
<1>1. \A n \in 1..Len(ts) : ts[n] \in IcmWrites
  OBVIOUS
<1>2. ASSUME NEW t \in IcmWrites, NEW x \in IcmState
      PROVE  /\ Takes("ICM42688", x, t) \subseteq IcmState
             /\ x \in IcmClocked => Takes("ICM42688", x, t) \subseteq IcmClocked
  <2>1. x \in IcmClocked => [x EXCEPT ![t.reg] = t.val] \in IcmClocked
    BY IcmTakesOne DEF IcmWrites, Write, IcmState, IcmClocked
  <2> QED
    BY <2>1, IcmTakesOne
<1>3. IcmClocked \subseteq IcmState
  BY DEF IcmClocked
<1>4. \A n \in 1..Len(ts) : \A x \in IcmState : Takes("ICM42688", x, ts[n]) \subseteq IcmState
  BY <1>1, <1>2
<1>5. \A n \in 1..Len(ts) : \A x \in IcmClocked :
        Takes("ICM42688", x, ts[n]) \subseteq IcmClocked
  BY <1>1, <1>2, <1>3
<1> QED
  BY <1>4, <1>5, RunKeeps

IcmInBank(b) == {x \in IcmState : x.BANK_SEL = b}
IcmInBank0 == IcmInBank(0)

\* A range change leaves the bank as it is.
LEMMA IcmKeepsBank ==
  ASSUME NEW ts \in Seq(IcmWrites), NEW d \in IcmState,
         \A n \in 1..Len(ts) : ts[n].reg # "BANK_SEL"
  PROVE  After("ICM42688", d, ts) \cup Abandoned("ICM42688", d, ts)
           \subseteq IcmInBank(d.BANK_SEL)
<1> DEFINE P == IcmInBank(d.BANK_SEL)
<1>1. \A n \in 1..Len(ts) : ts[n] \in IcmWrites
  OBVIOUS
<1>2. \A n \in 1..Len(ts) : \A x \in P : Takes("ICM42688", x, ts[n]) \subseteq P
  BY <1>1, IcmEffect DEF IcmInBank
<1>3. d \in P
  BY DEF IcmInBank
<1> HIDE DEF P
<1>4. After("ICM42688", d, ts) \subseteq P /\ Abandoned("ICM42688", d, ts) \subseteq P
  BY <1>2, <1>3, RunKeeps
<1> QED
  BY <1>4 DEF P

\* An init that finishes puts the device on the clock and back into bank 0,
\* whatever bank an earlier one had left it in.
LEMMA IcmInitClocks ==
  ASSUME NEW v \in {"8g"} \cup IcmAccel, NEW d \in IcmState
  PROVE  After("ICM42688", d, IcmInit(v)) \subseteq IcmClocked \cap IcmInBank0
<1> DEFINE S == [n \in 0..9 |->
                   {x \in IcmState : /\ n \in {1, 2} => x.BANK_SEL = 1
                                     /\ n >= 3 => x.BANK_SEL = 0
                                     /\ n >= 2 => x.INTF_CONFIG5 = "CLKIN"
                                     /\ n >= 4 => x.INTF_CONFIG1 = "RTC"
                                     /\ n >= 8 => x.INT_SOURCE0 = "DRDY"}]
           ts == IcmInit(v)
<1>1. Len(ts) = 9 /\ d \in S[0] /\ \A n \in 1..9 : ts[n] \in IcmWrites
  <2>1. Len(ts) = 9 /\ d \in S[0]
    BY DEF IcmInit
  <2>2. ts \in Seq(IcmWrites)
    BY IcmRuns
  <2>3. \A n \in 1..Len(ts) : ts[n] \in IcmWrites
    <3> HIDE DEF ts
    <3> QED
      BY <2>2
  <2> HIDE DEF ts, S
  <2> QED
    BY <2>1, <2>3
<1>2. \A n \in 1..9 : \A x \in S[n - 1] : Takes("ICM42688", x, ts[n]) \subseteq S[n]
  <2>1. \A n \in 1..9 : ts[n] \in IcmWrites
    BY <1>1
  <2>2. /\ ts[1].reg = "BANK_SEL" /\ ts[1].val = 1
        /\ ts[2].reg = "INTF_CONFIG5" /\ ts[2].val = "CLKIN"
        /\ ts[3].reg = "BANK_SEL" /\ ts[3].val = 0
        /\ ts[4].reg = "INTF_CONFIG1" /\ ts[4].val = "RTC"
        /\ ts[5].reg = "GYRO_CONFIG0" /\ ts[6].reg = "ACCEL_CONFIG0"
        /\ ts[7].reg = "INT_CONFIG" /\ ts[8].reg = "INT_SOURCE0" /\ ts[8].val = "DRDY"
        /\ ts[9].reg = "PWR_MGMT0"
    BY DEF IcmInit, Write
  <2> HIDE DEF ts
  <2>3. \A x \in S[0] : Takes("ICM42688", x, ts[1]) \subseteq S[1]
    BY <2>1, <2>2, IcmEffect DEF Bank
  <2>4. \A x \in S[1] : Takes("ICM42688", x, ts[2]) \subseteq S[2]
    BY <2>1, <2>2, IcmEffect DEF Bank
  <2>5. \A x \in S[2] : Takes("ICM42688", x, ts[3]) \subseteq S[3]
    BY <2>1, <2>2, IcmEffect DEF Bank
  <2>6. \A x \in S[3] : Takes("ICM42688", x, ts[4]) \subseteq S[4]
    BY <2>1, <2>2, IcmEffect DEF Bank
  <2>7. \A x \in S[4] : Takes("ICM42688", x, ts[5]) \subseteq S[5]
    BY <2>1, <2>2, IcmEffect DEF Bank
  <2>8. \A x \in S[5] : Takes("ICM42688", x, ts[6]) \subseteq S[6]
    BY <2>1, <2>2, IcmEffect DEF Bank
  <2>9. \A x \in S[6] : Takes("ICM42688", x, ts[7]) \subseteq S[7]
    BY <2>1, <2>2, IcmEffect DEF Bank
  <2>10. \A x \in S[7] : Takes("ICM42688", x, ts[8]) \subseteq S[8]
    BY <2>1, <2>2, IcmEffect DEF Bank
  <2>11. \A x \in S[8] : Takes("ICM42688", x, ts[9]) \subseteq S[9]
    BY <2>1, <2>2, IcmEffect DEF Bank
  <2> HIDE DEF S, ts
  <2>12. \A n \in 1..9 : n \in {1, 2, 3, 4, 5, 6, 7, 8, 9}
    OBVIOUS
  <2>13. /\ 1 - 1 = 0 /\ 2 - 1 = 1 /\ 3 - 1 = 2 /\ 4 - 1 = 3 /\ 5 - 1 = 4
         /\ 6 - 1 = 5 /\ 7 - 1 = 6 /\ 8 - 1 = 7 /\ 9 - 1 = 8
    OBVIOUS
  <2> QED
    BY <2>3, <2>4, <2>5, <2>6, <2>7, <2>8, <2>9, <2>10, <2>11, <2>12, <2>13
<1>3. S[9] \subseteq IcmClocked \cap IcmInBank0
  BY DEF IcmClocked, IcmInBank0, IcmInBank
<1> HIDE DEF S, ts
<1>4. After("ICM42688", d, ts) \subseteq S[9]
  <2>1. Len(ts) \in Nat /\ d \in S[0]
    BY <1>1
  <2>2. \A n \in 1..Len(ts) : \A x \in S[n - 1] : Takes("ICM42688", x, ts[n]) \subseteq S[n]
    BY <1>1, <1>2
  <2>3. After("ICM42688", d, ts) \subseteq S[Len(ts)]
    BY <2>1, <2>2, AfterChain, Zenon
  <2> QED
    BY <1>1, <2>3
<1> QED
  BY <1>3, <1>4 DEF ts

----------------------------------------------------------------------------
(* The SCL3300.                                                            *)

SclCommands == {"SWRESET", "ENABLE_ANGLE", "STATUS", "ACC_X", "ACC_Y", "ACC_Z", "TEMP"}
                 \cup Modes
SclState == [MODE : Modes, ANGLE : BOOLEAN, ANSWER : {"none"} \cup SclCommands]

\* A command has one outcome: it is answered next, and may set the mode.
LEMMA SclTakesOne ==
  ASSUME NEW r \in SclCommands, NEW x \in SclState
  PROVE  \E y \in SclState : /\ SclTakes(x, Write("CMD", r)) = {y}
                             /\ Takes("SCL3300", x, Write("CMD", r)) = {y}
                             /\ y.ANSWER = r
                             /\ y.MODE = IF r = "SWRESET" THEN "MODE1"
                                         ELSE IF r \in Modes THEN r ELSE x.MODE
<1> DEFINE y == [x EXCEPT !.MODE = IF r = "SWRESET" THEN "MODE1"
                                   ELSE IF r \in Modes THEN r ELSE @,
                          !.ANGLE = IF r = "SWRESET" THEN FALSE
                                    ELSE IF r = "ENABLE_ANGLE" THEN TRUE ELSE @,
                          !.ANSWER = r]
<1>1. Write("CMD", r).val = r
  BY DEF Write
<1>2. SclTakes(x, Write("CMD", r)) = {y}
  BY <1>1, Zenon DEF SclTakes
<1>3. Takes("SCL3300", x, Write("CMD", r)) = SclTakes(x, Write("CMD", r))
  BY DEF Takes
<1>4. /\ y \in SclState /\ y.ANSWER = r
      /\ y.MODE = IF r = "SWRESET" THEN "MODE1" ELSE IF r \in Modes THEN r ELSE x.MODE
  BY DEF SclState, SclCommands, Modes
<1> HIDE DEF y
<1> QED
  BY <1>2, <1>3, <1>4

\* scl_read returns the answer to its own command, whatever was asked before.
LEMMA SclReadsItsOwn ==
  ASSUME NEW r \in SclCommands, NEW x \in SclState
  PROVE  SclRead(x, r).got = r /\ SclRead(x, r).dev \in SclState
<1>1. PICK y \in SclState : SclTakes(x, Write("CMD", r)) = {y} /\ y.ANSWER = r
  BY SclTakesOne
<1>2. PICK z \in SclState : SclTakes(y, Write("CMD", r)) = {z}
  BY SclTakesOne
<1>3. (CHOOSE u \in {y} : TRUE) = y /\ (CHOOSE u \in {z} : TRUE) = z
  OBVIOUS
<1>4. SclRead(x, r) = [got |-> y.ANSWER, dev |-> z]
  BY <1>1, <1>2, <1>3, Zenon DEF SclRead
<1> QED
  BY <1>1, <1>4

\* The three axes are read in their order.
LEMMA SclReadAccReads ==
  ASSUME NEW x \in SclState
  PROVE  /\ SclReadAcc(x).got = Axes
         /\ \A n \in 1..3 : SclReadAcc(x).dev[n] \in SclState
<1> DEFINE a == SclRead(x, "ACC_X")
           b == SclRead(a.dev, "ACC_Y")
           c == SclRead(b.dev, "ACC_Z")
<1>1. {"ACC_X", "ACC_Y", "ACC_Z"} \subseteq SclCommands
  BY DEF SclCommands
<1>2. a.got = "ACC_X" /\ a.dev \in SclState
  BY <1>1, SclReadsItsOwn
<1>3. b.got = "ACC_Y" /\ b.dev \in SclState
  BY <1>1, <1>2, SclReadsItsOwn
<1>4. c.got = "ACC_Z" /\ c.dev \in SclState
  BY <1>1, <1>3, SclReadsItsOwn
<1>5. SclReadAcc(x) = [got |-> <<a.got, b.got, c.got>>, dev |-> <<a.dev, b.dev, c.dev>>]
  BY DEF SclReadAcc
<1> HIDE DEF a, b, c
<1> QED
  BY <1>2, <1>3, <1>4, <1>5 DEF Axes

SclWrites == {Write("CMD", r) : r \in SclCommands}

LEMMA SclRuns == \A m \in Modes : SclInit(m) \in Seq(SclWrites)
<1> TAKE m \in Modes
<1>1. /\ Write("CMD", "SWRESET") \in SclWrites /\ Write("CMD", m) \in SclWrites
      /\ Write("CMD", "ENABLE_ANGLE") \in SclWrites /\ Write("CMD", "STATUS") \in SclWrites
  BY DEF SclWrites, SclCommands
<1> QED
  BY <1>1 DEF SclInit

LEMMA SclStays ==
  ASSUME NEW ts \in Seq(SclWrites), NEW d \in SclState
  PROVE  After("SCL3300", d, ts) \cup Abandoned("SCL3300", d, ts) \subseteq SclState
<1>1. \A n \in 1..Len(ts) : \E r \in SclCommands : ts[n] = Write("CMD", r)
  <2>1. \A n \in 1..Len(ts) : ts[n] \in SclWrites
    OBVIOUS
  <2> QED
    BY <2>1 DEF SclWrites
<1>2. \A n \in 1..Len(ts) : \A x \in SclState : Takes("SCL3300", x, ts[n]) \subseteq SclState
  BY <1>1, SclTakesOne
<1> QED
  BY <1>2, RunKeeps

\* A change of mode that finishes has set the mode: the reset comes before it,
\* and nothing that comes after it touches the mode.
LEMMA SclModeTakes ==
  ASSUME NEW m \in Modes, NEW d \in SclState, NEW e \in After("SCL3300", d, SclInit(m))
  PROVE  e.MODE = m
<1> DEFINE S == [n \in 0..5 |-> {x \in SclState : n >= 2 => x.MODE = m}]
           ts == SclInit(m)
<1>1. Len(ts) = 5 /\ d \in S[0]
  BY DEF SclInit
<1>2. /\ ts[1] = Write("CMD", "SWRESET") /\ ts[2] = Write("CMD", m)
      /\ ts[3] = Write("CMD", "ENABLE_ANGLE")
      /\ ts[4] = Write("CMD", "STATUS") /\ ts[5] = Write("CMD", "STATUS")
  BY DEF SclInit
<1>3. /\ {"SWRESET", "ENABLE_ANGLE", "STATUS", m} \subseteq SclCommands
      /\ m # "SWRESET" /\ "ENABLE_ANGLE" \notin Modes /\ "STATUS" \notin Modes
  BY DEF SclCommands, Modes
<1> HIDE DEF ts
<1>4. \A n \in 1..5 : \A x \in S[n - 1] : Takes("SCL3300", x, ts[n]) \subseteq S[n]
  <2>1. ASSUME NEW r \in SclCommands, NEW x \in SclState,
               NEW y \in Takes("SCL3300", x, Write("CMD", r))
        PROVE  /\ y \in SclState
               /\ y.MODE = IF r = "SWRESET" THEN "MODE1" ELSE IF r \in Modes THEN r ELSE x.MODE
    BY SclTakesOne
  <2>2. \A x \in S[0] : Takes("SCL3300", x, ts[1]) \subseteq S[1]
    BY <1>2, <1>3, <2>1
  <2>3. \A x \in S[1] : Takes("SCL3300", x, ts[2]) \subseteq S[2]
    BY <1>2, <1>3, <2>1
  <2>4. \A x \in S[2] : Takes("SCL3300", x, ts[3]) \subseteq S[3]
    BY <1>2, <1>3, <2>1
  <2>5. \A x \in S[3] : Takes("SCL3300", x, ts[4]) \subseteq S[4]
    BY <1>2, <1>3, <2>1
  <2>6. \A x \in S[4] : Takes("SCL3300", x, ts[5]) \subseteq S[5]
    BY <1>2, <1>3, <2>1
  <2> HIDE DEF S
  <2>7. \A n \in 1..5 : n \in {1, 2, 3, 4, 5}
    OBVIOUS
  <2>8. 1 - 1 = 0 /\ 2 - 1 = 1 /\ 3 - 1 = 2 /\ 4 - 1 = 3 /\ 5 - 1 = 4
    OBVIOUS
  <2> QED
    BY <2>2, <2>3, <2>4, <2>5, <2>6, <2>7, <2>8
<1>5. \A x \in S[5] : x.MODE = m
  OBVIOUS
<1> HIDE DEF S
<1>6. After("SCL3300", d, ts) \subseteq S[5]
  <2>1. Len(ts) \in Nat /\ d \in S[0]
    BY <1>1
  <2>2. \A n \in 1..Len(ts) : \A x \in S[n - 1] : Takes("SCL3300", x, ts[n]) \subseteq S[n]
    BY <1>1, <1>4
  <2>3. After("SCL3300", d, ts) \subseteq S[Len(ts)]
    BY <2>1, <2>2, AfterChain, Zenon
  <2> QED
    BY <1>1, <2>3
<1> QED
  BY <1>5, <1>6 DEF ts

----------------------------------------------------------------------------
(* The invariant.                                                          *)

DevicesOK == /\ DOMAIN dev = Sensors /\ dev = [s \in Sensors |-> dev[s]]
             /\ dev["ADXL355"] \in AdxlState /\ dev["ICM42688"] \in IcmState
             /\ dev["SCL3300"] \in SclState

AcquisitionTypeOK == /\ DevicesOK /\ samples \in Nat /\ sMap \subseteq Sensors
                     /\ promised = [c \in CfgSlot |-> promised[c]]

OnClock == /\ "ADXL355" \in inited => dev["ADXL355"] \in AdxlClocked
           /\ "ICM42688" \in inited => dev["ICM42688"] \in IcmClocked

\* A poll follows a sample.
PollHasSample == phase = "poll" => samples > 0

\* The part of the two properties that does not depend on a register bank.
Shown == IsTilt(sTilt) /\ IsTemp("ADXL355", "ADXL355") /\ IsTemp("SCL3300", "TEMP")
FieldsShown ==
  \A i \in DOMAIN fields :
    LET f == fields[i]
    IN /\ f.name = "ADXL355" /\ "ADXL355" \notin spoiled =>
            f.val = [of |-> f.name, at |-> samples]
       /\ f.name = "SCL3300" => IsTilt(f.val)

\* What was read of the ICM-42688 is its own while it is in bank 0.  It never gets
\* back there before it loses power: its identity cannot be read in bank 1, so the
\* next detection does not find it and no init is tried.
InBank0 == dev["ICM42688"].BANK_SEL = 0
IcmFields == \A i \in DOMAIN fields :
               fields[i].name \in {"ICM_ACCEL", "ICM_GYRO"} /\ "ICM42688" \notin spoiled =>
                 fields[i].val = [of |-> fields[i].name, at |-> samples]
BankInv == /\ ~InBank0 => "ICM42688" \in unfinished
           /\ phase = "ICM42688" /\ "ICM42688" \in sMap => InBank0
           /\ InBank0 => IsTemp("ICM42688", "ICM42688") /\ IcmFields

AcquisitionInv == /\ AcquisitionTypeOK /\ OnClock /\ PollHasSample
                  /\ Shown /\ FieldsShown /\ BankInv

WritesTo(s) == CASE s = "ADXL355" -> AdxlWrites [] s = "ICM42688" -> IcmWrites
                 [] s = "SCL3300" -> SclWrites

LEMMA InitWrites == \A s \in Sensors : InitOf(s) \in Seq(WritesTo(s))
<1>1. /\ AdxlInit("2g") \in Seq(AdxlWrites) /\ IcmInit("8g") \in Seq(IcmWrites)
      /\ SclInit("MODE1") \in Seq(SclWrites)
  BY AdxlRuns, IcmRuns, SclRuns DEF Modes
<1>2. /\ InitOf("ADXL355") = AdxlInit("2g") /\ InitOf("ICM42688") = IcmInit("8g")
      /\ InitOf("SCL3300") = SclInit("MODE1")
  BY DEF InitOf, Default
<1> QED
  BY <1>1, <1>2 DEF Sensors, WritesTo

LEMMA SettingWrites == \A c \in CfgSlot : \A v \in Values(c) : Sets(c, v) \in Seq(WritesTo(Of(c)))
<1> TAKE c \in CfgSlot
<1> TAKE v \in Values(c)
<1>1. CASE c = "ADXL_RANGE"
  <2>1. v \in AdxlRange /\ Sets(c, v) = AdxlSetRange(v) /\ WritesTo(Of(c)) = AdxlWrites
    BY <1>1 DEF Values, Sets, WritesTo, Of
  <2> QED
    BY <2>1, AdxlRuns
<1>2. CASE c = "ICM_ACCEL"
  <2>1. v \in IcmAccel /\ Sets(c, v) = IcmSetAccelRange(v) /\ WritesTo(Of(c)) = IcmWrites
    BY <1>2 DEF Values, Sets, WritesTo, Of
  <2> QED
    BY <2>1, IcmRuns
<1>3. CASE c = "ICM_GYRO"
  <2>1. v \in IcmGyro /\ Sets(c, v) = IcmSetGyroRange(v) /\ WritesTo(Of(c)) = IcmWrites
    BY <1>3 DEF Values, Sets, WritesTo, Of
  <2> QED
    BY <2>1, IcmRuns
<1>4. CASE c = "SCL_MODE"
  <2>1. v \in Modes /\ Sets(c, v) = SclInit(v) /\ WritesTo(Of(c)) = SclWrites
    BY <1>4, AcquisitionAssumption DEF Values, Sets, WritesTo, Of
  <2> QED
    BY <2>1, SclRuns
<1> QED
  BY <1>1, <1>2, <1>3, <1>4 DEF CfgSlot

\* A call changes its own device, and keeps what the device's writes keep.
LEMMA SendsTo ==
  ASSUME DevicesOK, NEW s \in Sensors, NEW ts \in Seq(WritesTo(s)), NEW ok \in BOOLEAN,
         Sends(s, ts, ok)
  PROVE  /\ DevicesOK'
         /\ \A z \in Sensors \ {s} : dev'[z] = dev[z]
         /\ ok => dev'[s] \in After(s, dev[s], ts)
         /\ dev["ADXL355"] \in AdxlClocked => dev'["ADXL355"] \in AdxlClocked
         /\ dev["ICM42688"] \in IcmClocked => dev'["ICM42688"] \in IcmClocked
<1>1. PICK e \in IF ok THEN After(s, dev[s], ts) ELSE Abandoned(s, dev[s], ts) :
        dev' = [dev EXCEPT ![s] = e]
  BY Zenon DEF Sends
<1>2. e \in After(s, dev[s], ts) \cup Abandoned(s, dev[s], ts) /\ (ok => e \in After(s, dev[s], ts))
  BY <1>1
<1>3. /\ DOMAIN dev' = Sensors /\ dev' = [z \in Sensors |-> dev'[z]]
      /\ dev'[s] = e /\ \A z \in Sensors \ {s} : dev'[z] = dev[z]
  BY <1>1 DEF DevicesOK
<1>4. CASE s = "ADXL355"
  <2>1. ts \in Seq(AdxlWrites) /\ dev["ADXL355"] \in AdxlState
    BY <1>4 DEF WritesTo, DevicesOK
  <2>2. e \in AdxlState /\ (dev["ADXL355"] \in AdxlClocked => e \in AdxlClocked)
    BY <1>2, <1>4, <2>1, AdxlStays
  <2> QED
    BY <1>2, <1>3, <1>4, <2>2 DEF DevicesOK, Sensors
<1>5. CASE s = "ICM42688"
  <2>1. ts \in Seq(IcmWrites) /\ dev["ICM42688"] \in IcmState
    BY <1>5 DEF WritesTo, DevicesOK
  <2>2. e \in IcmState /\ (dev["ICM42688"] \in IcmClocked => e \in IcmClocked)
    BY <1>2, <1>5, <2>1, IcmStays
  <2> QED
    BY <1>2, <1>3, <1>5, <2>2 DEF DevicesOK, Sensors
<1>6. CASE s = "SCL3300"
  <2>1. ts \in Seq(SclWrites) /\ dev["SCL3300"] \in SclState
    BY <1>6 DEF WritesTo, DevicesOK
  <2>2. e \in SclState
    BY <1>2, <1>6, <2>1, SclStays
  <2> QED
    BY <1>2, <1>3, <1>6, <2>2 DEF DevicesOK, Sensors
<1> QED
  BY <1>4, <1>5, <1>6 DEF Sensors

\* What was a poll's tilt stays one as samples go on.
LEMMA TiltStays ==
  ASSUME samples \in Nat, samples' \in Nat, samples <= samples', NEW v, IsTilt(v)
  PROVE  \/ v = <<Zero, Zero, Zero>>
         \/ \E n \in 1..samples' : v = [i \in 1..3 |-> [of |-> Axes[i], at |-> n]]
<1>1. CASE v = <<Zero, Zero, Zero>>
  BY <1>1
<1>2. CASE OnePoll(v)
  <2>1. PICK n \in 1..samples : v = [i \in 1..3 |-> [of |-> Axes[i], at |-> n]]
    BY <1>2, Zenon DEF OnePoll
  <2>2. n \in 1..samples'
    OBVIOUS
  <2> QED
    BY <2>1, <2>2
<1> QED
  BY <1>1, <1>2 DEF IsTilt

LEMMA FieldsStay ==
  ASSUME FieldsShown, UNCHANGED <<fields, samples, spoiled>>
  PROVE  FieldsShown'
  BY DEF FieldsShown, IsTilt, OnePoll

LEMMA ShownStays ==
  ASSUME samples \in Nat, Shown, FieldsShown,
         UNCHANGED <<sTilt, sTemp, fields, samples, spoiled>>
  PROVE  Shown' /\ FieldsShown'
<1>1. Shown'
  BY DEF Shown, IsTilt, IsTemp, OnePoll
<1> QED
  BY <1>1, FieldsStay

LEMMA IcmStaysShown ==
  ASSUME IsTemp("ICM42688", "ICM42688"), IcmFields,
         UNCHANGED <<sTemp, fields, samples, spoiled>>
  PROVE  IsTemp("ICM42688", "ICM42688")' /\ IcmFields'
  BY DEF IsTemp, IcmFields

LEMMA InvInit == Init => AcquisitionInv
<1> SUFFICES ASSUME Init PROVE AcquisitionInv
  OBVIOUS
<1>1. PowerOn["ADXL355"] \in AdxlState /\ PowerOn["ICM42688"] \in IcmState
      /\ PowerOn["SCL3300"] \in SclState
  BY DEF PowerOn, AdxlState, IcmState, SclState, Modes
<1>2. DOMAIN PowerOn = Sensors /\ PowerOn = [s \in Sensors |-> PowerOn[s]]
  BY DEF PowerOn, Sensors
<1>3. AcquisitionTypeOK
  BY <1>1, <1>2 DEF Init, AcquisitionTypeOK, DevicesOK
<1>4. Shown /\ FieldsShown
  BY DEF Init, Shown, FieldsShown, IsTilt, IsTemp, Sensors
<1>5. BankInv
  BY DEF Init, BankInv, InBank0, PowerOn, IsTemp, IcmFields, Sensors
<1> QED
  BY <1>3, <1>4, <1>5 DEF Init, AcquisitionInv, OnClock, PollHasSample

LEMMA DetectStep == AcquisitionInv /\ Detect => AcquisitionInv'
<1> SUFFICES ASSUME AcquisitionInv, Detect PROVE AcquisitionInv'
  OBVIOUS
<1>1. /\ sMap' \subseteq Sensors /\ phase' = "ICM42688"
      /\ UNCHANGED <<dev, promised, inited, unfinished, sTilt, sTemp, fields, samples, spoiled>>
  BY AcquisitionAssumption DEF Detect, data, inits
<1>2. Shown' /\ FieldsShown'
  BY <1>1, ShownStays DEF AcquisitionInv, AcquisitionTypeOK
<1>3. "ICM42688" \in sMap' => InBank0
  BY DEF Detect, Identifies, Bank, InBank0
<1>4. BankInv'
  BY <1>1, <1>3, IcmStaysShown DEF AcquisitionInv, BankInv, InBank0
<1> QED
  BY <1>1, <1>2, <1>4 DEF AcquisitionInv, AcquisitionTypeOK, DevicesOK, OnClock, PollHasSample

LEMMA ConfigureStep ==
  ASSUME AcquisitionInv, NEW s \in Sensors, Configure(s)
  PROVE  AcquisitionInv'
<1>1. /\ phase' \in {"ADXL355", "SCL3300", "run"}
      /\ UNCHANGED <<sMap, sTilt, sTemp, fields, samples, spoiled>>
  BY DEF Configure, data, Sensors
<1>2. Shown' /\ FieldsShown' /\ PollHasSample'
  BY <1>1, ShownStays DEF AcquisitionInv, AcquisitionTypeOK, PollHasSample
<1>3. CASE s \notin sMap
  <2>1. UNCHANGED <<dev, promised, inited, unfinished>>
    BY <1>3 DEF Configure, inits
  <2>2. BankInv'
    BY <1>1, <2>1, IcmStaysShown DEF AcquisitionInv, BankInv, InBank0
  <2> QED
    BY <1>1, <1>2, <2>1, <2>2 DEF AcquisitionInv, AcquisitionTypeOK, DevicesOK, OnClock
<1>4. CASE s \in sMap
  <2>1. PICK ok \in BOOLEAN :
          /\ Sends(s, InitOf(s), ok)
          /\ promised' = [c \in CfgSlot |-> IF Of(c) # s THEN promised[c]
                                            ELSE IF ok THEN Default(c) ELSE None]
          /\ inited' = IF ok /\ (s = "ADXL355" => dev[s].POWER_CTL = "STANDBY")
                       THEN inited \cup {s} ELSE inited
          /\ unfinished' = IF ok THEN unfinished \ {s} ELSE unfinished \cup {s}
    BY <1>4, Zenon DEF Configure
  <2>2. /\ DevicesOK'
        /\ \A z \in Sensors \ {s} : dev'[z] = dev[z]
        /\ ok => dev'[s] \in After(s, dev[s], InitOf(s))
        /\ dev["ADXL355"] \in AdxlClocked => dev'["ADXL355"] \in AdxlClocked
        /\ dev["ICM42688"] \in IcmClocked => dev'["ICM42688"] \in IcmClocked
    BY <2>1, InitWrites, SendsTo DEF AcquisitionInv, AcquisitionTypeOK
  <2>3. ok /\ s = "ICM42688" => dev'["ICM42688"] \in IcmClocked \cap IcmInBank0
    <3> SUFFICES ASSUME ok, s = "ICM42688"
                 PROVE  dev'["ICM42688"] \in IcmClocked \cap IcmInBank0
      OBVIOUS
    <3>1. InitOf("ICM42688") = IcmInit("8g") /\ dev["ICM42688"] \in IcmState
      BY DEF InitOf, Default, AcquisitionInv, AcquisitionTypeOK, DevicesOK
    <3> QED
      BY <2>2, <3>1, IcmInitClocks
  <2>4. ok /\ s = "ADXL355" /\ dev[s].POWER_CTL = "STANDBY" => dev'["ADXL355"] \in AdxlClocked
    <3> SUFFICES ASSUME ok, s = "ADXL355", dev[s].POWER_CTL = "STANDBY"
                 PROVE  dev'["ADXL355"] \in AdxlClocked
      OBVIOUS
    <3>1. InitOf("ADXL355") = AdxlInit("2g") /\ dev["ADXL355"] \in AdxlState
      BY DEF InitOf, Default, AcquisitionInv, AcquisitionTypeOK, DevicesOK
    <3> QED
      BY <2>2, <3>1, AdxlInitClocks
  <2>5. OnClock'
    BY <2>1, <2>2, <2>3, <2>4 DEF AcquisitionInv, OnClock
  <2>6. promised' = [c \in CfgSlot |-> promised'[c]]
    BY <2>1
  <2>7. InBank0' => InBank0
    <3>1. s = "ICM42688" => InBank0
      BY <1>4 DEF Configure, AcquisitionInv, BankInv
    <3>2. s # "ICM42688" => dev'["ICM42688"] = dev["ICM42688"]
      BY <2>2 DEF Sensors
    <3> QED
      BY <3>1, <3>2 DEF InBank0
  <2>8. ~InBank0' => "ICM42688" \in unfinished'
    <3>1. CASE s = "ICM42688"
      BY <2>1, <2>3, <3>1 DEF InBank0, IcmInBank0, IcmInBank
    <3>2. CASE s # "ICM42688"
      <4>1. dev'["ICM42688"] = dev["ICM42688"]
        BY <2>2, <3>2 DEF Sensors
      <4>2. "ICM42688" \in unfinished => "ICM42688" \in unfinished'
        BY <2>1, <3>2
      <4> QED
        BY <4>1, <4>2 DEF AcquisitionInv, BankInv, InBank0
    <3> QED
      BY <3>1, <3>2
  <2>9. BankInv'
    BY <1>1, <2>7, <2>8, IcmStaysShown DEF AcquisitionInv, BankInv
  <2> QED
    BY <1>1, <1>2, <2>2, <2>5, <2>6, <2>9 DEF AcquisitionInv, AcquisitionTypeOK
<1> QED
  BY <1>3, <1>4

\* The settings are writes to bank 0, each by one of its registers.
LEMMA SettingStaysInBank ==
  ASSUME NEW c \in CfgSlot, NEW v \in Values(c), Of(c) = "ICM42688"
  PROVE  \A n \in 1..Len(Sets(c, v)) : Sets(c, v)[n].reg # "BANK_SEL"
<1>1. c \in {"ICM_ACCEL", "ICM_GYRO"}
  BY DEF Of, CfgSlot
<1>2. Sets(c, v) \in {<<Write("ACCEL_CONFIG0", v)>>, <<Write("GYRO_CONFIG0", v)>>}
  BY <1>1 DEF Sets, IcmSetAccelRange, IcmSetGyroRange
<1> QED
  BY <1>2 DEF Write

LEMMA ApplyCfgStep ==
  ASSUME AcquisitionInv, NEW c \in CfgSlot, NEW v \in Values(c), ApplyCfg(c, v)
  PROVE  AcquisitionInv'
<1>1. UNCHANGED <<phase, sMap, sTilt, sTemp, fields, samples, spoiled, inited, unfinished>>
  BY DEF ApplyCfg, data, inits
<1>2. Shown' /\ FieldsShown' /\ PollHasSample'
  BY <1>1, ShownStays DEF AcquisitionInv, AcquisitionTypeOK, PollHasSample
<1>3. PICK ok \in BOOLEAN :
        /\ Sends(Of(c), Sets(c, v), ok)
        /\ promised' = [promised EXCEPT ![c] = IF ok THEN v ELSE None]
  BY Zenon DEF ApplyCfg
<1>4. Of(c) \in Sensors
  BY AcquisitionAssumption DEF ApplyCfg
<1>5. /\ DevicesOK'
      /\ dev["ADXL355"] \in AdxlClocked => dev'["ADXL355"] \in AdxlClocked
      /\ dev["ICM42688"] \in IcmClocked => dev'["ICM42688"] \in IcmClocked
  BY <1>3, <1>4, SettingWrites, SendsTo DEF AcquisitionInv, AcquisitionTypeOK
<1>6. OnClock' /\ promised' = [b \in CfgSlot |-> promised'[b]]
  BY <1>1, <1>3, <1>5 DEF AcquisitionInv, AcquisitionTypeOK, OnClock
<1>7. InBank0' <=> InBank0
  <2>1. CASE Of(c) # "ICM42688"
    <3>1. dev'["ICM42688"] = dev["ICM42688"]
      <4>1. Sets(c, v) \in Seq(WritesTo(Of(c)))
        BY SettingWrites
      <4> QED
        BY <1>3, <1>4, <2>1, <4>1, SendsTo DEF AcquisitionInv, AcquisitionTypeOK, Sensors
    <3> QED
      BY <3>1 DEF InBank0
  <2>2. CASE Of(c) = "ICM42688"
    <3> DEFINE ts == Sets(c, v)
               d  == dev["ICM42688"]
    <3>1. ts \in Seq(IcmWrites) /\ d \in IcmState
      BY <2>2, SettingWrites DEF WritesTo, AcquisitionInv, AcquisitionTypeOK, DevicesOK
    <3>2. \A n \in 1..Len(ts) : ts[n].reg # "BANK_SEL"
      BY <2>2, SettingStaysInBank
    <3>3. dev'["ICM42688"] \in After("ICM42688", d, ts) \cup Abandoned("ICM42688", d, ts)
      <4>1. PICK e \in IF ok THEN After(Of(c), dev[Of(c)], ts)
                            ELSE Abandoned(Of(c), dev[Of(c)], ts) :
              dev' = [dev EXCEPT ![Of(c)] = e]
        BY <1>3, Zenon DEF Sends
      <4>2. dev'["ICM42688"] = e
        BY <1>4, <2>2, <4>1 DEF AcquisitionInv, AcquisitionTypeOK, DevicesOK
      <4> QED
        BY <2>2, <4>1, <4>2
    <3> HIDE DEF ts, d
    <3>4. dev'["ICM42688"].BANK_SEL = d.BANK_SEL
      BY <3>1, <3>2, <3>3, IcmKeepsBank DEF IcmInBank
    <3> QED
      BY <3>4 DEF InBank0, d
  <2> QED
    BY <2>1, <2>2
<1>8. BankInv'
  BY <1>1, <1>7, IcmStaysShown DEF AcquisitionInv, BankInv
<1> QED
  BY <1>1, <1>2, <1>5, <1>6, <1>8 DEF AcquisitionInv, AcquisitionTypeOK

\* Every field of a sample comes from a read of its own sensor for this sample,
\* unless that read failed: the shared local is overwritten only by a read that
\* did not, and is read into the ADXL355's field before.  The reads of the
\* ICM-42688 are its own while it is in bank 0.
LEMMA SampleStep ==
  ASSUME AcquisitionInv, NEW bad, SampleToBuffer(bad)
  PROVE  AcquisitionInv'
<1> DEFINE a   == IF "ADXL355" \in sMap \ bad THEN Reading("ADXL355", "ADXL355") ELSE Junk
           b   == IF "ICM42688" \in bad THEN a ELSE Reading("ICM42688", "ICM_ACCEL")
           gyr == IF "ICM42688" \in bad THEN Junk ELSE Reading("ICM42688", "ICM_GYRO")
<1>1. /\ samples' = samples + 1 /\ samples \in Nat /\ spoiled' = bad
      /\ phase' \in {"run", "poll"} /\ fields' = Fields(a, b, gyr)
      /\ UNCHANGED <<dev, sMap, sTilt, sTemp, promised, inited, unfinished>>
  BY DEF SampleToBuffer, AcquisitionInv, AcquisitionTypeOK, inits
<1>2. /\ "ADXL355" \in sMap /\ "ADXL355" \notin bad => a = [of |-> "ADXL355", at |-> samples']
      /\ InBank0 /\ "ICM42688" \notin bad =>
           /\ b = [of |-> "ICM_ACCEL", at |-> samples']
           /\ gyr = [of |-> "ICM_GYRO", at |-> samples']
  BY DEF Reading, From, Identifies, Bank, InBank0
<1>3. IsTilt(sTilt)'
  <2>1. IsTilt(sTilt)
    BY DEF AcquisitionInv, Shown
  <2>2. samples' \in Nat /\ samples <= samples'
    BY <1>1
  <2>3. \/ sTilt = <<Zero, Zero, Zero>>
        \/ \E n \in 1..samples' : sTilt = [i \in 1..3 |-> [of |-> Axes[i], at |-> n]]
    BY <1>1, <2>1, <2>2, TiltStays
  <2> QED
    BY <1>1, <2>3 DEF IsTilt, OnePoll
<1>4. Shown'
  BY <1>1, <1>3 DEF AcquisitionInv, Shown, IsTemp
<1>5. \A i \in DOMAIN fields' :
        \/ fields'[i] = [name |-> "ADXL355", val |-> a] /\ "ADXL355" \in sMap
        \/ fields'[i] = [name |-> "ICM_ACCEL", val |-> b]
        \/ fields'[i] = [name |-> "ICM_GYRO", val |-> gyr]
        \/ fields'[i] = [name |-> "SCL3300", val |-> sTilt]
  <2> HIDE DEF a, b, gyr
  <2> QED
    BY <1>1 DEF Fields, Field
<1>6. \A i \in DOMAIN fields' :
        /\ fields'[i].name = "ADXL355" /\ "ADXL355" \notin spoiled' =>
             fields'[i].val = [of |-> fields'[i].name, at |-> samples']
        /\ fields'[i].name = "SCL3300" => fields'[i].val = sTilt
        /\ /\ InBank0 /\ fields'[i].name \in {"ICM_ACCEL", "ICM_GYRO"}
           /\ "ICM42688" \notin spoiled'
           => fields'[i].val = [of |-> fields'[i].name, at |-> samples']
  <2> HIDE DEF a, b, gyr
  <2> TAKE i \in DOMAIN fields'
  <2>1. CASE fields'[i] = [name |-> "ADXL355", val |-> a] /\ "ADXL355" \in sMap
    BY <1>1, <1>2, <2>1
  <2>2. CASE fields'[i] = [name |-> "ICM_ACCEL", val |-> b]
    BY <1>1, <1>2, <2>2
  <2>3. CASE fields'[i] = [name |-> "ICM_GYRO", val |-> gyr]
    BY <1>1, <1>2, <2>3
  <2>4. CASE fields'[i] = [name |-> "SCL3300", val |-> sTilt]
    BY <2>4
  <2> QED
    BY <1>5, <2>1, <2>2, <2>3, <2>4
<1> HIDE DEF a, b, gyr
<1>7. FieldsShown'
  <2>1. ASSUME NEW i \in DOMAIN fields'
        PROVE  /\ fields'[i].name = "ADXL355" /\ "ADXL355" \notin spoiled' =>
                    fields'[i].val = [of |-> fields'[i].name, at |-> samples']
               /\ fields'[i].name = "SCL3300" => IsTilt(fields[i].val)'
    <3>1. fields'[i].name = "SCL3300" => fields'[i].val = sTilt'
      BY <1>1, <1>6
    <3>2. fields'[i].val = sTilt' => IsTilt(fields[i].val)'
      BY <1>3 DEF IsTilt, OnePoll
    <3> QED
      BY <1>6, <3>1, <3>2
  <2> QED
    BY <2>1, Zenon DEF FieldsShown
<1>8. BankInv'
  <2>1. InBank0' <=> InBank0
    BY <1>1 DEF InBank0
  <2>2. InBank0 => IcmFields'
    BY <1>6, Zenon DEF IcmFields
  <2>3. InBank0 => IsTemp("ICM42688", "ICM42688")'
    BY <1>1 DEF AcquisitionInv, BankInv, IsTemp
  <2> QED
    BY <1>1, <2>1, <2>2, <2>3 DEF AcquisitionInv, BankInv
<1> QED
  BY <1>1, <1>4, <1>7, <1>8 DEF AcquisitionInv, AcquisitionTypeOK, DevicesOK, OnClock, PollHasSample

\* What a poll shows it has read: all three axes or none, each by its own command,
\* and the ICM-42688's temperature from its own register while it is in bank 0.
LEMMA PollStep ==
  ASSUME AcquisitionInv, NEW bad, PollHousekeeping(bad)
  PROVE  AcquisitionInv'
<1>1. /\ phase = "poll" /\ phase' = "run" /\ samples \in Nat /\ samples > 0
      /\ UNCHANGED <<sMap, fields, samples, spoiled, promised, inited, unfinished>>
  BY DEF PollHousekeeping, AcquisitionInv, AcquisitionTypeOK, PollHasSample, inits
<1>2. FieldsShown' /\ PollHasSample'
  BY <1>1, FieldsStay DEF AcquisitionInv, PollHasSample
<1> DEFINE own(s) == From(s, s)
<1>3. own("ADXL355") = "ADXL355" /\ (InBank0 => own("ICM42688") = "ICM42688")
  BY DEF From, Identifies, Bank, InBank0
<1> HIDE DEF own
<1>4. ASSUME dev'["ICM42688"] = dev["ICM42688"],
             sTemp'["ICM42688"] \in {sTemp["ICM42688"], [of |-> own("ICM42688"), at |-> samples]}
      PROVE  BankInv'
  <2>1. InBank0' <=> InBank0
    BY <1>4 DEF InBank0
  <2>2. InBank0 => IcmFields'
    BY <1>1 DEF AcquisitionInv, BankInv, IcmFields
  <2>3. InBank0 => IsTemp("ICM42688", "ICM42688")'
    BY <1>3, <1>4 DEF AcquisitionInv, BankInv, IsTemp
  <2> QED
    BY <1>1, <2>1, <2>2, <2>3 DEF AcquisitionInv, BankInv
<1>5. CASE "SCL3300" \notin sMap
  <2>1. /\ UNCHANGED <<dev, sTilt>>
        /\ sTemp' = [s \in Sensors |-> IF s \in sMap \ bad
                                       THEN [of |-> own(s), at |-> samples] ELSE sTemp[s]]
    BY <1>5 DEF PollHousekeeping, own
  <2>2. IsTilt(sTilt)'
    BY <1>1, <2>1 DEF AcquisitionInv, Shown, IsTilt, OnePoll
  <2>3. IsTemp("ADXL355", "ADXL355")' /\ IsTemp("SCL3300", "TEMP")'
    BY <1>3, <1>5, <2>1 DEF AcquisitionInv, Shown, IsTemp, Sensors
  <2>4. BankInv'
    BY <1>4, <2>1 DEF Sensors
  <2> QED
    BY <1>1, <1>2, <2>1, <2>2, <2>3, <2>4
       DEF AcquisitionInv, AcquisitionTypeOK, DevicesOK, OnClock, Shown
<1>6. CASE "SCL3300" \in sMap
  <2> DEFINE acc == SclReadAcc(dev["SCL3300"])
             scl(n) == IF n = 0 THEN dev["SCL3300"] ELSE acc.dev[n]
             temp(n) == SclRead(scl(n), "TEMP")
  <2>1. PICK n \in IF "tilt" \in bad THEN 0..2 ELSE {3} :
          /\ sTilt' = IF n = 3 THEN [i \in 1..3 |-> [of |-> acc.got[i], at |-> samples]]
                               ELSE sTilt
          /\ dev' = [dev EXCEPT !["SCL3300"] = IF "SCL3300" \in bad THEN scl(n) ELSE temp(n).dev]
          /\ sTemp' = [s \in Sensors |->
                         IF s \notin sMap \ bad THEN sTemp[s]
                         ELSE [of |-> IF s = "SCL3300" THEN temp(n).got ELSE own(s),
                               at |-> samples]]
    BY <1>6, Zenon DEF PollHousekeeping, own
  <2>2. dev["SCL3300"] \in SclState
    BY DEF AcquisitionInv, AcquisitionTypeOK, DevicesOK
  <2>3. acc.got = Axes /\ \A i \in 1..3 : acc.dev[i] \in SclState
    BY <2>2, SclReadAccReads
  <2>4. scl(n) \in SclState
    BY <2>1, <2>2, <2>3
  <2>5. temp(n).got = "TEMP" /\ temp(n).dev \in SclState
    BY <2>4, SclReadsItsOwn DEF SclCommands
  <2> HIDE DEF acc, scl, temp
  <2>6. IsTilt(sTilt)'
    <3>1. CASE n = 3
      <4>1. sTilt' = [i \in 1..3 |-> [of |-> Axes[i], at |-> samples]]
        BY <2>1, <2>3, <3>1
      <4>2. samples' = samples /\ samples \in 1..samples
        BY <1>1
      <4> QED
        BY <4>1, <4>2 DEF IsTilt, OnePoll
    <3>2. CASE n # 3
      BY <1>1, <2>1, <3>2 DEF AcquisitionInv, Shown, IsTilt, OnePoll
    <3> QED
      BY <3>1, <3>2
  <2>7. IsTemp("ADXL355", "ADXL355")' /\ IsTemp("SCL3300", "TEMP")'
    BY <1>3, <2>1, <2>5 DEF AcquisitionInv, Shown, IsTemp, Sensors
  <2>8. DevicesOK' /\ OnClock' /\ dev'["ICM42688"] = dev["ICM42688"]
    BY <1>1, <2>1, <2>4, <2>5
       DEF AcquisitionInv, AcquisitionTypeOK, DevicesOK, OnClock, Sensors
  <2>9. BankInv'
    BY <1>4, <2>1, <2>8 DEF Sensors
  <2> QED
    BY <1>1, <1>2, <2>6, <2>7, <2>8, <2>9 DEF AcquisitionInv, AcquisitionTypeOK, Shown
<1> QED
  BY <1>5, <1>6

LEMMA ResetStep ==
  ASSUME AcquisitionInv, HardReset \/ McuReset \/ PowerCycle
  PROVE  AcquisitionInv'
<1>1. CASE HardReset
  <2>1. phase' = "detect" /\ UNCHANGED <<dev, sMap, sTilt, sTemp, fields, samples, spoiled,
                                          promised, inited, unfinished>>
    BY <1>1 DEF HardReset, data, inits
  <2>2. Shown' /\ FieldsShown'
    BY <2>1, ShownStays DEF AcquisitionInv, AcquisitionTypeOK
  <2>3. BankInv'
    BY <2>1, IcmStaysShown DEF AcquisitionInv, BankInv, InBank0
  <2> QED
    BY <2>1, <2>2, <2>3 DEF AcquisitionInv, AcquisitionTypeOK, DevicesOK, OnClock, PollHasSample
<1>2. ASSUME StaticsZeroed, phase' = "detect", samples' = samples, DevicesOK', OnClock',
             promised' = [c \in CfgSlot |-> promised'[c]],
             ~InBank0' => "ICM42688" \in unfinished'
      PROVE  AcquisitionInv'
  <2>1. Shown' /\ IsTemp("ICM42688", "ICM42688")'
    BY <1>2 DEF StaticsZeroed, Shown, IsTilt, IsTemp, Sensors
  <2>2. FieldsShown' /\ IcmFields'
    <3>1. DOMAIN fields' = {}
      BY <1>2 DEF StaticsZeroed
    <3> QED
      BY <3>1, Zenon DEF FieldsShown, IcmFields
  <2>3. BankInv'
    BY <1>2, <2>1, <2>2 DEF BankInv
  <2> QED
    BY <1>2, <2>1, <2>2, <2>3
       DEF StaticsZeroed, AcquisitionInv, AcquisitionTypeOK, PollHasSample
<1>3. CASE McuReset
  <2>1. DevicesOK' /\ OnClock' /\ (~InBank0' => "ICM42688" \in unfinished')
    BY <1>3 DEF McuReset, AcquisitionInv, AcquisitionTypeOK, DevicesOK, OnClock, BankInv, InBank0,
                inits
  <2> QED
    BY <1>2, <1>3, <2>1 DEF McuReset, AcquisitionInv, AcquisitionTypeOK
<1>4. CASE PowerCycle
  <2>1. PowerOn["ADXL355"] \in AdxlState /\ PowerOn["ICM42688"] \in IcmState
        /\ PowerOn["SCL3300"] \in SclState /\ PowerOn["ICM42688"].BANK_SEL = 0
    BY DEF PowerOn, AdxlState, IcmState, SclState, Modes
  <2>2. DOMAIN PowerOn = Sensors /\ PowerOn = [s \in Sensors |-> PowerOn[s]]
    BY DEF PowerOn, Sensors
  <2>3. DevicesOK' /\ OnClock' /\ InBank0'
    BY <1>4, <2>1, <2>2 DEF PowerCycle, DevicesOK, OnClock, InBank0
  <2>4. promised' = [c \in CfgSlot |-> promised'[c]]
    BY <1>4 DEF PowerCycle
  <2> QED
    BY <1>2, <1>4, <2>3, <2>4 DEF PowerCycle
<1> QED
  BY <1>1, <1>3, <1>4

LEMMA InvStep == AcquisitionInv /\ [Next]_avars => AcquisitionInv'
<1> SUFFICES ASSUME AcquisitionInv, [Next]_avars PROVE AcquisitionInv'
  OBVIOUS
<1>1. CASE Detect
  BY <1>1, DetectStep
<1>2. ASSUME NEW s \in Sensors, Configure(s) PROVE AcquisitionInv'
  BY <1>2, ConfigureStep
<1>3. ASSUME NEW c \in CfgSlot, NEW v \in Values(c), ApplyCfg(c, v) PROVE AcquisitionInv'
  BY <1>3, ApplyCfgStep
<1>4. ASSUME NEW bad \in SUBSET (Sensors \cup {"tilt"}),
             SampleToBuffer(bad) \/ PollHousekeeping(bad)
      PROVE  AcquisitionInv'
  BY <1>4, SampleStep, PollStep
<1>5. CASE HardReset \/ McuReset \/ PowerCycle
  BY <1>5, ResetStep
<1>6. CASE UNCHANGED avars
  <2>1. UNCHANGED <<dev, phase, sMap, sTilt, sTemp, fields, samples, spoiled, promised, inited,
                     unfinished>>
    BY <1>6 DEF avars, data, inits
  <2>2. Shown' /\ FieldsShown'
    BY <2>1, ShownStays DEF AcquisitionInv, AcquisitionTypeOK
  <2>3. BankInv'
    BY <2>1, IcmStaysShown DEF AcquisitionInv, BankInv, InBank0
  <2> QED
    BY <2>1, <2>2, <2>3 DEF AcquisitionInv, AcquisitionTypeOK, DevicesOK, OnClock, PollHasSample
<1> QED
  BY <1>1, <1>2, <1>3, <1>4, <1>5, <1>6 DEF Next

THEOREM AcquisitionInvariant == Spec => []AcquisitionInv
  BY InvInit, InvStep, PTL DEF Spec

----------------------------------------------------------------------------
(* The theorems.                                                           *)

\* Whatever transfers fail half-way, what poll_housekeeping shows is one poll's
\* three axes in their places, and temperatures that are the sensors' own: that of
\* the ICM-42688 as long as its last init has not stopped half-way, which may leave
\* it in bank 1, where the read gives another register.
THEOREM HousekeepingReal == Spec => []HousekeepingIsReal
<1>1. AcquisitionInv => HousekeepingIsReal
  BY DEF AcquisitionInv, HousekeepingIsReal, Shown, BankInv, Usable
<1> QED
  BY <1>1, AcquisitionInvariant, PTL

\* In every sample_to_buffer the fields of a sensor that was read hold what it
\* measured for that sample, whichever other sensor failed - those of the
\* ICM-42688 as long as its last init has not stopped half-way.
THEOREM FailureStays == Spec => []OneFailureOneSensor
<1>1. AcquisitionInv => OneFailureOneSensor
  <2> SUFFICES ASSUME AcquisitionInv, NEW i \in DOMAIN fields
               PROVE  LET f   == fields[i]
                          now == [of |-> f.name, at |-> samples]
                      IN /\ f.name = "ADXL355" /\ "ADXL355" \notin spoiled => f.val = now
                         /\ f.name = "SCL3300" => IsTilt(f.val)
                         /\ f.name \in {"ICM_ACCEL", "ICM_GYRO"} /\ "ICM42688" \notin spoiled
                              /\ Usable("ICM42688") => f.val = now
    BY Zenon DEF OneFailureOneSensor
  <2>1. /\ fields[i].name = "ADXL355" /\ "ADXL355" \notin spoiled =>
             fields[i].val = [of |-> fields[i].name, at |-> samples]
        /\ fields[i].name = "SCL3300" => IsTilt(fields[i].val)
    BY DEF AcquisitionInv, FieldsShown
  <2>2. /\ fields[i].name \in {"ICM_ACCEL", "ICM_GYRO"} /\ "ICM42688" \notin spoiled
        /\ Usable("ICM42688")
        => fields[i].val = [of |-> fields[i].name, at |-> samples]
    BY DEF AcquisitionInv, BankInv, Usable, IcmFields
  <2> QED
    BY <2>1, <2>2
<1> QED
  BY <1>1, AcquisitionInvariant, PTL

\* A sensor whose init has finished stays on the master's clock until it loses
\* power, through inits that are repeated or abandoned at any transfer.
THEOREM StaysClocked == Spec => []ClockedOnceInitialised
<1>1. AcquisitionInv => ClockedOnceInitialised
  BY DEF AcquisitionInv, OnClock, ClockedOnceInitialised, AdxlClocked, IcmClocked
<1> QED
  BY <1>1, AcquisitionInvariant, PTL

\* A range change that apply_cfg is told is done is done, and the device measures.
THEOREM RangeTakes == Spec => RangeChangeTakes
<1> DEFINE Took == \A c \in {"ADXL_RANGE", "SCL_MODE"} :
             phase = "run" /\ promised'[c] \notin {promised[c], None} =>
               /\ Setting(c)' = promised'[c]
               /\ c = "ADXL_RANGE" => dev'["ADXL355"].POWER_CTL = "MEASURE"
<1>1. AcquisitionInv /\ [Next]_avars => [Took]_avars
  <2> SUFFICES ASSUME AcquisitionInv, Next, NEW c \in {"ADXL_RANGE", "SCL_MODE"},
                      phase = "run", promised'[c] \notin {promised[c], None}
               PROVE  /\ Setting(c)' = promised'[c]
                      /\ c = "ADXL_RANGE" => dev'["ADXL355"].POWER_CTL = "MEASURE"
    BY Zenon
  <2>1. c \in CfgSlot
    BY DEF CfgSlot
  <2>2. PICK b \in CfgSlot : \E v \in Values(b) : ApplyCfg(b, v)
    <3>1. ~ (Detect \/ \E s \in Sensors : Configure(s))
      BY DEF Detect, Configure, Sensors
    <3>2. ~ \E bad \in SUBSET (Sensors \cup {"tilt"}) : SampleToBuffer(bad) \/ PollHousekeeping(bad)
      BY DEF SampleToBuffer, PollHousekeeping
    <3>3. ~ (HardReset \/ McuReset)
      BY DEF HardReset, McuReset
    <3>4. ~ PowerCycle
      BY <2>1 DEF PowerCycle
    <3> QED
      BY <3>1, <3>2, <3>3, <3>4, Zenon DEF Next
  <2>3. PICK v \in Values(b) : ApplyCfg(b, v)
    BY <2>2
  <2>4. PICK ok \in BOOLEAN :
          /\ Sends(Of(b), Sets(b, v), ok)
          /\ promised' = [promised EXCEPT ![b] = IF ok THEN v ELSE None]
    BY <2>3, Zenon DEF ApplyCfg
  <2>5. b = c /\ ok /\ promised'[c] = v
    BY <2>1, <2>4 DEF AcquisitionInv, AcquisitionTypeOK
  <2>6. dev'[Of(c)] \in After(Of(c), dev[Of(c)], Sets(c, v))
    <3>1. Of(c) \in Sensors /\ Sets(c, v) \in Seq(WritesTo(Of(c)))
      BY <2>1, <2>3, <2>5, SettingWrites, AcquisitionAssumption DEF ApplyCfg
    <3> QED
      BY <2>4, <2>5, <3>1, SendsTo DEF AcquisitionInv, AcquisitionTypeOK
  <2>7. CASE c = "ADXL_RANGE"
    <3>1. Of(c) = "ADXL355" /\ Sets(c, v) = AdxlSetRange(v) /\ v \in AdxlRange
      BY <2>3, <2>5, <2>7 DEF Of, Sets, Values
    <3>2. dev["ADXL355"] \in AdxlState
      BY DEF AcquisitionInv, AcquisitionTypeOK, DevicesOK
    <3>3. dev'["ADXL355"].RANGE = v /\ dev'["ADXL355"].POWER_CTL = "MEASURE"
      <4>1. dev'["ADXL355"] \in After("ADXL355", dev["ADXL355"], AdxlSetRange(v))
        BY <2>6, <3>1
      <4>2. v \in {"2g"} \cup AdxlRange
        BY <3>1
      <4> QED
        BY <3>2, <4>1, <4>2, AdxlRangeTakes, Zenon
    <3>4. Setting(c)' = dev'["ADXL355"].RANGE
      BY <2>7 DEF Setting
    <3> QED
      BY <2>5, <3>3, <3>4
  <2>8. CASE c = "SCL_MODE"
    <3>1. Of(c) = "SCL3300" /\ Sets(c, v) = SclInit(v) /\ v \in Modes
      BY <2>3, <2>5, <2>8, AcquisitionAssumption DEF Of, Sets, Values
    <3>2. dev["SCL3300"] \in SclState
      BY DEF AcquisitionInv, AcquisitionTypeOK, DevicesOK
    <3>3. dev'["SCL3300"].MODE = v
      BY <2>6, <3>1, <3>2, SclModeTakes
    <3>4. Setting(c)' = dev'["SCL3300"].MODE
      BY <2>8 DEF Setting
    <3> QED
      BY <2>5, <2>8, <3>3, <3>4
  <2> QED
    BY <2>7, <2>8
<1> QED
  BY <1>1, AcquisitionInvariant, PTL DEF Spec, RangeChangeTakes
=============================================================================
