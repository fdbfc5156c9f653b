--------------------------- MODULE TimeSyncProofs ---------------------------
(***************************************************************************)
(* The line through the anchors, for every clock, every wander and every   *)
(* number of edges missed.                                                 *)
(***************************************************************************)
EXTENDS TimeSync, TLAPS

LEMMA DivInt ==
  ASSUME NEW x \in Nat, NEW d \in Nat \ {0}
  PROVE  /\ x \div d \in Nat
         /\ d * (x \div d) <= x /\ x < d * (x \div d) + d
<1> DEFINE q == x \div d
           r == x % d
<1>1. q \in Int /\ r \in 0..(d - 1) /\ x = d * q + r
  OBVIOUS
<1> HIDE DEF q, r
<1>2. q >= 0
  <2>1. q < 0 => d * q <= -d
    BY <1>1
  <2> QED
    BY <1>1, <2>1
<1> QED
  BY <1>1, <1>2 DEF q

\* Division keeps order, and undoes a product.
LEMMA DivOrder ==
  ASSUME NEW x \in Nat, NEW y \in Nat, NEW d \in Nat \ {0}, x <= y
  PROVE  x \div d <= y \div d
<1> DEFINE p == x \div d
           q == y \div d
<1>1. p \in Nat /\ d * p <= x
  BY DivInt
<1>2. q \in Nat /\ y < d * q + d
  BY DivInt
<1> HIDE DEF p, q
<1>3. d * p < d * q + d
  BY <1>1, <1>2
<1>4. p > q => d * p >= d * q + d
  <2>1. p > q => d * (p - q - 1) >= 0
    BY <1>1, <1>2
  <2> QED
    BY <1>1, <1>2, <2>1
<1>5. p <= q
  BY <1>1, <1>2, <1>3, <1>4
<1> QED
  BY <1>5 DEF p, q

LEMMA DivExact ==
  ASSUME NEW y \in Nat, NEW d \in Nat \ {0}
  PROVE  (d * y) \div d = y
<1> DEFINE q == (d * y) \div d
<1>1. d * y \in Nat
  OBVIOUS
<1>2. q \in Nat /\ d * q <= d * y /\ d * y < d * q + d
  BY <1>1, DivInt
<1> HIDE DEF q
<1>3. q > y => d * q >= d * y + d
  <2>1. q > y => d * (q - y - 1) >= 0
    BY <1>2
  <2> QED
    BY <1>2, <2>1
<1>4. q < y => d * y >= d * q + d
  <2>1. q < y => d * (y - q - 1) >= 0
    BY <1>2
  <2> QED
    BY <1>2, <2>1
<1>5. q = y
  BY <1>2, <1>3, <1>4
<1> QED
  BY <1>5 DEF q

\* Products keep order, and give it back.
LEMMA ProductOrder ==
  ASSUME NEW x \in Int, NEW y \in Int, NEW k \in Nat, x <= y
  PROVE  x * k <= y * k
<1>1. (y - x) * k >= 0 OBVIOUS
<1> QED BY <1>1

LEMMA ProductGivesBack ==
  ASSUME NEW x \in Int, NEW y \in Int, NEW k \in Nat \ {0}
  PROVE  /\ x * k <= y * k => x <= y
         /\ x * k < y * k => x < y
<1>1. x >= y => x * k >= y * k BY ProductOrder
<1>2. x > y => x * k > y * k
  <2>1. x >= y + 1 => x * k >= (y + 1) * k BY ProductOrder
  <2>2. (y + 1) * k = y * k + k OBVIOUS
  <2> QED BY <2>1, <2>2
<1> QED BY <1>1, <1>2

\* What a quotient is, and what it is at least.
LEMMA DivIs ==
  ASSUME NEW x \in Nat, NEW d \in Nat \ {0}, NEW q \in Int, q * d <= x, x < q * d + d
  PROVE  x \div d = q
<1> DEFINE p == x \div d
<1>1. p \in Nat /\ d * p <= x /\ x < d * p + d BY DivInt
<1> HIDE DEF p
<1>2. d * p = p * d /\ p * d + d = (p + 1) * d /\ q * d + d = (q + 1) * d BY <1>1
<1>3. p * d < (q + 1) * d /\ q * d < (p + 1) * d BY <1>1, <1>2
<1>4. p < q + 1 /\ q < p + 1 BY <1>1, <1>3, ProductGivesBack
<1>5. p = q BY <1>1, <1>4
<1> QED BY <1>5 DEF p

LEMMA DivAtLeast ==
  ASSUME NEW x \in Nat, NEW d \in Nat \ {0}, NEW q \in Int, q * d <= x
  PROVE  q <= x \div d
<1> DEFINE p == x \div d
<1>1. p \in Nat /\ x < d * p + d BY DivInt
<1> HIDE DEF p
<1>2. d * p + d = (p + 1) * d BY <1>1
<1>3. q * d < (p + 1) * d BY <1>1, <1>2
<1>4. q < p + 1 BY <1>1, <1>3, ProductGivesBack
<1>5. q <= p BY <1>1, <1>4
<1> QED BY <1>5 DEF p

\* The unit of time cancels.
LEMMA UnitCancels ==
  ASSUME NEW c \in Nat, NEW s \in Nat \ {0}, NEW u \in Nat \ {0}
  PROVE  (c * u) \div (s * u) = c \div s
<1> DEFINE q == c \div s
           x == c * u
           d == s * u
<1>1. q \in Nat /\ s * q <= c /\ c < s * q + s BY DivInt
<1>2. x \in Nat /\ d \in Nat \ {0} OBVIOUS
<1> HIDE DEF q
<1>3. q * d = (s * q) * u /\ q * d + d = (s * q + s) * u BY <1>1
<1>4. (s * q) * u <= x BY <1>1, ProductOrder
<1>5. x < (s * q + s) * u
  <2>1. (c + 1) * u <= (s * q + s) * u BY <1>1, ProductOrder
  <2>2. (c + 1) * u = x + u OBVIOUS
  <2>3. (s * q + s) * u \in Int BY <1>1
  <2> QED BY <1>2, <2>1, <2>2, <2>3
<1> HIDE DEF x, d
<1>6. x \div d = q BY <1>1, <1>2, <1>3, <1>4, <1>5, DivIs
<1> QED BY <1>6 DEF x, d, q

\* The times of the counts between two anchors, ks counts before the newer.
LEMMA BackFromTheNewer ==
  ASSUME NEW k \in Nat, NEW l \in Nat, NEW dns \in Nat, NEW d \in Nat \ {0}, l <= k
  PROVE  /\ Quotient((0 - k) * dns, d) = 0 - ((k * dns) \div d)
         /\ (l * dns) \div d <= (k * dns) \div d
<1>1. k * dns \in Nat /\ l * dns \in Nat /\ (0 - k) * dns = 0 - k * dns
  OBVIOUS
<1>2. l * dns <= k * dns
  <2>1. (k - l) * dns >= 0
    OBVIOUS
  <2> QED
    BY <2>1
<1>3. (l * dns) \div d <= (k * dns) \div d
  BY <1>1, <1>2, DivOrder
<1>4. Quotient((0 - k) * dns, d) = 0 - ((k * dns) \div d)
  <2> DEFINE x == k * dns
  <2>1. x \in Nat /\ (0 - k) * dns = 0 - x
    BY <1>1
  <2> HIDE DEF x
  <2>2. Quotient(0 - x, d) = 0 - (x \div d)
    <3>1. CASE x = 0
      <4>1. 0 \div d = 0
        OBVIOUS
      <4> QED
        BY <3>1, <4>1 DEF Quotient
    <3>2. CASE x > 0
      <4>1. 0 - x < 0 /\ -(0 - x) = x
        BY <2>1, <3>2
      <4>2. x \div d \in Nat
        BY <2>1, DivInt
      <4> QED
        BY <4>1, <4>2 DEF Quotient
    <3> QED
      BY <2>1, <3>1, <3>2
  <2> QED
    BY <2>1, <2>2 DEF x
<1> QED
  BY <1>3, <1>4
----------------------------------------------------------------------------
\* Two anchors of different edges lie apart, in counts as in time.
Apart == Measured => t.a_ticks < t.b_ticks /\ t.a_ns < t.b_ns

TimeInv == TypeOK /\ Apart

LEMMA TimeStarts == Init => TimeInv
<1> SUFFICES ASSUME Init
             PROVE  TimeInv
  OBVIOUS
<1>1. t = TimesyncInit /\ edges = 0 /\ again = FALSE
  BY DEF Init
<1>2. t \in [a_ticks : Nat, a_ns : Nat, b_ticks : Nat, b_ns : Nat, anchors : 0..2]
  BY <1>1 DEF TimesyncInit
<1>3. t.anchors = 0
  BY <1>1 DEF TimesyncInit
<1>4. TypeOK
  BY <1>1, <1>2 DEF TypeOK
<1>5. Apart
  BY <1>3 DEF Apart, Measured
<1> QED
  BY <1>4, <1>5 DEF TimeInv

\* A second or more takes a count or more.
LEMMA CountsArePositive ==
  ASSUME NEW n \in Nat \ {0}, NEW c \in Counts(n)
  PROVE  c \in Nat \ {0} /\ n * Second \in Nat \ {0}
<1>1. Nominal - Wander \in Nat \ {0} /\ Nominal + Wander \in Nat /\ Second \in Nat \ {0}
  BY TimeAssumption
<1>2. \A x, y \in Nat \ {0} : x * y \in Nat \ {0}
  OBVIOUS
<1>3. n * (Nominal - Wander) \in Nat \ {0} /\ n * Second \in Nat \ {0}
  BY <1>1, <1>2
<1>4. n * (Nominal + Wander) \in Int
  BY <1>1
<1>5. c \in (n * (Nominal - Wander))..(n * (Nominal + Wander))
  BY DEF Counts
<1> DEFINE u == n * (Nominal - Wander)
           v == n * (Nominal + Wander)
<1>6. u \in Nat \ {0} /\ v \in Int /\ c \in u..v
  BY <1>3, <1>4, <1>5
<1> HIDE DEF u, v
<1>7. c \in Nat \ {0}
  BY <1>6
<1> QED
  BY <1>3, <1>7

\* The record after an edge.
LEMMA AnchoredType ==
  ASSUME TypeOK, NEW ticks \in Nat, NEW ns \in Nat
  PROVE  LET s == Anchored(t, ticks, ns)
         IN  /\ s \in [a_ticks : Nat, a_ns : Nat, b_ticks : Nat, b_ns : Nat, anchors : 0..2]
             /\ s.a_ticks = t.b_ticks /\ s.a_ns = t.b_ns
             /\ s.b_ticks = ticks /\ s.b_ns = ns
             /\ s.anchors = 2 => t.anchors > 0
BY DEF Anchored, TypeOK

LEMMA TimeSteps == TimeInv /\ [Next]_vars => TimeInv'
<1> SUFFICES ASSUME TimeInv, [Next]_vars
             PROVE  TimeInv'
  OBVIOUS
<1>1. TypeOK /\ Apart
  BY DEF TimeInv
<1>2. t.anchors \in 0..2 /\ t.b_ticks \in Nat /\ t.b_ns \in Nat
  BY <1>1 DEF TypeOK
<1>3. CASE Pps
  <2>1. PICK n \in 1..(MaxMissed + 1), first \in {0, 5} :
               \E c \in Counts(n) :
                 LET ticks == IF t.anchors = 0 THEN first ELSE t.b_ticks + c
                     ns    == IF t.anchors = 0 THEN Second ELSE t.b_ns + n * Second
                 IN  t' = Anchored(t, ticks, ns)
    BY <1>3 DEF Pps
  <2>2. PICK c \in Counts(n) :
               t' = Anchored(t, IF t.anchors = 0 THEN first ELSE t.b_ticks + c,
                                IF t.anchors = 0 THEN Second ELSE t.b_ns + n * Second)
    BY <2>1
  <2> DEFINE ticks == IF t.anchors = 0 THEN first ELSE t.b_ticks + c
             m     == n * Second
             ns    == IF t.anchors = 0 THEN Second ELSE t.b_ns + m
  <2>3. c \in Nat \ {0} /\ m \in Nat \ {0}
    BY CountsArePositive, TimeAssumption
  <2> HIDE DEF m
  <2>4. /\ ticks \in Nat /\ ns \in Nat
        /\ t.anchors > 0 => t.b_ticks < ticks /\ t.b_ns < ns
    BY <1>2, <2>3, TimeAssumption
  <2>5. t' = Anchored(t, ticks, ns)
    BY <2>2 DEF m
  <2> HIDE DEF ticks, ns
  <2>6. /\ t' \in [a_ticks : Nat, a_ns : Nat, b_ticks : Nat, b_ns : Nat, anchors : 0..2]
        /\ t'.a_ticks = t.b_ticks /\ t'.a_ns = t.b_ns
        /\ t'.b_ticks = ticks /\ t'.b_ns = ns
        /\ t'.anchors = 2 => t.anchors > 0
    BY <1>1, <2>4, <2>5, AnchoredType
  <2>7. edges' \in Nat /\ again' \in BOOLEAN
    <3>1. edges \in Nat
      BY <1>1 DEF TypeOK
    <3>2. edges' = edges + 1
      BY <1>3 DEF Pps
    <3>3. again' = FALSE
      BY <1>3 DEF Pps
    <3>4. edges' \in Nat
      BY <3>1, <3>2
    <3>5. again' \in BOOLEAN
      BY <3>3
    <3> QED
      BY <3>4, <3>5
  <2>8. TypeOK'
    BY <2>6, <2>7 DEF TypeOK
  <2>9. Apart'
    BY <2>4, <2>6 DEF Apart, Measured
  <2> QED
    BY <2>8, <2>9 DEF TimeInv
<1>4. CASE PpsAgain
  <2>1. t' = Anchored(t, t.b_ticks, t.b_ns) /\ edges' = edges + 1 /\ again' = TRUE
    BY <1>4 DEF PpsAgain
  <2>2. t' \in [a_ticks : Nat, a_ns : Nat, b_ticks : Nat, b_ns : Nat, anchors : 0..2]
    BY <1>1, <1>2, <2>1, AnchoredType
  <2>3. TypeOK'
    BY <1>1, <2>1, <2>2 DEF TypeOK
  <2>4. Apart'
    BY <2>1 DEF Apart, Measured
  <2> QED
    BY <2>3, <2>4 DEF TimeInv
<1>5. CASE UNCHANGED vars
  BY <1>1, <1>5 DEF vars, TimeInv, TypeOK, Apart, Measured
<1> QED
  BY <1>3, <1>4, <1>5 DEF Next

LEMMA TimeInvariant == Spec => []TimeInv
BY TimeStarts, TimeSteps, PTL DEF Spec

LEMMA InvAnchors == TimeInv => AnchoredTime
<1> SUFFICES ASSUME TimeInv, Measured
             PROVE  /\ Resolve(t, t.a_ticks) = t.a_ns /\ Resolve(t, t.b_ticks) = t.b_ns
                    /\ \A k \in t.a_ticks..(t.b_ticks - 1) : Resolve(t, k) <= Resolve(t, k + 1)
  BY DEF AnchoredTime
<1> DEFINE a == t.a_ticks
           b == t.b_ticks
           d == b - a
           z == t.b_ns
           y == t.b_ns - t.a_ns
<1>1. /\ a \in Nat /\ b \in Nat /\ d \in Nat \ {0} /\ a # b
      /\ z \in Nat /\ y \in Nat
      /\ t.a_ns = z - y
      /\ t.anchors = 2
  BY DEF TimeInv, TypeOK, Apart, Measured
<1>2. \A k : Resolve(t, k) = z + Quotient((k - b) * y, d)
  BY <1>1 DEF Resolve, Along
<1> HIDE DEF a, b, d, z, y
\* The time of the count x before the newer anchor.
<1> DEFINE back(x) == (x * y) \div d
<1>3. \A x \in Nat : Quotient((0 - x) * y, d) = 0 - back(x) /\ back(x) \in Nat
  <2> SUFFICES ASSUME NEW x \in Nat
               PROVE  Quotient((0 - x) * y, d) = 0 - back(x) /\ back(x) \in Nat
    OBVIOUS
  <2>1. x * y \in Nat
    BY <1>1
  <2> QED
    BY <1>1, <2>1, DivInt, BackFromTheNewer
<1>4. \A x \in Nat : back(x) <= back(x + 1)
  <2> SUFFICES ASSUME NEW x \in Nat
               PROVE  back(x) <= back(x + 1)
    OBVIOUS
  <2> DEFINE k == x + 1
  <2>1. k \in Nat /\ x <= k
    OBVIOUS
  <2> HIDE DEF k
  <2>2. (x * y) \div d <= (k * y) \div d
    BY <1>1, <2>1, BackFromTheNewer
  <2> QED
    BY <2>2 DEF k
<1>5. back(0) = 0 /\ back(d) = y
  <2>1. 0 * y = 0 /\ d * y \in Nat
    BY <1>1
  <2>2. 0 \div d = 0
    BY <1>1
  <2>3. (d * y) \div d = y
    BY <1>1, DivExact
  <2> QED
    BY <2>1, <2>2, <2>3
<1> HIDE DEF back
<1>6. \A k \in a..b : Resolve(t, k) = z - back(b - k)
  <2> SUFFICES ASSUME NEW k \in a..b
               PROVE  Resolve(t, k) = z - back(b - k)
    OBVIOUS
  <2>1. b - k \in Nat /\ k - b = 0 - (b - k)
    BY <1>1
  <2>2. Quotient((k - b) * y, d) = 0 - back(b - k) /\ back(b - k) \in Nat
    BY <1>3, <2>1
  <2> QED
    BY <1>1, <1>2, <2>2
<1>7. Resolve(t, a) = z - y /\ Resolve(t, b) = z
  <2>1. a \in a..b /\ b \in a..b /\ b - b = 0 /\ b - a = d
    BY <1>1 DEF d
  <2> QED
    BY <1>1, <1>5, <1>6, <2>1
<1>8. \A k \in a..(b - 1) : Resolve(t, k) <= Resolve(t, k + 1)
  <2> SUFFICES ASSUME NEW k \in a..(b - 1)
               PROVE  Resolve(t, k) <= Resolve(t, k + 1)
    OBVIOUS
  <2> DEFINE x == b - (k + 1)
  <2>1. k \in a..b /\ k + 1 \in a..b /\ x \in Nat /\ b - k = x + 1
    BY <1>1
  <2> HIDE DEF x
  <2>2. back(x) \in Nat /\ back(x + 1) \in Nat /\ back(x) <= back(x + 1)
    BY <1>3, <1>4, <2>1
  <2>3. Resolve(t, k) = z - back(x + 1) /\ Resolve(t, k + 1) = z - back(x)
    BY <1>6, <2>1 DEF x
  <2> QED
    BY <1>1, <2>2, <2>3
<1> QED
  BY <1>1, <1>7, <1>8 DEF a, b, z, y

(* The times of all counts between two anchors lie on the line through      *)
(* them, for every clock (nic_timesync_resolve).                            *)
THEOREM AnchoredTimeTheorem == Spec => []AnchoredTime
BY TimeInvariant, InvAnchors, PTL

(* The anchors saturate at two and stay counts and times, whatever edges    *)
(* are missed or repeated (nic_timesync_anchor).                            *)
THEOREM TimeTypes == Spec => []TypeOK
<1>1. TimeInv => TypeOK
  BY DEF TimeInv
<1> QED
  BY <1>1, TimeInvariant, PTL
----------------------------------------------------------------------------
(* The drift and the step: how far apart the anchors are, in both scales.   *)

\* Two anchors of different edges are whole seconds apart, each with the counts a
\* second may have; an edge that came twice leaves no distance.
Paced ==
  /\ Measured => \E s \in Nat \ {0} : /\ t.b_ns - t.a_ns = s * Second
                                      /\ t.b_ticks - t.a_ticks \in Counts(s)
  /\ again => t.a_ticks = t.b_ticks

LEMMA PacedStarts == Init => Paced
BY DEF Init, TimesyncInit, Paced, Measured

\* What an edge after some seconds makes of the anchors.
LEMMA EdgeAdds ==
  ASSUME TimeInv, Pps
  PROVE  /\ ~again' /\ t'.a_ticks = t.b_ticks /\ t'.a_ns = t.b_ns
         /\ t'.anchors = 2 => t.anchors > 0
         /\ t.anchors > 0 => \E n \in Nat \ {0} : \E c \in Counts(n) :
                               /\ t'.b_ticks = t.b_ticks + c /\ t'.b_ns = t.b_ns + n * Second
                               /\ c \in Nat \ {0} /\ n * Second \in Nat \ {0}
<1>1. PICK n \in 1..(MaxMissed + 1), first \in {0, 5} :
             \E c \in Counts(n) :
               LET ticks == IF t.anchors = 0 THEN first ELSE t.b_ticks + c
                   ns    == IF t.anchors = 0 THEN Second ELSE t.b_ns + n * Second
               IN  t' = Anchored(t, ticks, ns)
  BY DEF Pps
<1>2. PICK c \in Counts(n) :
             t' = Anchored(t, IF t.anchors = 0 THEN first ELSE t.b_ticks + c,
                              IF t.anchors = 0 THEN Second ELSE t.b_ns + n * Second)
  BY <1>1
<1>3. n \in Nat \ {0} BY TimeAssumption
<1>4. c \in Nat \ {0} /\ n * Second \in Nat \ {0} BY <1>3, CountsArePositive
<1>5. /\ t'.a_ticks = t.b_ticks /\ t'.a_ns = t.b_ns
      /\ t.anchors > 0 => t'.b_ticks = t.b_ticks + c /\ t'.b_ns = t.b_ns + n * Second
      /\ t'.anchors = 2 => t.anchors > 0
  <2>1. t.anchors \in 0..2 BY DEF TimeInv, TypeOK
  <2> QED BY <1>2, <2>1 DEF Anchored
<1>6. ~again' BY DEF Pps
<1> QED BY <1>3, <1>4, <1>5, <1>6

LEMMA PacedSteps == TimeInv /\ Paced /\ [Next]_vars => Paced'
<1> SUFFICES ASSUME TimeInv, Paced, [Next]_vars
             PROVE  Paced'
  OBVIOUS
<1>0. t.b_ticks \in Nat /\ t.b_ns \in Nat BY DEF TimeInv, TypeOK
<1>1. CASE Pps
  <2>1. /\ ~again' /\ t'.a_ticks = t.b_ticks /\ t'.a_ns = t.b_ns
        /\ t'.anchors = 2 => t.anchors > 0
    BY <1>1, EdgeAdds
  <2>2. ASSUME t'.anchors = 2
        PROVE  \E s \in Nat \ {0} : /\ t'.b_ns - t'.a_ns = s * Second
                                   /\ t'.b_ticks - t'.a_ticks \in Counts(s)
    <3>1. PICK n \in Nat \ {0} : \E c \in Counts(n) :
                 /\ t'.b_ticks = t.b_ticks + c /\ t'.b_ns = t.b_ns + n * Second
                 /\ c \in Nat \ {0} /\ n * Second \in Nat \ {0}
      BY <1>1, <2>1, <2>2, EdgeAdds
    <3>2. PICK c \in Counts(n) :
                 /\ t'.b_ticks = t.b_ticks + c /\ t'.b_ns = t.b_ns + n * Second
                 /\ c \in Nat \ {0} /\ n * Second \in Nat \ {0}
      BY <3>1
    <3>3. t'.b_ns - t'.a_ns = n * Second
      <4> DEFINE m == n * Second
      <4>1. t'.b_ns = t.b_ns + m /\ m \in Nat BY <3>2
      <4> HIDE DEF m
      <4>2. t'.b_ns - t'.a_ns = m BY <1>0, <2>1, <4>1
      <4> QED BY <4>2 DEF m
    <3>4. t'.b_ticks - t'.a_ticks = c BY <1>0, <2>1, <3>2
    <3> QED BY <3>3, <3>4
  <2> QED BY <2>1, <2>2 DEF Paced, Measured
<1>2. CASE PpsAgain
  <2>1. t' = Anchored(t, t.b_ticks, t.b_ns) /\ again' = TRUE BY <1>2 DEF PpsAgain
  <2> QED BY <2>1 DEF Paced, Measured, Anchored
<1>3. CASE UNCHANGED vars BY <1>3 DEF vars, Paced, Measured
<1> QED BY <1>1, <1>2, <1>3 DEF Next

LEMMA PacedInvariant == Spec => [](TimeInv /\ Paced)
BY TimeStarts, TimeSteps, PacedStarts, PacedSteps, PTL DEF Spec

\* The counts of s seconds, as products.
LEMMA CountsBound ==
  ASSUME NEW s \in Nat \ {0}, NEW c \in Counts(s)
  PROVE  /\ c \in Nat \ {0}
         /\ (Nominal - Wander) * s <= c /\ c <= (Nominal + Wander) * s
<1>1. Nominal \in Nat /\ Wander \in Nat BY TimeAssumption
<1>2. /\ s * (Nominal - Wander) = (Nominal - Wander) * s
      /\ s * (Nominal + Wander) = (Nominal + Wander) * s
      /\ (Nominal - Wander) * s \in Int /\ (Nominal + Wander) * s \in Int
  BY <1>1
<1> DEFINE u == (Nominal - Wander) * s
           v == (Nominal + Wander) * s
<1>3. u \in Int /\ v \in Int /\ c \in u..v BY <1>2 DEF Counts
<1> HIDE DEF u, v
<1>4. u <= c /\ c <= v BY <1>3
<1> QED BY <1>4, CountsArePositive DEF u, v

\* How many counts a second takes, by the anchors, and the drift made of it.
LEMMA MeasuredRate ==
  ASSUME NEW s \in Nat \ {0}, NEW c \in Counts(s)
  PROVE  /\ Quotient(c * Second, s * Second) = c \div s
         /\ c \div s \in Nat
         /\ (c \div s) * s <= c /\ c < (c \div s) * s + s
         /\ Nominal - Wander <= c \div s /\ c \div s <= Nominal + Wander
<1>1. c \in Nat \ {0} /\ (Nominal - Wander) * s <= c /\ c <= (Nominal + Wander) * s
  BY CountsBound
<1>2. Second \in Nat \ {0} /\ Nominal \in Nat /\ Wander \in Nat BY TimeAssumption
<1> DEFINE q == c \div s
<1>3. q \in Nat /\ s * q <= c /\ c < s * q + s BY <1>1, DivInt
<1>4. Quotient(c * Second, s * Second) = q
  <2>1. c * Second \in Nat /\ ~ (c * Second < 0) BY <1>1, <1>2
  <2>2. (c * Second) \div (s * Second) = q BY <1>1, <1>2, UnitCancels
  <2> QED BY <2>1, <2>2 DEF Quotient
<1> HIDE DEF q
<1>5. s * q = q * s BY <1>3
<1>6. Nominal - Wander <= q
  <2>1. (Nominal - Wander) * s < (q + 1) * s
    <3>1. (q + 1) * s = q * s + s BY <1>3
    <3>2. (Nominal - Wander) * s \in Int /\ q * s \in Int BY <1>2, <1>3
    <3> QED BY <1>1, <1>3, <1>5, <3>1, <3>2
  <2>2. Nominal - Wander \in Int /\ q + 1 \in Int BY <1>2, <1>3
  <2>3. Nominal - Wander < q + 1 BY <2>1, <2>2, ProductGivesBack
  <2> QED BY <1>2, <1>3, <2>3
<1>7. q <= Nominal + Wander
  <2>1. q * s <= (Nominal + Wander) * s
    <3>1. (Nominal + Wander) * s \in Int /\ q * s \in Int BY <1>2, <1>3
    <3> QED BY <1>1, <1>3, <1>5, <3>1
  <2>2. Nominal + Wander \in Int /\ q \in Int BY <1>2, <1>3
  <2> QED BY <2>1, <2>2, ProductGivesBack
<1> QED BY <1>3, <1>4, <1>5, <1>6, <1>7 DEF q

\* What division toward zero leaves of a number.
LEMMA QuotientBounds ==
  ASSUME NEW x \in Int, NEW d \in Nat \ {0}
  PROVE  /\ Quotient(x, d) \in Int
         /\ Quotient(x, d) > 0 => x > 0
         /\ Quotient(x, d) < 0 => x < 0
         /\ d <= Abs(x) => Quotient(x, d) # 0
         /\ Abs(Quotient(x, d)) * d <= Abs(x)
<1> DEFINE p == Abs(x)
           q == p \div d
<1>1. p \in Nat BY DEF Abs
<1>2. q \in Nat /\ q * d <= p /\ (d <= p => 1 <= q)
  <2>1. q \in Nat /\ d * q <= p BY <1>1, DivInt
  <2>2. d * q = q * d BY <2>1
  <2>3. d <= p => 1 <= p \div d
    <3>1. 1 * d = d OBVIOUS
    <3> QED BY <1>1, <3>1, DivAtLeast
  <2> QED BY <2>1, <2>2, <2>3
<1>3. Quotient(x, d) = IF x < 0 THEN -q ELSE q BY DEF Quotient, Abs
<1>4. x = 0 => q = 0
  <2>1. x = 0 => p = 0 BY DEF Abs
  <2>2. 0 \div d = 0 OBVIOUS
  <2> QED BY <2>1, <2>2
<1> HIDE DEF q
<1>5. Abs(Quotient(x, d)) = q BY <1>2, <1>3 DEF Abs
<1>6. Quotient(x, d) \in Int BY <1>2, <1>3
<1>7. Quotient(x, d) > 0 => x > 0 BY <1>2, <1>3, <1>4
<1>8. Quotient(x, d) < 0 => x < 0 BY <1>2, <1>3
<1>9. d <= p => Quotient(x, d) # 0 BY <1>2, <1>3
<1> QED BY <1>2, <1>5, <1>6, <1>7, <1>8, <1>9

\* The drift of a clock that takes q counts a second.
LEMMA DriftOfRate ==
  ASSUME NEW q \in Nat, Nominal - Wander <= q, q <= Nominal + Wander
  PROVE  LET d == Quotient((q - Nominal) * Billion, Nominal)
         IN  /\ d > 0 => q > Nominal
             /\ d < 0 => q < Nominal
             /\ q # Nominal /\ Nominal <= Billion => d # 0
             /\ Abs(d) * Nominal <= Wander * Billion
<1>0. Nominal \in Nat \ {0} /\ Wander \in Nat /\ Billion \in Nat \ {0} BY TimeAssumption
<1> DEFINE e == q - Nominal
           x == e * Billion
           d == Quotient(x, Nominal)
<1>1. e \in Int /\ x \in Int /\ Abs(e) \in Nat /\ Abs(e) <= Wander BY <1>0 DEF Abs
<1>2. Abs(x) = Abs(e) * Billion
  <2>1. CASE e >= 0
    <3>1. x >= 0 BY <1>0, <2>1
    <3> QED BY <1>1, <2>1, <3>1 DEF Abs
  <2>2. CASE e < 0
    <3>1. (0 - e) * Billion = 0 - x /\ (0 - e) * Billion > 0 BY <1>0, <2>2
    <3>2. x < 0 BY <1>1, <3>1
    <3> QED BY <1>1, <2>2, <3>1, <3>2 DEF Abs
  <2> QED BY <1>1, <2>1, <2>2
<1>3. /\ d \in Int
      /\ d > 0 => x > 0
      /\ d < 0 => x < 0
      /\ Nominal <= Abs(x) => d # 0
      /\ Abs(d) * Nominal <= Abs(x)
  BY <1>0, <1>1, QuotientBounds
<1>4. /\ x > 0 => e > 0
      /\ x < 0 => e < 0
  <2>1. e <= 0 => x <= 0
    <3>1. e <= 0 => e * Billion <= 0 * Billion BY <1>0, <1>1, ProductOrder
    <3>2. 0 * Billion = 0 BY <1>0
    <3> QED BY <3>1, <3>2
  <2>2. e >= 0 => x >= 0
    <3>1. 0 <= e => 0 * Billion <= e * Billion BY <1>0, <1>1, ProductOrder
    <3>2. 0 * Billion = 0 BY <1>0
    <3> QED BY <1>1, <3>1, <3>2
  <2> QED BY <1>1, <2>1, <2>2
<1>5. e # 0 => Billion <= Abs(x)
  <2>1. e # 0 => 1 <= Abs(e) BY <1>1 DEF Abs
  <2>2. e # 0 => 1 * Billion <= Abs(e) * Billion BY <1>0, <1>1, <2>1, ProductOrder
  <2>3. 1 * Billion = Billion BY <1>0
  <2> QED BY <1>2, <2>2, <2>3
<1>6. Abs(x) <= Wander * Billion
  <2>1. Abs(e) * Billion <= Wander * Billion BY <1>0, <1>1, ProductOrder
  <2> QED BY <1>2, <2>1
<1> DEFINE y == Abs(x)
           w == Wander * Billion
           z == Abs(d) * Nominal
<1>7. y \in Int /\ w \in Int /\ z \in Int
  <2>1. Abs(d) \in Int BY <1>3 DEF Abs
  <2>2. Abs(x) \in Int BY <1>1 DEF Abs
  <2> HIDE DEF d, x
  <2> QED BY <1>0, <2>1, <2>2
<1>8. z <= w
  <2>1. z <= y /\ y <= w BY <1>3, <1>6
  <2> HIDE DEF y, w, z
  <2> QED BY <1>7, <2>1
<1>9. e # 0 /\ Nominal <= Billion => d # 0
  <2> SUFFICES ASSUME e # 0, Nominal <= Billion PROVE d # 0 OBVIOUS
  <2>1. Billion <= y BY <1>5
  <2>2. Nominal <= y
    <3> HIDE DEF y
    <3> QED BY <1>0, <1>7, <2>1
  <2> QED BY <1>3, <2>2
<1>10. (d > 0 => q > Nominal) /\ (d < 0 => q < Nominal)
  <2>1. (d > 0 => e > 0) /\ (d < 0 => e < 0) BY <1>3, <1>4
  <2>2. (e > 0 => q > Nominal) /\ (e < 0 => q < Nominal) BY <1>0
  <2> QED BY <2>1, <2>2
<1>11. q # Nominal => e # 0 BY <1>0
<1> QED BY <1>8, <1>9, <1>10, <1>11

LEMMA InvDrift == Nominal <= Billion /\ TimeInv /\ Paced => DriftIsReal
<1> SUFFICES ASSUME Nominal <= Billion, TimeInv, Paced, Measured
             PROVE  LET s == (t.b_ns - t.a_ns) \div Second
                        c == t.b_ticks - t.a_ticks
                        d == DriftPpb(t)
                    IN  /\ d > 0 => c > s * Nominal
                        /\ d < 0 => c < s * Nominal
                        /\ Abs(c - s * Nominal) >= s => d # 0
                        /\ Abs(d) * Nominal <= Wander * Billion
  BY DEF DriftIsReal
<1>1. PICK s \in Nat \ {0} : /\ t.b_ns - t.a_ns = s * Second
                             /\ t.b_ticks - t.a_ticks \in Counts(s)
  BY DEF Paced
<1> DEFINE c == t.b_ticks - t.a_ticks
           q == c \div s
           d == DriftPpb(t)
<1>2. Second \in Nat \ {0} /\ Nominal \in Nat \ {0} BY TimeAssumption
<1>3. (t.b_ns - t.a_ns) \div Second = s
  <2>1. s * Second = Second * s BY <1>2
  <2> QED BY <1>1, <1>2, <2>1, DivExact
<1>4. /\ Quotient(c * Second, s * Second) = q
      /\ q \in Nat /\ q * s <= c /\ c < q * s + s
      /\ Nominal - Wander <= q /\ q <= Nominal + Wander
      /\ c \in Nat
  BY <1>1, MeasuredRate, CountsBound
<1>5. d = Quotient((q - Nominal) * Billion, Nominal)
  <2>1. t.anchors = 2 /\ t.a_ns < t.b_ns /\ t.a_ns \in Nat /\ t.b_ns \in Nat
    BY DEF TimeInv, Apart, Measured, TypeOK
  <2>2. ~ (t.anchors < 2 \/ t.b_ns <= t.a_ns) BY <2>1
  <2>3. Quotient((t.b_ticks - t.a_ticks) * Second, t.b_ns - t.a_ns) = q BY <1>1, <1>4
  <2> HIDE DEF q
  <2> QED BY <2>2, <2>3 DEF DriftPpb
<1>6. /\ d > 0 => q > Nominal
      /\ d < 0 => q < Nominal
      /\ q # Nominal => d # 0
      /\ Abs(d) * Nominal <= Wander * Billion
  <2> HIDE DEF q
  <2> QED BY <1>4, <1>5, DriftOfRate
<1> HIDE DEF c, q, d
<1>7. q > Nominal => c > s * Nominal
  <2>1. Nominal + 1 <= q => (Nominal + 1) * s <= q * s BY <1>2, <1>4, ProductOrder
  <2>2. (Nominal + 1) * s = s * Nominal + s /\ s * Nominal \in Nat /\ q * s \in Nat
    BY <1>2, <1>4
  <2> DEFINE y == s * Nominal
             z == q * s
  <2>3. y \in Nat /\ z \in Nat /\ (q > Nominal => y + s <= z) /\ z <= c
    BY <1>2, <1>4, <2>1, <2>2
  <2> HIDE DEF y, z
  <2>4. q > Nominal => c > y BY <1>4, <2>3
  <2> QED BY <2>4 DEF y
<1>8. q < Nominal => c < s * Nominal
  <2>1. q + 1 <= Nominal => (q + 1) * s <= Nominal * s BY <1>2, <1>4, ProductOrder
  <2>2. (q + 1) * s = q * s + s /\ s * Nominal = Nominal * s BY <1>2, <1>4
  <2> DEFINE y == s * Nominal
             z == q * s
  <2>3. y \in Nat /\ z \in Nat /\ (q < Nominal => z + s <= y) /\ c < z + s
    BY <1>2, <1>4, <2>1, <2>2
  <2> HIDE DEF y, z
  <2>4. q < Nominal => c < y BY <1>4, <2>3
  <2> QED BY <2>4 DEF y
<1>9. Abs(c - s * Nominal) >= s => q # Nominal
  <2> SUFFICES ASSUME q = Nominal PROVE ~ (Abs(c - s * Nominal) >= s) OBVIOUS
  <2> DEFINE y == s * Nominal
  <2>1. y \in Nat /\ y <= c /\ c < y + s
    <3>1. q * s = s * Nominal BY <1>2
    <3> QED BY <1>2, <1>4, <3>1
  <2> HIDE DEF y
  <2>2. ~ (Abs(c - y) >= s) BY <1>4, <2>1 DEF Abs
  <2> QED BY <2>2 DEF y
<1>10. /\ d > 0 => c > s * Nominal
       /\ d < 0 => c < s * Nominal
       /\ Abs(c - s * Nominal) >= s => d # 0
       /\ Abs(d) * Nominal <= Wander * Billion
  BY <1>6, <1>7, <1>8, <1>9
<1> DEFINE u == (t.b_ns - t.a_ns) \div Second
<1>11. u = s BY <1>3
<1> HIDE DEF u
<1>12. /\ d > 0 => c > u * Nominal
       /\ d < 0 => c < u * Nominal
       /\ Abs(c - u * Nominal) >= u => d # 0
       /\ Abs(d) * Nominal <= Wander * Billion
  BY <1>10, <1>11
<1> QED BY <1>12 DEF u, c, d

(* The drift reported has the sign of the drift there is, and is none beyond *)
(* what the clock may wander, on a clock of no more counts a second than     *)
(* there are parts it is reported in (nic_timesync_drift_ppb).               *)
THEOREM DriftTheorem == ASSUME Nominal <= Billion PROVE Spec => []DriftIsReal
<1>1. TimeInv /\ Paced => DriftIsReal BY InvDrift
<1> QED BY <1>1, PacedInvariant, PTL

\* A line whose slope is off by a share v of m misses a point e by as much, and by
\* what the division cuts off.
LEMMA LineMisses ==
  ASSUME NEW x \in Nat, NEW c \in Nat \ {0}, NEW e \in Nat, NEW m \in Nat \ {0}, NEW v \in Nat,
         x * m <= (e * (m + v)) * c, (e * m) * c <= x * (m + v)
  PROVE  x \div c \in Nat /\ Abs(e - (x \div c)) <= 1 + (e * v) \div m
<1> DEFINE f == x \div c
           g == (e * v) \div m
           w == m + v
<1>1. f \in Nat /\ c * f <= x /\ x < c * f + c BY DivInt
<1>2. e * v \in Nat /\ w \in Nat \ {0} OBVIOUS
<1>3. g \in Nat BY <1>2, DivInt
<1> HIDE DEF f
<1>4. f - e <= g
  <2>1. (c * f) * m <= x * m BY <1>1, ProductOrder
  <2>2. (c * f) * m = (f * m) * c BY <1>1
  <2>3. (f * m) * c <= (e * w) * c
    <3>1. x * m \in Int /\ (f * m) * c \in Int /\ (e * w) * c \in Int BY <1>1, <1>2
    <3> QED BY <2>1, <2>2, <3>1
  <2>4. f * m \in Int /\ e * w \in Int BY <1>1, <1>2
  <2>5. f * m <= e * w BY <2>3, <2>4, ProductGivesBack
  <2>6. e * w = e * m + e * v /\ (f - e) * m = f * m - e * m BY <1>1
  <2>7. (f - e) * m <= e * v
    <3>1. e * m \in Int BY <1>2
    <3> QED BY <1>2, <2>4, <2>5, <2>6, <3>1
  <2>8. f - e \in Int BY <1>1
  <2> QED BY <1>2, <2>7, <2>8, DivAtLeast
<1>5. f + 1 <= e => e - (f + 1) <= g
  <2> SUFFICES ASSUME f + 1 <= e PROVE e - (f + 1) <= g OBVIOUS
  <2> DEFINE k == f + 1
  <2>0. k \in Nat /\ k <= e /\ x <= k * c
    <3>1. k * c = c * f + c BY <1>1
    <3>2. k * c \in Int BY <1>1
    <3> QED BY <1>1, <3>1, <3>2
  <2> HIDE DEF k
  <2>1. x * w <= (k * c) * w BY <1>2, <2>0, ProductOrder
  <2>2. (k * c) * w = (k * w) * c BY <1>2, <2>0
  <2>3. (e * m) * c <= (k * w) * c
    <3>1. x * w \in Int /\ (e * m) * c \in Int /\ (k * w) * c \in Int BY <1>2, <2>0
    <3> QED BY <2>1, <2>2, <3>1
  <2>4. e * m \in Int /\ k * w \in Int BY <1>2, <2>0
  <2>5. e * m <= k * w BY <2>3, <2>4, ProductGivesBack
  <2>6. k * v <= e * v BY <2>0, ProductOrder
  <2>7. k * w = k * m + k * v /\ (e - k) * m = e * m - k * m BY <2>0
  <2>8. (e - k) * m <= e * v
    <3>1. k * m \in Int /\ k * v \in Int BY <2>0
    <3> QED BY <1>2, <2>4, <2>5, <2>6, <2>7, <3>1
  <2>9. e - k \in Int BY <2>0
  <2>10. e - k <= g BY <1>2, <2>8, <2>9, DivAtLeast
  <2> QED BY <2>10 DEF k
<1> HIDE DEF g
<1>6. Abs(e - f) <= 1 + g
  <2>1. CASE e - f < 0 BY <1>1, <1>3, <1>4, <2>1 DEF Abs
  <2>2. CASE ~ (e - f < 0)
    <3>1. CASE f + 1 <= e BY <1>1, <1>3, <1>5, <2>2, <3>1 DEF Abs
    <3>2. CASE ~ (f + 1 <= e) BY <1>1, <1>3, <2>2, <3>2 DEF Abs
    <3> QED BY <3>1, <3>2
  <2> QED BY <2>1, <2>2
<1> QED BY <1>1, <1>6 DEF f, g

\* The time read off anchors s seconds apart for an edge n seconds on.
LEMMA EdgeMisses ==
  ASSUME NEW s \in Nat \ {0}, NEW c \in Counts(s), NEW n \in Nat \ {0}, NEW k \in Counts(n)
  PROVE  /\ Quotient(k * (s * Second), c) \in Nat
         /\ Abs(n * Second - Quotient(k * (s * Second), c))
              <= 1 + (n * Second * 2 * Wander) \div (Nominal - Wander)
<1> DEFINE m == Nominal - Wander
           v == 2 * Wander
           u == Second
           e == n * u
           x == k * (s * u)
<1>1. m \in Nat \ {0} /\ v \in Nat /\ u \in Nat \ {0} /\ Nominal + Wander = m + v
  BY TimeAssumption
<1>2. /\ c \in Nat \ {0} /\ m * s <= c /\ c <= (Nominal + Wander) * s
      /\ k \in Nat \ {0} /\ m * n <= k /\ k <= (Nominal + Wander) * n
  BY CountsBound
<1>3. c <= (m + v) * s /\ k <= (m + v) * n BY <1>1, <1>2
<1>4. n * Second * 2 * Wander = e * v
  <2>1. Wander \in Nat BY TimeAssumption
  <2> HIDE DEF e
  <2>2. e \in Nat BY <1>1 DEF e
  <2>3. e * 2 * Wander = e * (2 * Wander) BY <2>1, <2>2
  <2> QED BY <2>3 DEF e
<1> HIDE DEF m, v, u
<1>5. e \in Nat /\ x \in Nat BY <1>1, <1>2
\* The counts of the edge and of the anchors, each against its seconds.
<1>6. x * m <= (e * (m + v)) * c
  <2> DEFINE p == (k * u) * c
  <2>1. (m * s) * (k * u) <= c * (k * u)
    <3>1. m * s \in Int /\ k * u \in Nat BY <1>1, <1>2
    <3> QED BY <1>2, <3>1, ProductOrder
  <2>2. k * (u * c) <= ((m + v) * n) * (u * c)
    <3>1. (m + v) * n \in Int /\ u * c \in Nat BY <1>1, <1>2
    <3> QED BY <1>2, <1>3, <3>1, ProductOrder
  <2>3. (m * s) * (k * u) = x * m /\ c * (k * u) = p BY <1>1, <1>2
  <2>4. k * (u * c) = p /\ ((m + v) * n) * (u * c) = (e * (m + v)) * c BY <1>1, <1>2
  <2>5. x * m \in Int /\ p \in Int /\ (e * (m + v)) * c \in Int BY <1>1, <1>2, <1>5
  <2> QED BY <2>1, <2>2, <2>3, <2>4, <2>5
<1>7. (e * m) * c <= x * (m + v)
  <2> DEFINE p == (k * u) * c
  <2>1. (m * n) * (u * c) <= k * (u * c)
    <3>1. m * n \in Int /\ u * c \in Nat BY <1>1, <1>2
    <3> QED BY <1>2, <3>1, ProductOrder
  <2>2. c * (k * u) <= ((m + v) * s) * (k * u)
    <3>1. (m + v) * s \in Int /\ k * u \in Nat BY <1>1, <1>2
    <3> QED BY <1>2, <1>3, <3>1, ProductOrder
  <2>3. (m * n) * (u * c) = (e * m) * c /\ k * (u * c) = p BY <1>1, <1>2
  <2>4. c * (k * u) = p /\ ((m + v) * s) * (k * u) = x * (m + v) BY <1>1, <1>2
  <2>5. (e * m) * c \in Int /\ p \in Int /\ x * (m + v) \in Int BY <1>1, <1>2, <1>5
  <2> QED BY <2>1, <2>2, <2>3, <2>4, <2>5
<1> DEFINE f == x \div c
<1>8. f \in Nat /\ Abs(e - f) <= 1 + (e * v) \div m
  <2> HIDE DEF e, x
  <2> QED BY <1>1, <1>2, <1>5, <1>6, <1>7, LineMisses
<1>9. Quotient(x, c) = f
  <2> HIDE DEF x
  <2>1. ~ (x < 0) BY <1>5
  <2> QED BY <2>1 DEF Quotient
<1> HIDE DEF f
<1>10. Quotient(x, c) \in Nat /\ Abs(e - Quotient(x, c)) <= 1 + (n * Second * 2 * Wander) \div m
  BY <1>4, <1>8, <1>9
<1> QED BY <1>10 DEF m, u

\* What StepIsBounded says of an edge.
LEMMA StepOfEdge ==
  ASSUME TimeInv, Paced, Pps, t.anchors > 0
  PROVE  Abs(t'.b_ns - Resolve(t, t'.b_ticks)) <=
           IF again /\ t.anchors = 2 THEN Elapsed
           ELSE 1 + (Elapsed * 2 * Wander) \div (Nominal - Wander)
<1>1. PICK n \in Nat \ {0} : \E c \in Counts(n) :
             /\ t'.b_ticks = t.b_ticks + c /\ t'.b_ns = t.b_ns + n * Second
             /\ c \in Nat \ {0} /\ n * Second \in Nat \ {0}
  BY EdgeAdds
<1>2. PICK k \in Counts(n) :
             /\ t'.b_ticks = t.b_ticks + k /\ t'.b_ns = t.b_ns + n * Second
             /\ k \in Nat \ {0} /\ n * Second \in Nat \ {0}
  BY <1>1
<1>3. t.anchors \in {1, 2} /\ t.b_ticks \in Nat /\ t.b_ns \in Nat BY DEF TimeInv, TypeOK
<1> DEFINE e == n * Second
           z == t.b_ns
           bound(w) == 1 + (w * 2 * Wander) \div (Nominal - Wander)
<1>4. e \in Nat \ {0} /\ z \in Nat /\ t'.b_ns = z + e BY <1>2, <1>3
<1>5. t'.b_ticks - t.b_ticks = k BY <1>2, <1>3
<1> HIDE DEF e, z
<1>6. Elapsed = e BY <1>4 DEF Elapsed, z
<1> HIDE DEF bound
\* The newer anchor and a time q on, for an edge a time e on.
<1>7. ASSUME NEW q \in Nat, Resolve(t, t'.b_ticks) = z + q, Abs(e - q) <= bound(e),
             ~ (again /\ t.anchors = 2)
      PROVE  Abs(t'.b_ns - Resolve(t, t'.b_ticks)) <=
               IF again /\ t.anchors = 2 THEN Elapsed ELSE bound(Elapsed)
  <2>1. (z + e) - (z + q) = e - q BY <1>4, <1>7
  <2>2. Abs(t'.b_ns - Resolve(t, t'.b_ticks)) <= bound(e) BY <1>4, <1>7, <2>1
  <2> QED BY <1>6, <1>7, <2>2
<1>8. CASE t.anchors = 1
  <2>1. Nominal \in Nat \ {0} /\ Wander \in Nat /\ Second \in Nat \ {0} BY TimeAssumption
  <2>2. Nominal \in Counts(1)
    <3>1. /\ 1 * (Nominal - Wander) = Nominal - Wander
          /\ 1 * (Nominal + Wander) = Nominal + Wander
      BY <2>1
    <3> QED BY <2>1, <3>1 DEF Counts
  <2> DEFINE q == Quotient(k * Second, Nominal)
  <2>3. q \in Nat /\ Abs(e - q) <= bound(e)
    <3>1. 1 * Second = Second BY <2>1
    <3>2. 1 \in Nat \ {0} OBVIOUS
    <3>3. /\ Quotient(k * (1 * Second), Nominal) \in Nat
          /\ Abs(n * Second - Quotient(k * (1 * Second), Nominal))
               <= 1 + (n * Second * 2 * Wander) \div (Nominal - Wander)
      BY <2>2, <3>2, EdgeMisses
    <3> QED BY <3>1, <3>3 DEF e, bound
  <2>4. Resolve(t, t'.b_ticks) = z + q BY <1>5, <1>8 DEF Resolve, z
  <2> HIDE DEF q
  <2>5. ~ (again /\ t.anchors = 2) BY <1>8
  <2> QED BY <1>7, <2>3, <2>4, <2>5 DEF bound
<1>9. CASE t.anchors = 2 /\ ~again
  <2>1. PICK s \in Nat \ {0} : /\ t.b_ns - t.a_ns = s * Second
                               /\ t.b_ticks - t.a_ticks \in Counts(s)
    BY <1>9 DEF Paced, Measured
  <2> DEFINE q == Quotient(k * (t.b_ns - t.a_ns), t.b_ticks - t.a_ticks)
  <2>2. q \in Nat /\ Abs(e - q) <= bound(e)
    <3> DEFINE c == t.b_ticks - t.a_ticks
    <3>1. c \in Counts(s) BY <2>1
    <3> HIDE DEF c
    <3>2. /\ Quotient(k * (s * Second), c) \in Nat
          /\ Abs(n * Second - Quotient(k * (s * Second), c))
               <= 1 + (n * Second * 2 * Wander) \div (Nominal - Wander)
      BY <3>1, EdgeMisses
    <3>3. q = Quotient(k * (s * Second), c) BY <2>1 DEF c
    <3> HIDE DEF q
    <3> QED BY <3>2, <3>3 DEF e, bound
  <2>3. t.a_ticks # t.b_ticks BY <1>9 DEF TimeInv, Apart, Measured, TypeOK
  <2>4. Resolve(t, t'.b_ticks) = z + q BY <1>5, <1>9, <2>3 DEF Resolve, Along, z
  <2> HIDE DEF q
  <2> QED BY <1>7, <1>9, <2>2, <2>4 DEF bound
<1>10. CASE t.anchors = 2 /\ again
  <2>1. t.a_ticks = t.b_ticks BY <1>10 DEF Paced
  <2>2. Resolve(t, t'.b_ticks) = z BY <1>10, <2>1 DEF Resolve, z
  <2>3. (z + e) - z = e /\ Abs(e) = e BY <1>4 DEF Abs
  <2>4. Abs(t'.b_ns - Resolve(t, t'.b_ticks)) <= Elapsed BY <1>4, <1>6, <2>2, <2>3
  <2> QED BY <1>10, <2>4
<1> QED BY <1>3, <1>8, <1>9, <1>10

(* Time steps at an edge by what the clock can have changed its rate, and no *)
(* more, however many edges went by, for every clock (nic_timesync_resolve). *)
THEOREM StepTheorem == Spec => StepIsBounded
<1>1. TimeInv /\ Paced /\ [Next]_vars
        => [t.anchors > 0 /\ ~again' =>
              Abs(t'.b_ns - Resolve(t, t'.b_ticks)) <=
                IF again /\ t.anchors = 2 THEN Elapsed
                ELSE 1 + (Elapsed * 2 * Wander) \div (Nominal - Wander)]_vars
  <2> SUFFICES ASSUME TimeInv, Paced, [Next]_vars, ~ UNCHANGED vars, t.anchors > 0, ~again'
               PROVE  Abs(t'.b_ns - Resolve(t, t'.b_ticks)) <=
                        IF again /\ t.anchors = 2 THEN Elapsed
                        ELSE 1 + (Elapsed * 2 * Wander) \div (Nominal - Wander)
    OBVIOUS
  <2>1. Pps BY DEF Next, PpsAgain
  <2> QED BY <2>1, StepOfEdge
<1> QED BY <1>1, PacedInvariant, PTL DEF Spec, StepIsBounded
=============================================================================
