--------------------------- MODULE TriggerProofs ---------------------------
(***************************************************************************)
(* What the trigger never does: first its detector, for every magnitude it *)
(* may be fed, every length of its averages and every pair of ratios; then *)
(* the bytes a sample travels in and the frame an event goes on the air    *)
(* in; then the whole, from the ground to the receiver.                    *)
(***************************************************************************)
EXTENDS Trigger, TLAPS, WellFoundedInduction, SequenceTheorems

\* A quotient that rounds down lies between zero and what is divided.
LEMMA QuotientBounds ==
  ASSUME NEW y \in Int, NEW n \in Nat \ {0}
  PROVE  /\ y \div n \in Int
         /\ y >= 0 => 0 <= y \div n /\ y \div n <= y
         /\ y < 0  => y <= y \div n /\ y \div n <= 0
<1> DEFINE q == y \div n
           r == y % n
<1>1. q \in Int /\ r \in 0..(n - 1) /\ y = n * q + r
  OBVIOUS
<1> HIDE DEF q, r
<1>2. y >= 0 => 0 <= q
  <2>1. q < 0 => n * q <= -n
    BY <1>1
  <2> QED
    BY <1>1, <2>1
<1>3. y >= 0 => q <= y
  <2>1. q >= 0 => n * q >= q
    BY <1>1
  <2> QED
    BY <1>1, <1>2, <2>1
<1>4. y < 0 => q <= 0
  <2>1. q > 0 => n * q >= n
    BY <1>1
  <2> QED
    BY <1>1, <2>1
<1>5. y < 0 => y <= q
  <2>1. q <= -1 => n * q + n <= q + 1
    <3>1. (n - 1) * (q + 1) <= 0 \/ q > -1
      BY <1>1
    <3> QED
      BY <1>1, <3>1
  <2>2. q >= 0 => n * q >= 0
    BY <1>1
  <2> QED
    BY <1>1, <2>1, <2>2
<1> QED
  BY <1>1, <1>2, <1>3, <1>4, <1>5 DEF q

\* An average stays on the side of a bound that it and the sample are on.
LEMMA TowardInt ==
  ASSUME NEW avg \in Int, NEW x \in Int, NEW n \in Nat \ {0}
  PROVE  Toward(avg, x, n) \in Int
<1>1. (x - avg) \div n \in Int
  BY QuotientBounds, x - avg \in Int
<1> QED
  BY <1>1 DEF Toward

\* A step of an average stays below what bounds it and the sample from above.
LEMMA TowardBelow ==
  ASSUME NEW avg \in Int, NEW x \in Int, NEW n \in Nat \ {0},
         NEW b \in Int, avg <= b, x <= b
  PROVE  Toward(avg, x, n) <= b
<1> DEFINE q == (x - avg) \div n
<1>1. /\ q \in Int
      /\ x - avg >= 0 => 0 <= q /\ q <= x - avg
      /\ x - avg < 0  => x - avg <= q /\ q <= 0
  BY QuotientBounds, x - avg \in Int
<1>2. Toward(avg, x, n) = avg + q
  BY DEF Toward
<1> HIDE DEF q
<1> QED
  BY <1>1, <1>2

\* And above what bounds them from below.
LEMMA TowardAbove ==
  ASSUME NEW avg \in Int, NEW x \in Int, NEW n \in Nat \ {0},
         NEW b \in Int, avg >= b, x >= b
  PROVE  Toward(avg, x, n) >= b
<1> DEFINE q == (x - avg) \div n
<1>1. /\ q \in Int
      /\ x - avg >= 0 => 0 <= q /\ q <= x - avg
      /\ x - avg < 0  => x - avg <= q /\ q <= 0
  BY QuotientBounds, x - avg \in Int
<1>2. Toward(avg, x, n) = avg + q
  BY DEF Toward
<1> HIDE DEF q
<1> QED
  BY <1>1, <1>2
----------------------------------------------------------------------------
\* What the averages are held between, once the first sample has seeded them.
DetRecord == [sta : Nat, lta : Nat, peak : Nat, in_event : BOOLEAN,
              primed : BOOLEAN, warmup : 0..LtaSpan]

Between(d, lo, hi) ==
  d.sta <= hi * Unit /\ Unit <= d.lta /\ lo * Unit <= d.lta

Held ==
  /\ det.primed = (low # -1)
  /\ det.primed => Between(det, low, high)
  /\ det.in_event => det.primed /\ det.warmup = 0 /\ det.peak = crest

DetectInv == DetectTypeOK /\ Held /\ EventsHaveCause

\* Products with the fixed-point unit keep the order of the counts.
LEMMA ScaledOrder ==
  ASSUME NEW a \in Int, NEW b \in Int, a <= b
  PROVE  a * Unit \in Int /\ b * Unit \in Int /\ a * Unit <= b * Unit
<1>1. Unit \in Nat \ {0}
  BY DetectAssumption
<1>2. (b - a) * Unit >= 0
  BY <1>1
<1> QED
  BY <1>1, <1>2

\* The on-ratio keeps the order.
LEMMA OnRatioOrder ==
  ASSUME NEW a \in Nat, NEW b \in Nat, a <= b
  PROVE  /\ OnRatio * a \in Int /\ OnRatio * b \in Int
         /\ OnRatio * a <= OnRatio * b
<1>1. OnRatio \in Nat \ {0}
  BY DetectAssumption
<1>2. OnRatio * (b - a) >= 0
  BY <1>1
<1> QED
  BY <1>1, <1>2

\* A short average over OnRatio times the long one needs a sample over
\* OnRatio times whatever bounds the long one from below.
LEMMA CauseOfTrigger ==
  ASSUME NEW s \in Nat, NEW t \in Nat, NEW h \in Nat, NEW m \in Nat,
         s > t * OnRatio, s <= h * Unit, m * Unit <= t
  PROVE  h > OnRatio * m
<1>1. OnRatio \in Nat \ {0} /\ Unit \in Nat \ {0}
  BY DetectAssumption
<1>2. m * Unit * OnRatio <= t * OnRatio
  <2>1. (t - m * Unit) * OnRatio >= 0
    BY <1>1
  <2> QED
    BY <1>1, <2>1
<1>3. m * Unit * OnRatio < h * Unit
  BY <1>1, <1>2
<1>4. (h - OnRatio * m) * Unit > 0
  BY <1>1, <1>3
<1>5. h - OnRatio * m \in Int
  BY <1>1
<1>6. h - OnRatio * m > 0
  <2> DEFINE z == h - OnRatio * m
  <2>1. z \in Int /\ z * Unit > 0
    BY <1>4, <1>5
  <2> HIDE DEF z
  <2>2. z > 0
    BY <1>1, <2>1
  <2> QED
    BY <2>2 DEF z
<1> QED
  BY <1>1, <1>5, <1>6

\* A magnitude in fixed point is a natural number.
LEMMA ScaledNat == ASSUME NEW a \in Nat PROVE a * Unit \in Nat
BY DetectAssumption

\* The long average is seeded no lower than the floor and the smallest sample.
LEMMA SeedStep ==
  ASSUME NEW x \in Nat, NEW u \in Nat, NEW h \in Int, h <= x
  PROVE  LET l == Larger(x, u)
         IN  l \in Nat /\ u <= l /\ h <= l
BY DEF Larger

\* The smallest and the largest sample, with one more.
Lowest(l, a) == IF l = -1 THEN a ELSE Smaller(l, a)

\* With one more sample the bounds widen and hold it.
LEMMA SampleBounds ==
  ASSUME NEW l \in Nat \cup {-1}, NEW h \in Nat, NEW a \in Nat
  PROVE  /\ Lowest(l, a) \in Nat /\ Larger(h, a) \in Nat
         /\ Lowest(l, a) <= a /\ a <= Larger(h, a) /\ h <= Larger(h, a)
         /\ l \in Nat => Lowest(l, a) <= l
BY DEF Lowest, Smaller, Larger

\* Wider bounds hold what narrower ones do.
LEMMA Widened ==
  ASSUME NEW d \in DetRecord, NEW l \in Nat, NEW h \in Nat, NEW lo \in Nat, NEW hi \in Nat,
         Between(d, l, h), lo <= l, h <= hi
  PROVE  Between(d, lo, hi)
<1> DEFINE m == l * Unit
           n == lo * Unit
           x == h * Unit
           y == hi * Unit
           s == d.sta
           t == d.lta
<1>1. m \in Int /\ n \in Int /\ n <= m
  BY ScaledOrder
<1>2. x \in Int /\ y \in Int /\ x <= y
  BY ScaledOrder
<1>3. s \in Nat /\ t \in Nat
  BY DEF DetRecord
<1>4. s <= x /\ Unit <= t /\ m <= t
  BY DEF Between
<1> HIDE DEF m, n, x, y, s, t
<1>5. s <= y /\ n <= t
  BY <1>1, <1>2, <1>3, <1>4
<1> QED
  BY <1>4, <1>5 DEF Between, m, n, x, y, s, t

\* A cause found between bounds is one between wider bounds.
LEMMA CauseStays ==
  ASSUME NEW l \in Nat, NEW h \in Nat, NEW lo \in Nat, NEW hi \in Nat,
         lo <= l, h <= hi, h > OnRatio * Larger(l, 1)
  PROVE  hi > OnRatio * Larger(lo, 1)
<1> DEFINE b == Larger(l, 1)
           c == Larger(lo, 1)
           x == OnRatio * b
           y == OnRatio * c
<1>1. b \in Nat /\ c \in Nat /\ c <= b
  BY DEF Larger
<1> HIDE DEF b, c
<1>2. x \in Int /\ y \in Int /\ y <= x
  BY <1>1, OnRatioOrder
<1>3. h > x
  BY DEF b
<1> HIDE DEF x, y
<1>4. hi > y
  BY <1>2, <1>3
<1> QED
  BY <1>4 DEF y, c

\* A detector that triggers between bounds has found a cause there.
LEMMA CauseBegins ==
  ASSUME NEW d \in DetRecord, NEW lo \in Nat, NEW hi \in Nat,
         Between(d, lo, hi), Triggers(d)
  PROVE  hi > OnRatio * Larger(lo, 1)
<1> DEFINE s == d.sta
           t == d.lta
           m == Larger(lo, 1)
<1>1. s \in Nat /\ t \in Nat
  BY DEF DetRecord
<1>2. s > t * OnRatio /\ s <= hi * Unit
  BY DEF Triggers, Between
<1>3. m \in Nat /\ m * Unit <= t
  BY DetectAssumption DEF Between, Larger
<1> HIDE DEF s, t, m
<1>4. hi > OnRatio * m
  BY <1>1, <1>2, <1>3, CauseOfTrigger
<1> QED
  BY <1>4 DEF m

\* The short average after a sample, and the long one with its floor.
LEMMA ShortStep ==
  ASSUME NEW s \in Nat, NEW x \in Nat, NEW n \in Nat \ {0},
         NEW h \in Int, s <= h, x <= h
  PROVE  Toward(s, x, n) \in Nat /\ Toward(s, x, n) <= h
<1>1. Toward(s, x, n) \in Int
  BY TowardInt
<1>2. Toward(s, x, n) >= 0
  BY TowardAbove
<1>3. Toward(s, x, n) <= h
  BY TowardBelow
<1> QED
  BY <1>1, <1>2, <1>3

\* A step of the long average stays above the floor and the smallest sample.
LEMMA LongStep ==
  ASSUME NEW t \in Nat, NEW x \in Nat, NEW n \in Nat \ {0}, NEW u \in Nat,
         NEW h \in Int, h <= t, h <= x
  PROVE  LET l == Larger(Toward(t, x, n), u)
         IN  l \in Nat /\ u <= l /\ h <= l
<1>1. Toward(t, x, n) \in Int
  BY TowardInt
<1>2. Toward(t, x, n) >= h
  BY TowardAbove
<1> QED
  BY <1>1, <1>2 DEF Larger

\* Seeding: the state the averages are taken from.
LEMMA PrimedBounds ==
  ASSUME NEW d \in DetRecord, NEW a \in Nat, NEW lo \in Nat, NEW hi \in Nat,
         lo <= a, a <= hi, d.primed => Between(d, lo, hi)
  PROVE  LET p == Primed(d, a)
         IN  /\ p \in DetRecord /\ p.primed /\ Between(p, lo, hi)
             /\ p.in_event = d.in_event /\ p.peak = d.peak /\ p.warmup = d.warmup
<1>1. CASE d.primed
  BY <1>1 DEF Primed
<1>2. CASE ~d.primed
  <2> DEFINE as == a * Unit
             l  == Larger(as, Unit)
             p  == [d EXCEPT !.sta = as, !.lta = l, !.primed = TRUE]
  <2>1. as \in Nat /\ as <= hi * Unit
    BY ScaledNat, ScaledOrder
  <2>2. l \in Nat /\ Unit <= l /\ lo * Unit <= l
    <3> DEFINE h == lo * Unit
    <3>1. h \in Int /\ h <= as
      BY ScaledOrder
    <3>2. Unit \in Nat
      BY DetectAssumption
    <3> HIDE DEF h, as
    <3>3. LET m == Larger(as, Unit) IN m \in Nat /\ Unit <= m /\ h <= m
      BY <2>1, <3>1, <3>2, SeedStep
    <3> QED
      BY <3>3 DEF h
  <2> HIDE DEF as, l
  <2>3. /\ p \in DetRecord
        /\ p.primed /\ p.sta = as /\ p.lta = l
        /\ p.in_event = d.in_event /\ p.peak = d.peak /\ p.warmup = d.warmup
    BY <2>1, <2>2 DEF DetRecord
  <2>4. Primed(d, a) = p
    BY <1>2 DEF Primed, as, l
  <2> HIDE DEF p
  <2> QED
    BY <2>1, <2>2, <2>3, <2>4 DEF Between
<1> QED
  BY <1>1, <1>2

\* One step of both averages keeps them between the samples.
LEMMA AveragedBounds ==
  ASSUME NEW p \in DetRecord, NEW a \in Nat, NEW lo \in Nat, NEW hi \in Nat,
         lo <= a, a <= hi, Between(p, lo, hi)
  PROVE  LET d == Averaged(p, a)
         IN  /\ d \in DetRecord /\ Between(d, lo, hi)
             /\ d.primed = p.primed /\ d.in_event = p.in_event
             /\ d.peak = p.peak /\ d.warmup = p.warmup
<1> DEFINE as == a * Unit
           s  == Toward(p.sta, as, StaSpan)
           t  == Toward(p.lta, as, LtaSpan)
           l  == IF p.in_event THEN p.lta ELSE Larger(t, Unit)
           d  == [p EXCEPT !.sta = s, !.lta = l]
<1>1. as \in Nat /\ lo * Unit \in Int /\ hi * Unit \in Int
      /\ lo * Unit <= as /\ as <= hi * Unit
  BY ScaledNat, ScaledOrder
<1>2. Unit \in Nat \ {0} /\ StaSpan \in Nat \ {0} /\ LtaSpan \in Nat \ {0}
  BY DetectAssumption
<1>3. /\ p.sta \in Nat /\ p.lta \in Nat /\ p.in_event \in BOOLEAN
      /\ p.sta <= hi * Unit /\ Unit <= p.lta /\ lo * Unit <= p.lta
  BY DEF DetRecord, Between
<1>4. s \in Nat /\ s <= hi * Unit
  <2> DEFINE sta == p.sta
             h   == hi * Unit
  <2>1. sta \in Nat /\ h \in Int /\ sta <= h /\ as \in Nat /\ as <= h
    BY <1>1, <1>3
  <2> HIDE DEF sta, h, as
  <2>2. Toward(sta, as, StaSpan) \in Nat /\ Toward(sta, as, StaSpan) <= h
    BY <1>2, <2>1, ShortStep
  <2> QED
    BY <2>2 DEF sta, h
<1>5. l \in Nat /\ Unit <= l /\ lo * Unit <= l
  <2>1. CASE p.in_event
    BY <1>3, <2>1
  <2>2. CASE ~p.in_event
    <3> DEFINE lta == p.lta
               h   == lo * Unit
    <3>1. lta \in Nat /\ h \in Int /\ h <= lta /\ as \in Nat /\ h <= as /\ Unit \in Nat
      BY <1>1, <1>2, <1>3
    <3> HIDE DEF lta, h, as
    <3>2. LET m == Larger(Toward(lta, as, LtaSpan), Unit)
          IN  m \in Nat /\ Unit <= m /\ h <= m
      BY <1>2, <3>1, LongStep
    <3> QED
      BY <2>2, <3>2 DEF lta, h
  <2> QED
    BY <2>1, <2>2
<1> HIDE DEF s, l, t
<1>6. /\ d \in DetRecord /\ d.sta = s /\ d.lta = l
      /\ d.primed = p.primed /\ d.in_event = p.in_event
      /\ d.peak = p.peak /\ d.warmup = p.warmup
  BY <1>4, <1>5 DEF DetRecord
<1>7. Averaged(p, a) = d
  BY DEF Averaged, as, s, t, l
<1> HIDE DEF d
<1> QED
  BY <1>4, <1>5, <1>6, <1>7 DEF Between
----------------------------------------------------------------------------
\* One push, from the averages on: d is the state nq_detect_push decides on.
LEMMA PushKeeps ==
  ASSUME DetectInv, NEW a \in Nat, Push(a)
  PROVE  DetectInv' /\ (ev'.occurred => /\ det.in_event /\ ~det'.in_event
                                         /\ ev'.peak = crest'
                                         /\ ev'.strong = (crest' >= StrongPeak))
<1> DEFINE lo == Lowest(low, a)
           hi == Larger(high, a)
           cr == IF det.in_event THEN Larger(crest, a) ELSE a
           p  == Primed(det, a)
           d  == Averaged(p, a)
<1>1. /\ low \in Nat \cup {-1} /\ high \in Nat /\ crest \in Nat
      /\ det \in DetRecord
      /\ det.primed = (low # -1)
      /\ det.primed => Between(det, low, high)
      /\ det.in_event => det.primed /\ det.warmup = 0 /\ det.peak = crest
  BY DEF DetectInv, DetectTypeOK, DetRecord, Held
<1>2. /\ low' = lo /\ high' = hi /\ crest' = cr /\ mag' = a
      /\ \/ /\ d.warmup > 0
            /\ det' = [d EXCEPT !.warmup = d.warmup - 1]
            /\ ev' = NoEvent
         \/ /\ d.warmup = 0
            /\ det' = After(d, a)
            /\ ev' = Report(d, a)
  BY DEF Push, Lowest
<1>3. /\ lo \in Nat /\ hi \in Nat /\ lo <= a /\ a <= hi /\ high <= hi
      /\ low \in Nat => lo <= low
  BY <1>1, SampleBounds
<1>4. cr \in Nat
  BY <1>1 DEF Larger
<1> HIDE DEF lo, hi, p, d
<1>5. det.primed => Between(det, lo, hi)
  BY <1>1, <1>3, Widened
<1>6. /\ p \in DetRecord /\ p.primed /\ Between(p, lo, hi)
      /\ p.in_event = det.in_event /\ p.peak = det.peak /\ p.warmup = det.warmup
  BY <1>1, <1>3, <1>5, PrimedBounds DEF p
<1>7. /\ d \in DetRecord /\ Between(d, lo, hi) /\ d.primed
      /\ d.in_event = det.in_event /\ d.peak = det.peak /\ d.warmup = det.warmup
  BY <1>3, <1>6, AveragedBounds DEF d
<1>8. det.in_event => hi > OnRatio * Larger(lo, 1)
  <2>1. det.in_event => low \in Nat /\ high > OnRatio * Larger(low, 1)
    BY <1>1 DEF DetectInv, EventsHaveCause
  <2> QED
    BY <1>1, <1>3, <2>1, CauseStays
<1>9. Triggers(d) => hi > OnRatio * Larger(lo, 1)
  BY <1>3, <1>7, CauseBegins
<1>10. lo # -1
  BY <1>3
<1>11. CASE d.warmup > 0 /\ det' = [d EXCEPT !.warmup = d.warmup - 1] /\ ev' = NoEvent
  <2>1. /\ det' \in DetRecord /\ det'.primed /\ Between(det', lo, hi)
        /\ det'.in_event = d.in_event
    <3> DEFINE w == d.warmup - 1
    <3>1. w \in 0..LtaSpan
      BY <1>7, <1>11, DetectAssumption DEF DetRecord
    <3> HIDE DEF w
    <3>2. det' = [d EXCEPT !.warmup = w]
      BY <1>11 DEF w
    <3> QED
      BY <1>7, <3>1, <3>2 DEF DetRecord, Between
  <2>2. ~det.in_event
    BY <1>1, <1>7, <1>11 DEF DetRecord
  <2>3. ev' \in [occurred : BOOLEAN, peak : Nat, strong : BOOLEAN] /\ ~ev'.occurred
    BY <1>11 DEF NoEvent
  <2>4. ~det'.in_event
    BY <1>7, <2>1, <2>2
  <2>5. DetectTypeOK'
    BY <1>2, <1>3, <1>4, <2>1, <2>3 DEF DetectTypeOK, DetRecord
  <2>6. Held'
    BY <1>2, <1>10, <2>1, <2>4 DEF Held
  <2>7. EventsHaveCause'
    BY <2>4 DEF EventsHaveCause
  <2> QED
    BY <2>3, <2>5, <2>6, <2>7 DEF DetectInv
<1>12. CASE d.warmup = 0 /\ det' = After(d, a) /\ ev' = Report(d, a)
  <2> DEFINE k == Peaked(d, a)
             e == Triggers(d) \/ (d.in_event /\ ~Releases(d))
  <2>1. k \in Nat
    BY <1>7 DEF Peaked, Larger, DetRecord
  <2>2. e \in BOOLEAN
    BY DEF Triggers, Releases
  <2>3. det' = [d EXCEPT !.peak = k, !.in_event = e]
    BY <1>12 DEF After
  <2>4. d.in_event \/ Triggers(d) => k = cr
    BY <1>1, <1>7 DEF Peaked, Triggers
  <2>5. Releases(d) => d.in_event /\ ~e
    BY <1>7 DEF Releases, Triggers
  <2>6. e => d.in_event \/ Triggers(d)
    OBVIOUS
  <2>7. /\ ev' \in [occurred : BOOLEAN, peak : Nat, strong : BOOLEAN]
        /\ ev'.occurred => Releases(d) /\ ev'.peak = k /\ ev'.strong = (k >= StrongPeak)
    BY <1>12, <2>1 DEF Report, NoEvent
  <2> HIDE DEF k, e, cr
  <2>8. /\ det' \in DetRecord /\ det'.primed /\ Between(det', lo, hi)
        /\ det'.in_event = e /\ det'.peak = k /\ det'.warmup = 0
    BY <1>7, <1>12, <2>1, <2>2, <2>3 DEF DetRecord, Between
  <2>9. e => hi > OnRatio * Larger(lo, 1)
    BY <1>7, <1>8, <1>9, <2>6
  <2>10. DetectTypeOK'
    BY <1>2, <1>3, <1>4, <2>7, <2>8 DEF DetectTypeOK, DetRecord
  <2>11. Held'
    BY <1>2, <1>10, <2>4, <2>6, <2>8 DEF Held
  <2>12. EventsHaveCause'
    BY <1>2, <2>8, <2>9 DEF EventsHaveCause
  <2>13. ev'.occurred => /\ det.in_event /\ ~det'.in_event
                         /\ ev'.peak = crest'
                         /\ ev'.strong = (crest' >= StrongPeak)
    BY <1>2, <1>7, <2>4, <2>5, <2>7, <2>8
  <2> QED
    BY <2>10, <2>11, <2>12, <2>13 DEF DetectInv
<1> QED
  BY <1>2, <1>11, <1>12

\* The detector starts in its invariant.
LEMMA DetectStarts == DetectInit => DetectInv
<1> SUFFICES ASSUME DetectInit
             PROVE  DetectInv
  OBVIOUS
<1>1. Unit \in Nat \ {0} /\ LtaSpan \in Nat \ {0}
  BY DetectAssumption
<1>2. /\ det = NqDetectInit /\ ev = NoEvent
      /\ mag = 0 /\ low = -1 /\ high = 0 /\ crest = 0
  BY DEF DetectInit
<1>3. det \in DetRecord /\ ~det.primed /\ ~det.in_event
  BY <1>1, <1>2 DEF NqDetectInit, DetRecord
<1>4. ev \in [occurred : BOOLEAN, peak : Nat, strong : BOOLEAN]
  BY <1>2 DEF NoEvent
<1>5. DetectTypeOK
  BY <1>2, <1>3, <1>4 DEF DetectTypeOK, DetRecord
<1>6. det.primed = (low # -1)
  <2>1. det.primed = FALSE
    BY <1>2 DEF NqDetectInit
  <2> QED
    BY <1>2, <2>1
<1>7. Held
  BY <1>3, <1>6 DEF Held
<1>8. EventsHaveCause
  BY <1>3 DEF EventsHaveCause
<1> QED
  BY <1>5, <1>7, <1>8 DEF DetectInv

\* Every push keeps it.
LEMMA DetectSteps == DetectInv /\ [DetectNext]_dvars => DetectInv'
<1> SUFFICES ASSUME DetectInv, [DetectNext]_dvars
             PROVE  DetectInv'
  OBVIOUS
<1>1. CASE DetectNext
  BY <1>1, PushKeeps DEF DetectNext
<1>2. CASE UNCHANGED dvars
  BY <1>2 DEF dvars, DetectInv, DetectTypeOK, Held, Between, EventsHaveCause
<1> QED
  BY <1>1, <1>2

\* So it holds always.
LEMMA DetectInvariant == DetectSpec => []DetectInv
BY DetectStarts, DetectSteps, PTL DEF DetectSpec

(* The averages and the counters of the detector stay numbers of their kind *)
(* whatever it is fed: neither average ever turns negative, although both   *)
(* move by differences that may be (nq_detect.c:20-24).                     *)
THEOREM DetectTypes == DetectSpec => []DetectTypeOK
<1>1. DetectInv => DetectTypeOK
  BY DEF DetectInv
<1> QED
  BY <1>1, DetectInvariant, PTL

(* An event means a sample of more than OnRatio times the smallest one, for *)
(* every signal (nq_detect.c:27-31).  At rest the smallest one is gravity.  *)
THEOREM CauseTheorem == DetectSpec => []EventsHaveCause
<1>1. DetectInv => EventsHaveCause
  BY DEF DetectInv
<1> QED
  BY <1>1, DetectInvariant, PTL

(* Every report carries the largest sample of the event it ends, and of no  *)
(* other (nq_detect.c:30, 33-38).                                           *)
THEOREM PeakTheorem == DetectSpec => PeakIsOfThisEvent
<1>1. DetectInv /\ [DetectNext]_dvars
        => [ev'.occurred => /\ det.in_event /\ ~det'.in_event
                            /\ ev'.peak = crest'
                            /\ ev'.strong = (crest' >= StrongPeak)]_dvars
  BY PushKeeps DEF DetectNext
<1> QED
  BY <1>1, DetectInvariant, PTL DEF DetectSpec, PeakIsOfThisEvent
----------------------------------------------------------------------------
(* The bytes of a sample.                                                   *)

IsFlatten(f, seqs) == f = [i \in 1..Len(seqs) |-> IF i = 1 THEN seqs[i] ELSE f[i - 1] \o seqs[i]]

\* If a recursion of that shape exists at all, FlattenSeq is one.
LEMMA FlattenIs ==
  ASSUME NEW seqs, Len(seqs) # 0, NEW f, IsFlatten(f, seqs)
  PROVE  \E g : IsFlatten(g, seqs) /\ FlattenSeq(seqs) = g[Len(seqs)]
<1> DEFINE g == CHOOSE h : IsFlatten(h, seqs)
<1>1. IsFlatten(g, seqs) BY Zenon
<1>2. FlattenSeq(seqs) = g[Len(seqs)] BY Zenon DEF FlattenSeq, IsFlatten
<1> QED BY <1>1, <1>2, Zenon

\* One sequence is flat, and three are put behind one another.
LEMMA FlattenOne == ASSUME NEW s, Len(s) = 1 PROVE FlattenSeq(s) = s[1]
<1> DEFINE f == [i \in 1..1 |-> s[1]]
<1>2. f = [i \in 1..Len(s) |-> IF i = 1 THEN s[i] ELSE f[i - 1] \o s[i]]
  <2>1. \A i \in 1..1 : f[i] = IF i = 1 THEN s[i] ELSE f[i - 1] \o s[i]
    <3>1. \A i \in 1..1 : i = 1 BY SMT
    <3> QED BY <3>1, Zenon
  <2>2. f = [i \in 1..1 |-> f[i]] BY Zenon
  <2> HIDE DEF f
  <2> QED BY <2>1, <2>2, Zenon
<1>3. IsFlatten(f, s) BY <1>2, Zenon DEF IsFlatten
<1> HIDE DEF f
<1>4. PICK g : IsFlatten(g, s) /\ FlattenSeq(s) = g[Len(s)]
  <2>1. Len(s) # 0 BY SMT
  <2> QED BY <1>3, <2>1, FlattenIs, Zenon
<1>5. g[1] = s[1]
  <2>1. 1 \in 1..Len(s) BY SMT
  <2> QED BY <1>4, <2>1, Zenon DEF IsFlatten
<1> QED BY <1>4, <1>5, Zenon

\* Three sequences are flattened by joining them.
LEMMA FlattenThree ==
  ASSUME NEW s, Len(s) = 3 PROVE FlattenSeq(s) = (s[1] \o s[2]) \o s[3]
<1> DEFINE f == [i \in 1..3 |-> IF i = 1 THEN s[1]
                               ELSE IF i = 2 THEN s[1] \o s[2] ELSE (s[1] \o s[2]) \o s[3]]
<1>2. f = [i \in 1..Len(s) |-> IF i = 1 THEN s[i] ELSE f[i - 1] \o s[i]]
  <2>1. \A i \in 1..3 : f[i] = IF i = 1 THEN s[i] ELSE f[i - 1] \o s[i]
    <3> TAKE i \in 1..3
    <3>1. CASE i = 1 BY <3>1, Zenon
    <3>2. CASE i = 2
      <4>1. i - 1 = 1 /\ 1 \in 1..3 /\ 2 # 1 BY <3>2, SMT
      <4>2. f[1] = s[1] BY <4>1, Zenon
      <4>3. f[i] = s[1] \o s[2] BY <3>2, <4>1, Zenon
      <4> QED BY <3>2, <4>1, <4>2, <4>3, Zenon
    <3>3. CASE i = 3
      <4>1. i - 1 = 2 /\ 2 \in 1..3 /\ 2 # 1 /\ 3 # 2 /\ 3 # 1 BY <3>3, SMT
      <4>2. f[2] = s[1] \o s[2] BY <4>1, Zenon
      <4>3. f[i] = (s[1] \o s[2]) \o s[3] BY <3>3, <4>1, Zenon
      <4> QED BY <3>3, <4>1, <4>2, <4>3, Zenon
    <3> QED BY <3>1, <3>2, <3>3, SMT
  <2>2. f = [i \in 1..3 |-> f[i]] BY Zenon
  <2> HIDE DEF f
  <2> QED BY <2>1, <2>2, Zenon
<1>3. IsFlatten(f, s) BY <1>2, Zenon DEF IsFlatten
<1> HIDE DEF f
<1>4. PICK g : IsFlatten(g, s) /\ FlattenSeq(s) = g[Len(s)]
  <2>1. Len(s) # 0 BY SMT
  <2> QED BY <1>3, <2>1, FlattenIs, Zenon
<1>5. \A i \in 1..3 : g[i] = IF i = 1 THEN s[i] ELSE g[i - 1] \o s[i] BY <1>4, Zenon DEF IsFlatten
<1>6. g[1] = s[1] /\ g[2] = g[1] \o s[2] /\ g[3] = g[2] \o s[3]
  <2>1. 1 \in 1..3 /\ 2 \in 1..3 /\ 3 \in 1..3 /\ 2 # 1 /\ 3 # 1 /\ 2 - 1 = 1 /\ 3 - 1 = 2 BY SMT
  <2> QED BY <1>5, <2>1, Zenon
<1> QED BY <1>4, <1>6, Zenon

\* What Need makes of the fields that are left.
IsNeed(f, fields) ==
  f = [s \in SUBSET DOMAIN fields |->
         IF s = {} THEN 0
         ELSE f[s \ {CHOOSE x \in s : TRUE}] + 3 * fields[CHOOSE x \in s : TRUE].bytes_per_axis]

\* The same for the room that fields need.
LEMMA NeedIs ==
  ASSUME NEW fields, NEW f, IsNeed(f, fields)
  PROVE  \E g : IsNeed(g, fields) /\ Need(fields) = g[DOMAIN fields]
<1> DEFINE g == CHOOSE h : IsNeed(h, fields)
<1>1. IsNeed(g, fields) BY Zenon
<1>2. Need(fields) = g[DOMAIN fields]
  BY Zenon DEF Need, FoldFunction, FoldFunctionOnSet, MapThenFoldSet, IsNeed
<1> QED BY <1>1, <1>2, Zenon

\* One field needs three times its bytes per axis.
LEMMA NeedOne ==
  ASSUME NEW F, F.bytes_per_axis \in Nat PROVE Need(<<F>>) = 3 * F.bytes_per_axis
<1> DEFINE fields == <<F>>
           n == 3 * F.bytes_per_axis
           f == [s \in SUBSET {1} |-> IF s = {} THEN 0 ELSE 0 + n]
<1>1. DOMAIN fields = {1} /\ fields[1] = F
  <2>1. DOMAIN fields = 1..1 /\ fields[1] = F BY SMT
  <2>2. 1..1 = {1} BY SMT
  <2> QED BY <2>1, <2>2, Zenon
<1> HIDE DEF fields
<1>2. \A s \in SUBSET {1} : s # {} => s = {1} BY Zenon
<1>3. (CHOOSE x \in {1} : TRUE) = 1 BY Zenon
<1>4. IsNeed(f, fields)
  <2>1. \A s \in SUBSET {1} :
          f[s] = IF s = {} THEN 0
                 ELSE f[s \ {CHOOSE x \in s : TRUE}] + 3 * fields[CHOOSE x \in s : TRUE].bytes_per_axis
    <3> TAKE s \in SUBSET {1}
    <3>1. CASE s = {} BY <3>1, Zenon
    <3>2. CASE s # {}
      <4>1. s = {1} BY <1>2, <3>2, Zenon
      <4>2. s \ {CHOOSE x \in s : TRUE} = {} /\ fields[CHOOSE x \in s : TRUE] = F
        BY <1>1, <1>3, <4>1, Zenon
      <4>3. f[{}] = 0 BY Zenon
      <4>4. f[s] = 0 + n BY <3>2, Zenon
      <4> QED BY <3>2, <4>2, <4>3, <4>4, Zenon
    <3> QED BY <3>1, <3>2, Zenon
  <2>2. f = [s \in SUBSET {1} |-> f[s]] BY Zenon
  <2> HIDE DEF f
  <2> QED BY <1>1, <2>1, <2>2, Zenon DEF IsNeed
<1> HIDE DEF f
<1>5. PICK g : IsNeed(g, fields) /\ Need(fields) = g[DOMAIN fields] BY <1>4, NeedIs, Zenon
<1>6. g[{}] = 0
  <2>1. {} \in SUBSET DOMAIN fields BY Zenon
  <2> QED BY <1>5, <2>1, Zenon DEF IsNeed
<1>7. g[{1}] = 0 + n
  <2>1. {1} \in SUBSET DOMAIN fields /\ {1} # {} BY <1>1, Zenon
  <2>2. {1} \ {CHOOSE x \in {1} : TRUE} = {} /\ fields[CHOOSE x \in {1} : TRUE] = F BY <1>1, <1>3, Zenon
  <2>3. g[{1}] = g[{1} \ {CHOOSE x \in {1} : TRUE}] + 3 * fields[CHOOSE x \in {1} : TRUE].bytes_per_axis
    BY <1>5, <2>1, Zenon DEF IsNeed
  <2> QED BY <1>6, <2>2, <2>3, Zenon
<1>8. 0 + n = n BY SMT
<1>9. Need(fields) = n BY <1>1, <1>5, <1>7, <1>8, Zenon
<1> QED BY <1>9, Zenon DEF fields, n

\* The powers of two a field is made with.
Sizes == {2, 4, 8, 16, 32, 64, 128, 256}

\* The powers of two that a field is made of.
LEMMA ByteRange ==
  /\ 2 ^ ByteBits \in Sizes
  /\ 2 ^ (ByteBits * (2 - 1)) = 2 ^ ByteBits
  /\ 2 ^ (ByteBits * (2 - 2)) = 1
  /\ 2 * 2 ^ (ByteBits * 2 - 1) = 2 ^ ByteBits * 2 ^ ByteBits
  /\ 2 ^ (2 * ByteBits) = 2 ^ ByteBits * 2 ^ ByteBits
<1>1. \/ ByteBits = 1 \/ ByteBits = 2 \/ ByteBits = 3 \/ ByteBits = 4
      \/ ByteBits = 5 \/ ByteBits = 6 \/ ByteBits = 7 \/ ByteBits = 8
  BY ByteAssumption, SMT
<1>2. CASE ByteBits = 1 BY <1>2, SMT DEF Sizes
<1>3. CASE ByteBits = 2 BY <1>3, SMT DEF Sizes
<1>4. CASE ByteBits = 3 BY <1>4, SMT DEF Sizes
<1>5. CASE ByteBits = 4 BY <1>5, SMT DEF Sizes
<1>6. CASE ByteBits = 5 BY <1>6, SMT DEF Sizes
<1>7. CASE ByteBits = 6 BY <1>7, SMT DEF Sizes
<1>8. CASE ByteBits = 7 BY <1>8, SMT DEF Sizes
<1>9. CASE ByteBits = 8 BY <1>9, SMT DEF Sizes
<1> QED BY <1>1, <1>2, <1>3, <1>4, <1>5, <1>6, <1>7, <1>8, <1>9, Zenon

\* Two bytes hold a number between the ends of the range, and give it back.
Word(v, M)      == ((v \div M) % M) * M + ((v \div 1) % M)
Signed(u, M, H) == IF u > H - 1 THEN u - M * M ELSE u

\* For every size of a byte.
LEMMA TwoBytes ==
  ASSUME NEW M \in Sizes, NEW H \in Int, 2 * H = M * M,
         NEW v \in Int, -H <= v, v <= H - 1
  PROVE  Signed(Word(v, M), M, H) = v
<1>1. \/ M = 2 \/ M = 4 \/ M = 8 \/ M = 16 \/ M = 32 \/ M = 64 \/ M = 128 \/ M = 256 BY SMT DEF Sizes
<1>2. CASE M = 2 BY <1>2, SMT DEF Word, Signed
<1>3. CASE M = 4 BY <1>3, SMT DEF Word, Signed
<1>4. CASE M = 8 BY <1>4, SMT DEF Word, Signed
<1>5. CASE M = 16 BY <1>5, SMT DEF Word, Signed
<1>6. CASE M = 32 BY <1>6, SMT DEF Word, Signed
<1>7. CASE M = 64 BY <1>7, SMT DEF Word, Signed
<1>8. CASE M = 128 BY <1>8, SMT DEF Word, Signed
<1>9. CASE M = 256 BY <1>9, SMT DEF Word, Signed
<1> QED BY <1>1, <1>2, <1>3, <1>4, <1>5, <1>6, <1>7, <1>8, <1>9, Zenon

\* A step of the sensor, in its own counts, is some number of them.
LEMMA PowerOfDrop == 2 ^ Drop \in Nat \ {0}
<1>0. Drop \in Int /\ 0 <= Drop /\ Drop <= 31 BY TriggerAssumption, SMT
<1>1. CASE Drop = 0 BY <1>1, SMT
<1>2. CASE Drop = 1 BY <1>2, SMT
<1>3. CASE Drop = 2 BY <1>3, SMT
<1>4. CASE Drop = 3 BY <1>4, SMT
<1>5. CASE Drop = 4 BY <1>5, SMT
<1>6. CASE Drop = 5 BY <1>6, SMT
<1>7. CASE Drop = 6 BY <1>7, SMT
<1>8. CASE Drop = 7 BY <1>8, SMT
<1>9. CASE Drop = 8 BY <1>9, SMT
<1>10. CASE Drop = 9 BY <1>10, SMT
<1>11. CASE Drop = 10 BY <1>11, SMT
<1>12. CASE Drop = 11 BY <1>12, SMT
<1>13. CASE Drop = 12 BY <1>13, SMT
<1>14. CASE Drop = 13 BY <1>14, SMT
<1>15. CASE Drop = 14 BY <1>15, SMT
<1>16. CASE Drop = 15 BY <1>16, SMT
<1>17. CASE Drop = 16 BY <1>17, SMT
<1>18. CASE Drop = 17 BY <1>18, SMT
<1>19. CASE Drop = 18 BY <1>19, SMT
<1>20. CASE Drop = 19 BY <1>20, SMT
<1>21. CASE Drop = 20 BY <1>21, SMT
<1>22. CASE Drop = 21 BY <1>22, SMT
<1>23. CASE Drop = 22 BY <1>23, SMT
<1>24. CASE Drop = 23 BY <1>24, SMT
<1>25. CASE Drop = 24 BY <1>25, SMT
<1>26. CASE Drop = 25 BY <1>26, SMT
<1>27. CASE Drop = 26 BY <1>27, SMT
<1>28. CASE Drop = 27 BY <1>28, SMT
<1>29. CASE Drop = 28 BY <1>29, SMT
<1>30. CASE Drop = 29 BY <1>30, SMT
<1>31. CASE Drop = 30 BY <1>31, SMT
<1>32. CASE Drop = 31 BY <1>32, SMT
<1> QED
  <2>1. \A d \in Int : 0 <= d /\ d <= 7 =>
          d = 0 \/ d = 1 \/ d = 2 \/ d = 3 \/ d = 4 \/ d = 5 \/ d = 6 \/ d = 7
    BY SMT
  <2>2. \A d \in Int : 8 <= d /\ d <= 15 =>
          d = 8 \/ d = 9 \/ d = 10 \/ d = 11 \/ d = 12 \/ d = 13 \/ d = 14 \/ d = 15
    BY SMT
  <2>3. \A d \in Int : 16 <= d /\ d <= 23 =>
          d = 16 \/ d = 17 \/ d = 18 \/ d = 19 \/ d = 20 \/ d = 21 \/ d = 22 \/ d = 23
    BY SMT
  <2>4. \A d \in Int : 24 <= d /\ d <= 31 =>
          d = 24 \/ d = 25 \/ d = 26 \/ d = 27 \/ d = 28 \/ d = 29 \/ d = 30 \/ d = 31
    BY SMT
  <2>5. Drop <= 7 \/ (8 <= Drop /\ Drop <= 15) \/ (16 <= Drop /\ Drop <= 23) \/ 24 <= Drop BY <1>0, SMT
  <2>6. CASE Drop <= 7
    BY <1>0, <2>1, <2>6, <1>1, <1>2, <1>3, <1>4, <1>5, <1>6, <1>7, <1>8, Zenon
  <2>7. CASE 8 <= Drop /\ Drop <= 15
    BY <1>0, <2>2, <2>7, <1>9, <1>10, <1>11, <1>12, <1>13, <1>14, <1>15, <1>16, Zenon
  <2>8. CASE 16 <= Drop /\ Drop <= 23
    BY <1>0, <2>3, <2>8, <1>17, <1>18, <1>19, <1>20, <1>21, <1>22, <1>23, <1>24, Zenon
  <2>9. CASE 24 <= Drop
    BY <1>0, <2>4, <2>9, <1>25, <1>26, <1>27, <1>28, <1>29, <1>30, <1>31, <1>32, Zenon
  <2> QED BY <2>5, <2>6, <2>7, <2>8, <2>9, Zenon

\* An axis as it is sent.
Sent(v) == Saturate(Quotient(v, 2 ^ Drop), 2)

\* The ends of a field of two bytes, from the half H of its range.
LEMMA Ends ==
  \E H \in Nat : /\ 2 * H = 2 ^ ByteBits * 2 ^ ByteBits /\ H > 0
                 /\ Top(2) = H - 1 /\ Bottom(2) = -H
                 /\ 2 ^ (2 * ByteBits) = 2 ^ ByteBits * 2 ^ ByteBits
<1> DEFINE H == 2 ^ (ByteBits * 2 - 1)
           M == 2 ^ ByteBits
<1>1. 2 * H = M * M /\ 2 ^ (2 * ByteBits) = M * M /\ M \in Sizes
  BY ByteRange, Zenon
<1>2. H \in Int BY ByteAssumption, SMT
<1>3. Top(2) = H - 1 /\ Bottom(2) = -(H - 1) - 1 BY Zenon DEF Top, Bottom
<1> HIDE DEF H, M
<1>4. H \in Nat /\ H > 0 /\ -(H - 1) - 1 = -H
  <2>1. M > 0 /\ M * M > 0 BY <1>1, SMT DEF Sizes
  <2> QED BY <1>1, <1>2, <2>1, SMT
<1>5. 2 * H = M * M /\ H > 0 /\ Top(2) = H - 1 /\ Bottom(2) = -H /\ 2 ^ (2 * ByteBits) = M * M
  BY <1>1, <1>3, <1>4, Zenon
<1> QED BY <1>4, <1>5, Zenon DEF M

\* C division is division of the magnitude, with the sign put back.
LEMMA QuotientType ==
  ASSUME NEW v \in Int, NEW d \in Nat \ {0}
  PROVE  Quotient(v, d) \in Int /\ Abs(v) \in Nat /\ Abs(v) \div d \in Nat
         /\ Quotient(v, d) = IF v < 0 THEN -(Abs(v) \div d) ELSE Abs(v) \div d
<1>1. Abs(v) \in Nat BY SMT DEF Abs
<1>2. \A a \in Nat : a \div d \in Nat
  <2>1. \A a \in Int : a \div d \in Int BY SMT
  <2>2. \A a \in Nat : a \div d >= 0
    <3> SUFFICES ASSUME NEW a \in Nat PROVE a \div d >= 0 BY Zenon
    <3> DEFINE q == a \div d
               r == a % d
    <3>1. q \in Int /\ r \in 0..(d - 1) /\ a = d * q + r BY SMT
    <3> HIDE DEF q, r
    <3>2. q < 0 => d * q <= -d BY <3>1, SMT
    <3>3. q >= 0 BY <3>1, <3>2, SMT
    <3> QED BY <3>3 DEF q
  <2> QED BY <2>1, <2>2, SMT
<1>3. Quotient(v, d) = IF v < 0 THEN -(Abs(v) \div d) ELSE Abs(v) \div d BY SMT DEF Quotient, Abs
<1> QED BY <1>1, <1>2, <1>3, SMT

\* What is sent of an axis fits two bytes.
LEMMA SentType ==
  ASSUME NEW v \in Int PROVE Sent(v) \in Int /\ Bottom(2) <= Sent(v) /\ Sent(v) <= Top(2)
<1>1. PICK H \in Nat : H > 0 /\ Top(2) = H - 1 /\ Bottom(2) = -H BY Ends, Zenon
<1>2. Quotient(v, 2 ^ Drop) \in Int BY PowerOfDrop, QuotientType, Zenon
<1> QED BY <1>1, <1>2, SMT DEF Sent, Saturate

\* A function on the first numbers is a sequence of their length.
LEMMA FunctionIsSeq ==
  ASSUME NEW S, NEW n \in Nat, NEW e \in [1..n -> S] PROVE e \in Seq(S) /\ Len(e) = n
<1>1. e \in Seq(S) BY SeqDef, Zenon
<1>2. Len(e) \in Nat /\ DOMAIN e = 1..Len(e) BY <1>1, LenProperties, Zenon
<1>3. 1..Len(e) = 1..n BY <1>2, Zenon
<1>4. ASSUME NEW k \in Nat, NEW l \in Nat, 1..k = 1..l PROVE k <= l
  <2>1. k = 0 => k <= l BY SMT
  <2>2. k # 0 => k \in 1..k BY SMT
  <2>3. k \in 1..l => k <= l BY SMT
  <2> QED BY <1>4, <2>1, <2>2, <2>3, Zenon
<1>5. Len(e) <= n BY <1>2, <1>3, <1>4, Zenon
<1>6. n <= Len(e) BY <1>2, <1>3, <1>4, Zenon
<1> QED BY <1>1, <1>2, <1>5, <1>6, SMT

\* The two bytes of an axis.
LEMMA AxisBytes ==
  ASSUME NEW v \in Int
  PROVE  LET M == 2 ^ ByteBits
             e == BigEndian(v, 2)
         IN  /\ e \in Seq(Int) /\ Len(e) = 2
             /\ e[1] = (v \div M) % M /\ e[2] = (v \div 1) % M
<1> DEFINE M == 2 ^ ByteBits
           e == BigEndian(v, 2)
           f(b) == (v \div 2 ^ (ByteBits * (2 - b))) % M
<1>1. M \in Nat \ {0}
  <2>1. \A k \in Sizes : k \in Nat \ {0} BY SMT DEF Sizes
  <2> QED BY <2>1, ByteRange, Zenon
<1>2. e = [b \in 1..2 |-> f(b)] BY Zenon DEF BigEndian
<1>3. f(1) = (v \div M) % M /\ f(2) = (v \div 1) % M BY ByteRange, Zenon
<1> HIDE DEF M
<1>4. (v \div M) % M \in Int /\ (v \div 1) % M \in Int BY <1>1, SMT
<1>5. e[1] = f(1) /\ e[2] = f(2) /\ e = [b \in 1..2 |-> e[b]]
  <2>1. 1 \in 1..2 /\ 2 \in 1..2 BY SMT
  <2> QED BY <1>2, <2>1, Zenon
<1> HIDE DEF f, e
<1>6. e[1] \in Int /\ e[2] \in Int BY <1>3, <1>4, <1>5, Zenon
<1>7. e \in Seq(Int) /\ Len(e) = 2
  <2>1. \A b \in 1..2 : e[b] \in Int BY <1>6, SMT
  <2>2. e \in [1..2 -> Int] BY <1>5, <2>1, Zenon
  <2>3. 2 \in Nat BY SMT
  <2> QED BY <2>2, <2>3, FunctionIsSeq, Zenon
<1> QED BY <1>3, <1>5, <1>7, Zenon DEF M, e

\* What the master makes of two bytes of a payload.
LEMMA AxisIsRead ==
  ASSUME NEW p, NEW i \in Nat, NEW v \in Int, p[i] = BigEndian(Sent(v), 2)[1],
         p[i + 1] = BigEndian(Sent(v), 2)[2]
  PROVE  Int16(p, i) = Sent(v)
<1> DEFINE M == 2 ^ ByteBits
           x == Sent(v)
<1>1. x \in Int /\ Bottom(2) <= x /\ x <= Top(2) BY SentType, Zenon
<1>2. p[i] = (x \div M) % M /\ p[i + 1] = (x \div 1) % M BY <1>1, AxisBytes, Zenon
<1>3. PICK H \in Nat : /\ 2 * H = M * M /\ H > 0 /\ Top(2) = H - 1 /\ Bottom(2) = -H
                       /\ 2 ^ (2 * ByteBits) = M * M
  BY Ends, Zenon
<1>4. M \in Sizes BY ByteRange, Zenon
<1> HIDE DEF M, x
<1>5. Signed(Word(x, M), M, H) = x
  <2>1. H \in Int /\ -H <= x /\ x <= H - 1 BY <1>1, <1>3, SMT
  <2> QED BY <1>1, <1>3, <1>4, <2>1, TwoBytes, Zenon
<1>6. Int16(p, i) = IF Word(x, M) > Top(2) THEN Word(x, M) - 2 ^ (2 * ByteBits) ELSE Word(x, M)
  BY <1>2, Zenon DEF Int16, M, Word
<1>7. Int16(p, i) = Signed(Word(x, M), M, H) BY <1>3, <1>6, Zenon DEF Signed
<1> QED BY <1>5, <1>7, Zenon DEF x

\* The payload is the bytes of the three axes; there is always room for six.
LEMMA PackedBytes ==
  ASSUME NEW m \in [1..3 -> Int]
  PROVE  Pack(<<Field(m, Drop, 2)>>, Cap) =
           (BigEndian(Sent(m[1]), 2) \o BigEndian(Sent(m[2]), 2)) \o BigEndian(Sent(m[3]), 2)
<1> DEFINE F == Field(m, Drop, 2)
           fields == <<F>>
           s == [i \in 1..3 |-> BigEndian(Saturate(Quotient(F.axis[i], 2 ^ F.drop_bits), F.bytes_per_axis),
                                         F.bytes_per_axis)]
<1>1. F.axis = m /\ F.drop_bits = Drop /\ F.bytes_per_axis = 2 BY Zenon DEF Field
<1> HIDE DEF F
<1>2. DOMAIN fields = 1..1 /\ fields[1] = F BY SMT
<1>3. Need(fields) = 6
  <2>1. F.bytes_per_axis \in Nat /\ 3 * F.bytes_per_axis = 6 BY <1>1, SMT
  <2> QED BY <2>1, NeedOne, Zenon
<1> HIDE DEF fields
<1>4. \A i \in DOMAIN fields : Acceptable(fields[i])
  <2>1. Acceptable(F) BY <1>1, TriggerAssumption, SMT DEF Acceptable
  <2>2. \A i \in 1..1 : i = 1 BY SMT
  <2> QED BY <1>2, <2>1, <2>2, Zenon
<1>5. Need(fields) <= Cap BY <1>3, TriggerAssumption, SMT
<1> DEFINE t == [i \in DOMAIN fields |-> PackField(fields[i])]
<1>6. Pack(fields, Cap) = FlattenSeq(t) BY <1>4, <1>5, Zenon DEF Pack
<1>7. Len(t) = 1 /\ t[1] = PackField(F)
  <2>1. t = [i \in 1..1 |-> PackField(fields[i])] BY <1>2, Zenon
  <2>2. t[1] = PackField(F)
    <3>1. 1 \in 1..1 BY SMT
    <3> QED BY <1>2, <2>1, <3>1, Zenon
  <2> HIDE DEF t
  <2>3. Len(t) = 1 BY <2>1, SMT
  <2> QED BY <2>2, <2>3
<1> HIDE DEF t
<1>8. FlattenSeq(t) = PackField(F) BY <1>7, FlattenOne, Zenon
<1>9. PackField(F) = FlattenSeq(s) BY Zenon DEF PackField
<1>10. s[1] = BigEndian(Sent(m[1]), 2) /\ s[2] = BigEndian(Sent(m[2]), 2) /\ s[3] = BigEndian(Sent(m[3]), 2)
  <2>1. 1 \in 1..3 /\ 2 \in 1..3 /\ 3 \in 1..3 BY SMT
  <2> QED BY <1>1, <2>1, Zenon DEF Sent
<1>11. Len(s) = 3 BY SMT
<1> HIDE DEF s
<1>12. FlattenSeq(s) = (s[1] \o s[2]) \o s[3] BY <1>11, FlattenThree, Zenon
<1> QED BY <1>6, <1>8, <1>9, <1>10, <1>12, Zenon DEF fields, F

\* Three pairs in a row and one byte more.
Pair(a) == a \in Seq(Int) /\ Len(a) = 2
Six(p, a, b, c) ==
  /\ Len(p) = 7
  /\ p[1] = a[1] /\ p[2] = a[2] /\ p[3] = b[1] /\ p[4] = b[2] /\ p[5] = c[1] /\ p[6] = c[2]

\* Three pairs and one more byte make a payload that holds the pairs in order.
LEMMA ThreePairs ==
  ASSUME NEW a, NEW b, NEW c, Pair(a), Pair(b), Pair(c), NEW z \in Int
  PROVE  Six(Append((a \o b) \o c, z), a, b, c)
<1>0. /\ a \in Seq(Int) /\ b \in Seq(Int) /\ c \in Seq(Int)
      /\ Len(a) = 2 /\ Len(b) = 2 /\ Len(c) = 2
  BY Zenon DEF Pair
<1> DEFINE d == a \o b
           e == d \o c
           p == Append(e, z)
<1>1. /\ d \in Seq(Int) /\ Len(d) = Len(a) + Len(b)
      /\ \A i \in 1..Len(a) + Len(b) : d[i] = IF i <= Len(a) THEN a[i] ELSE b[i - Len(a)]
  BY <1>0, ConcatProperties, Zenon
<1> HIDE DEF d
<1>2. /\ e \in Seq(Int) /\ Len(e) = Len(d) + Len(c)
      /\ \A i \in 1..Len(d) + Len(c) : e[i] = IF i <= Len(d) THEN d[i] ELSE c[i - Len(d)]
  <2>1. d \in Seq(Int) BY <1>1, Zenon
  <2> QED BY <1>0, <2>1, ConcatProperties, Zenon
<1> HIDE DEF e
<1>3. Len(d) = 4 /\ d[1] = a[1] /\ d[2] = a[2] /\ d[3] = b[1] /\ d[4] = b[2] BY <1>0, <1>1, SMT
<1>4. /\ Len(e) = 6 /\ e[1] = d[1] /\ e[2] = d[2] /\ e[3] = d[3] /\ e[4] = d[4]
      /\ e[5] = c[1] /\ e[6] = c[2]
  BY <1>0, <1>2, <1>3, SMT
<1>5. Len(p) = 7 /\ \A i \in 1..6 : p[i] = e[i]
  <2>1. e \in Seq(Int) BY <1>2, Zenon
  <2>2. Len(p) = Len(e) + 1 /\ \A i \in 1..Len(e) : p[i] = e[i] BY <2>1, SMT
  <2> QED BY <1>4, <2>2, SMT
<1>6. p[1] = e[1] /\ p[2] = e[2] /\ p[3] = e[3] /\ p[4] = e[4] /\ p[5] = e[5] /\ p[6] = e[6]
  BY <1>5, SMT
<1> HIDE DEF p
<1>7. /\ Len(p) = 7
      /\ p[1] = a[1] /\ p[2] = a[2] /\ p[3] = b[1] /\ p[4] = b[2] /\ p[5] = c[1] /\ p[6] = c[2]
  BY <1>3, <1>4, <1>5, <1>6, SMT
<1> QED BY <1>7, Zenon DEF Six, p, e, d

\* The master reads what was sent.
LEMMA PayloadIsRead ==
  ASSUME NEW m \in [1..3 -> Int]
  PROVE  SeismicMag(Payload(m)) = Abs(Sent(m[1])) + Abs(Sent(m[2])) + Abs(Sent(m[3]))
<1> DEFINE a1 == BigEndian(Sent(m[1]), 2)
           a2 == BigEndian(Sent(m[2]), 2)
           a3 == BigEndian(Sent(m[3]), 2)
           p == Append((a1 \o a2) \o a3, 0)
<1>1. m # Absent
  <2>1. 1 \in DOMAIN m BY SMT
  <2> QED BY <2>1, SMT DEF Absent
<1>2. Payload(m) = p BY <1>1, PackedBytes, Zenon DEF Payload
<1>3. m[1] \in Int /\ m[2] \in Int /\ m[3] \in Int BY SMT
<1>4. Sent(m[1]) \in Int /\ Sent(m[2]) \in Int /\ Sent(m[3]) \in Int BY <1>3, SentType, Zenon
<1>5. /\ a1 \in Seq(Int) /\ Len(a1) = 2 /\ a2 \in Seq(Int) /\ Len(a2) = 2
      /\ a3 \in Seq(Int) /\ Len(a3) = 2
  BY <1>4, AxisBytes, Zenon
<1>6. /\ Len(p) = 7
      /\ p[1] = a1[1] /\ p[1 + 1] = a1[2] /\ p[3] = a2[1] /\ p[3 + 1] = a2[2]
      /\ p[5] = a3[1] /\ p[5 + 1] = a3[2]
  <2>1. 0 \in Int /\ 1 + 1 = 2 /\ 3 + 1 = 4 /\ 5 + 1 = 6 BY SMT
  <2> HIDE DEF a1, a2, a3
  <2>2. Pair(a1) /\ Pair(a2) /\ Pair(a3) BY <1>5, Zenon DEF Pair
  <2>3. Six(p, a1, a2, a3) BY <2>1, <2>2, ThreePairs, Zenon
  <2>4. /\ Len(p) = 7 /\ p[1] = a1[1] /\ p[2] = a1[2] /\ p[3] = a2[1] /\ p[4] = a2[2]
        /\ p[5] = a3[1] /\ p[6] = a3[2]
    BY <2>3, Zenon DEF Six
  <2> QED BY <2>1, <2>4, Zenon
<1> HIDE DEF p
<1>7. /\ Int16(p, 1) = Sent(m[1]) /\ Int16(p, 3) = Sent(m[2]) /\ Int16(p, 5) = Sent(m[3])
  <2>1. 1 \in Nat /\ 3 \in Nat /\ 5 \in Nat BY SMT
  <2> QED BY <1>3, <1>6, <2>1, AxisIsRead, Zenon
<1>8. ~ (Len(p) < 6) BY <1>6, SMT
<1> QED BY <1>2, <1>7, <1>8, Zenon DEF SeismicMag

\* What MagnitudeIsMotion means by a magnitude is what the code computes.
LEMMA StepsAreQuotient ==
  ASSUME NEW v \in Int PROVE Steps(v) = Abs(v) \div 2 ^ Drop
<1> DEFINE d == 2 ^ Drop
           a == Abs(v)
           q == a \div d
<1>1. d \in Nat \ {0} /\ a \in Nat /\ q \in Nat BY PowerOfDrop, QuotientType, Zenon
<1> HIDE DEF d, a
<1>2. q \in 0..a /\ q * d <= a /\ a < (q + 1) * d
  <2> DEFINE r == a % d
  <2>1. r \in 0..(d - 1) /\ a = d * q + r BY <1>1, SMT
  <2> HIDE DEF q, r
  <2>2. d * q = q * d /\ (q + 1) * d = q * d + d /\ q * d >= q BY <1>1, SMT
  <2> QED BY <1>1, <2>1, <2>2, SMT
<1> HIDE DEF q
<1>3. ASSUME NEW k \in 0..a, k * d <= a, a < (k + 1) * d PROVE k = q
  <2>1. k < q => (k + 1) * d <= q * d BY <1>1, <1>2, SMT
  <2>2. q < k => (q + 1) * d <= k * d BY <1>1, <1>2, SMT
  <2>3. (k + 1) * d \in Int /\ (q + 1) * d \in Int /\ k * d \in Int /\ q * d \in Int BY <1>1, <1>2, SMT
  <2> QED BY <1>1, <1>2, <1>3, <2>1, <2>2, <2>3, SMT
<1>4. (CHOOSE k \in 0..a : k * d <= a /\ a < (k + 1) * d) = q BY <1>2, <1>3, Zenon
<1> QED BY <1>4, Zenon DEF Steps, a, d, q

\* What is sent of an axis is, without its sign, its reading.
LEMMA SentIsReading == ASSUME NEW v \in Int PROVE Abs(Sent(v)) = Reading(v) /\ Reading(v) \in Nat
<1> DEFINE q == Abs(v) \div 2 ^ Drop
           t == Quotient(v, 2 ^ Drop)
<1>1. Steps(v) = q BY StepsAreQuotient, Zenon
<1>2. q \in Nat /\ t = IF v < 0 THEN -q ELSE q BY PowerOfDrop, QuotientType, Zenon
<1>3. PICK H \in Nat : H > 0 /\ Top(2) = H - 1 /\ Bottom(2) = -H BY Ends, Zenon
<1>4. Sent(v) = IF t > H - 1 THEN H - 1 ELSE IF t < -H THEN -H ELSE t BY <1>3, Zenon DEF Sent, Saturate
<1>5. Reading(v) = Smaller(q, IF v < 0 THEN -(-H) ELSE H - 1) BY <1>1, <1>3, Zenon DEF Reading
<1> HIDE DEF q, t
<1>6. CASE v < 0 BY <1>2, <1>3, <1>4, <1>5, <1>6, SMT DEF Abs, Smaller
<1>7. CASE ~ (v < 0) BY <1>2, <1>3, <1>4, <1>5, <1>7, SMT DEF Abs, Smaller
<1> QED BY <1>6, <1>7

\* The master reads the motion, and stillness when there is none.
LEMMA ReadsMotion ==
  ASSUME NEW m \in Motion
  PROVE  /\ Reads[m] = Reading(m[1]) + Reading(m[2]) + Reading(m[3])
         /\ Reads[m] \in Nat
<1>1. m \in [1..3 -> Int] BY TriggerAssumption, Zenon
<1>2. m[1] \in Int /\ m[2] \in Int /\ m[3] \in Int BY <1>1, SMT
<1>3. Reads[m] = SeismicMag(Payload(m)) BY Zenon DEF Reads
<1>4. SeismicMag(Payload(m)) = Reading(m[1]) + Reading(m[2]) + Reading(m[3])
  BY <1>1, <1>2, PayloadIsRead, SentIsReading, Zenon
<1>5. Reading(m[1]) \in Nat /\ Reading(m[2]) \in Nat /\ Reading(m[3]) \in Nat
  BY <1>2, SentIsReading, Zenon
<1>6. Reading(m[1]) + Reading(m[2]) + Reading(m[3]) \in Nat BY <1>5, SMT
<1> QED BY <1>3, <1>4, <1>6, Zenon

\* What the master reads is a natural number, with or without a sensor.
LEMMA ReadsType == ASSUME NEW m \in Motion \cup {Absent} PROVE Reads[m] \in Nat
<1>1. CASE m \in Motion BY <1>1, ReadsMotion, Zenon
<1>2. CASE m = Absent
  <2>1. Reads[m] = SeismicMag(Payload(m)) BY Zenon DEF Reads
  <2>2. Payload(m) = Append(<<>>, 0) BY <1>2, Zenon DEF Payload
  <2>3. Len(Append(<<>>, 0)) < 6 BY SMT
  <2>4. SeismicMag(Payload(m)) = 0 BY <2>2, <2>3, Zenon DEF SeismicMag
  <2>5. 0 \in Nat BY SMT
  <2> QED BY <2>1, <2>4, <2>5, Zenon
<1> QED BY <1>1, <1>2
----------------------------------------------------------------------------
(* The frame of an event.                                                   *)

Register == SUBSET (0..15)
Byte     == 0..255

Less == {ss \in Nat \X Nat : ss[1] < ss[2]}

\* Every set of numbers has a least one: the way to argue by induction here.
LEMMA LeastNatural ==
  ASSUME NEW T, T \subseteq Nat, T # {}
  PROVE  \E m \in T : \A n \in T : m <= n
<1>1. IsWellFoundedOn(Less, Nat)
  BY NatLessThanWellFounded DEF OpToRel, Less
<1>2. PICK m \in T : \A n \in T : ~ (<<n, m>> \in Less)
  BY <1>1, WFMin
<1>3. ASSUME NEW n \in T PROVE m <= n
  <2>1. n \in Nat /\ m \in Nat /\ <<n, m>> \notin Less
    BY <1>2
  <2>2. ~ (n < m)
    BY <2>1 DEF Less
  <2> QED
    BY <2>1, <2>2
<1> QED
  BY <1>3

\* f[k][c] is what k rounds make of c, for k up to m.
IsRounds(f, m) ==
  f = [k \in 0..m |-> [crc \in SUBSET (0..15) |-> IF k = 0 THEN crc ELSE f[k - 1][Shifted(crc)]]]

\* A shifted register is a register.
LEMMA ShiftedType == ASSUME NEW c PROVE Shifted(c) \in Register
BY DEF Shifted, Register

\* The rounds exist, so Rounds is them.
LEMMA RoundsStep ==
  ASSUME NEW m \in Nat \ {0}, NEW f, IsRounds(f, m - 1)
  PROVE  \E g : IsRounds(g, m)
<1> DEFINE g == [k \in 0..m |-> [crc \in SUBSET (0..15) |->
                   IF k = 0 THEN crc ELSE f[k - 1][Shifted(crc)]]]
<1>1. ASSUME NEW k \in 0..m, k # 0 PROVE g[k - 1] = f[k - 1]
  <2>1. k - 1 \in 0..(m - 1) /\ k - 1 \in 0..m BY <1>1
  <2>2. f[k - 1] = [crc \in SUBSET (0..15) |->
                      IF k - 1 = 0 THEN crc ELSE f[k - 1 - 1][Shifted(crc)]]
    BY <2>1, Zenon DEF IsRounds
  <2>3. g[k - 1] = [crc \in SUBSET (0..15) |->
                      IF k - 1 = 0 THEN crc ELSE f[k - 1 - 1][Shifted(crc)]]
    BY <2>1, Zenon
  <2> QED BY <2>2, <2>3, Zenon
<1>2. g = [k \in 0..m |-> [crc \in SUBSET (0..15) |->
             IF k = 0 THEN crc ELSE g[k - 1][Shifted(crc)]]]
  <2> HIDE DEF g
  <2>1. \A k \in 0..m : g[k] = [crc \in SUBSET (0..15) |->
                                  IF k = 0 THEN crc ELSE g[k - 1][Shifted(crc)]]
    <3> TAKE k \in 0..m
    <3>1. g[k] = [crc \in SUBSET (0..15) |-> IF k = 0 THEN crc ELSE f[k - 1][Shifted(crc)]]
      BY Zenon DEF g
    <3>2. CASE k = 0 BY <3>1, <3>2, Zenon
    <3>3. CASE k # 0 BY <1>1, <3>1, <3>3, Zenon
    <3> QED BY <3>2, <3>3, Zenon
  <2>2. g = [k \in 0..m |-> g[k]] BY Zenon DEF g
  <2> QED BY <2>1, <2>2, Zenon
<1> QED BY <1>2, Zenon DEF IsRounds

\* There are rounds of every number: take the least for which there are none.
LEMMA RoundsExist == ASSUME NEW m \in Nat PROVE \E f : IsRounds(f, m)
<1> DEFINE T == {n \in Nat : ~ \E f : IsRounds(f, n)}
<1> SUFFICES ASSUME T # {} PROVE FALSE BY Zenon
<1>1. PICK n \in T : \A k \in T : n <= k
  <2> HIDE DEF T
  <2>1. T \subseteq Nat BY DEF T
  <2> QED BY <2>1, LeastNatural
<1>2. CASE n = 0
  <2> DEFINE f == [k \in 0..0 |-> [crc \in SUBSET (0..15) |-> crc]]
  <2>1. f = [k \in 0..n |-> [crc \in SUBSET (0..15) |->
               IF k = 0 THEN crc ELSE f[k - 1][Shifted(crc)]]]
    BY <1>2
  <2> QED BY <1>1, <2>1, Zenon DEF IsRounds
<1>3. CASE n # 0
  <2>1. n \in Nat \ {0} /\ n - 1 \in Nat /\ n - 1 \notin T BY <1>1, <1>3
  <2>2. PICK f : IsRounds(f, n - 1) BY <2>1, Zenon
  <2>3. \E g : IsRounds(g, n) BY <2>1, <2>2, RoundsStep
  <2> QED BY <1>1, <2>3, Zenon
<1> QED BY <1>2, <1>3

\* No round leaves a register alone, each one shifts it and leaves the rest to do.
LEMMA RoundsDef ==
  ASSUME NEW c \in Register
  PROVE  /\ Rounds[0][c] = c
         /\ \A k \in 1..8 : Rounds[k][c] = Rounds[k - 1][Shifted(c)]
<1>1. PICK f : IsRounds(f, 8) BY RoundsExist
<1>2. IsRounds(Rounds, 8) BY <1>1, Zenon DEF IsRounds, Rounds
<1>3. ASSUME NEW k \in 0..8
      PROVE  Rounds[k][c] = IF k = 0 THEN c ELSE Rounds[k - 1][Shifted(c)]
  <2>1. Rounds[k] = [crc \in SUBSET (0..15) |->
                       IF k = 0 THEN crc ELSE Rounds[k - 1][Shifted(crc)]]
    BY <1>2, Zenon DEF IsRounds
  <2> QED BY <2>1, Zenon DEF Register
<1>4. Rounds[0][c] = c BY <1>3
<1>5. ASSUME NEW k \in 1..8 PROVE Rounds[k][c] = Rounds[k - 1][Shifted(c)]
  <2>1. k \in 0..8 /\ k # 0 OBVIOUS
  <2> QED BY <1>3, <2>1
<1> QED BY <1>4, <1>5

\* Eight rounds, one after the other.
LEMMA EightRounds ==
  ASSUME NEW c \in Register
  PROVE  Rounds[8][c] =
           Shifted(Shifted(Shifted(Shifted(Shifted(Shifted(Shifted(Shifted(c))))))))
<1>1. \A d : Shifted(d) \in Register BY ShiftedType
<1>2. ASSUME NEW d \in Register, NEW k \in 1..8 PROVE Rounds[k][d] = Rounds[k - 1][Shifted(d)]
  BY RoundsDef
<1>3. \A d \in Register : Rounds[1][d] = Shifted(d)
  <2> TAKE d \in Register
  <2>1. Rounds[1][d] = Rounds[1 - 1][Shifted(d)] BY <1>2
  <2>2. 1 - 1 = 0 OBVIOUS
  <2>3. Rounds[0][Shifted(d)] = Shifted(d) BY <1>1, RoundsDef
  <2> QED BY <2>1, <2>2, <2>3
<1>4. \A d \in Register : Rounds[2][d] = Shifted(Shifted(d))
  <2>1. \A d \in Register : Rounds[2][d] = Rounds[2 - 1][Shifted(d)] BY <1>2
  <2>2. 2 - 1 = 1 OBVIOUS
  <2> QED BY <1>1, <1>3, <2>1, <2>2
<1>5. \A d \in Register : Rounds[4][d] = Shifted(Shifted(Shifted(Shifted(d))))
  <2>1. \A d \in Register : /\ Rounds[4][d] = Rounds[4 - 1][Shifted(d)]
                            /\ Rounds[3][d] = Rounds[3 - 1][Shifted(d)] BY <1>2
  <2>2. 4 - 1 = 3 /\ 3 - 1 = 2 OBVIOUS
  <2> QED BY <1>1, <1>4, <2>1, <2>2
<1>6. \A d \in Register : Rounds[6][d] = Shifted(Shifted(Shifted(Shifted(Shifted(Shifted(d))))))
  <2>1. \A d \in Register : /\ Rounds[6][d] = Rounds[6 - 1][Shifted(d)]
                            /\ Rounds[5][d] = Rounds[5 - 1][Shifted(d)] BY <1>2
  <2>2. 6 - 1 = 5 /\ 5 - 1 = 4 OBVIOUS
  <2> QED BY <1>1, <1>5, <2>1, <2>2
<1>7. \A d \in Register : /\ Rounds[8][d] = Rounds[8 - 1][Shifted(d)]
                          /\ Rounds[7][d] = Rounds[7 - 1][Shifted(d)] BY <1>2
<1>8. 8 - 1 = 7 /\ 7 - 1 = 6 OBVIOUS
<1> QED BY <1>1, <1>6, <1>7, <1>8

\* A round and the exclusive or of a byte lose nothing.
LEMMA ShiftedInjective ==
  ASSUME NEW a \in Register, NEW b \in Register, Shifted(a) = Shifted(b)
  PROVE  a = b
<1>1. ASSUME NEW i \in 0..15
      PROVE  ((i - 1 \in a) # (15 \in a /\ i \in Poly)) = ((i - 1 \in b) # (15 \in b /\ i \in Poly))
  <2>1. i \in Shifted(a) <=> i \in Shifted(b) OBVIOUS
  <2> QED BY <2>1 DEF Shifted
<1>2. 15 \in a <=> 15 \in b
  <2>1. -1 \notin a /\ -1 \notin b BY DEF Register
  <2>2. 0 \in Poly BY DEF Poly
  <2>3. 0 - 1 = -1 OBVIOUS
  <2>4. ((0 - 1 \in a) # (15 \in a /\ 0 \in Poly)) = ((0 - 1 \in b) # (15 \in b /\ 0 \in Poly)) BY <1>1
  <2> QED BY <2>1, <2>2, <2>3, <2>4
<1>3. ASSUME NEW j \in 0..14 PROVE j \in a <=> j \in b
  <2>1. j + 1 \in 0..15 /\ j + 1 - 1 = j OBVIOUS
  <2>2. ((j + 1 - 1 \in a) # (15 \in a /\ j + 1 \in Poly))
          = ((j + 1 - 1 \in b) # (15 \in b /\ j + 1 \in Poly))
    BY <1>1, <2>1
  <2> QED BY <1>2, <2>1, <2>2
<1>4. \A j \in 0..15 : j \in a <=> j \in b
  <2> TAKE j \in 0..15
  <2>1. j = 15 \/ j \in 0..14 OBVIOUS
  <2> QED BY <1>2, <1>3, <2>1
<1> QED BY <1>4 DEF Register

\* Eight rounds lose nothing, since none does.
LEMMA RoundsInjective ==
  ASSUME NEW a \in Register, NEW b \in Register, Rounds[8][a] = Rounds[8][b]
  PROVE  a = b
<1> DEFINE P(k) == \A c, d \in Register : Rounds[k][c] = Rounds[k][d] => c = d
<1>1. P(0) BY RoundsDef
<1>2. ASSUME NEW k \in 1..8, P(k - 1) PROVE P(k)
  <2> TAKE c, d \in Register
  <2> HAVE Rounds[k][c] = Rounds[k][d]
  <2>1. Rounds[k - 1][Shifted(c)] = Rounds[k - 1][Shifted(d)] BY RoundsDef
  <2>2. Shifted(c) = Shifted(d) BY <1>2, <2>1, ShiftedType
  <2> QED BY <2>2, ShiftedInjective
<1> HIDE DEF P
<1>3. P(8)
  <2>1. \A k \in 1..8 : P(k - 1) => P(k) BY <1>2
  <2>2. /\ P(1 - 1) => P(1)
        /\ P(2 - 1) => P(2)
        /\ P(3 - 1) => P(3)
        /\ P(4 - 1) => P(4)
        /\ P(5 - 1) => P(5)
        /\ P(6 - 1) => P(6)
        /\ P(7 - 1) => P(7)
        /\ P(8 - 1) => P(8)
    BY <2>1
  <2>3. /\ 1 - 1 = 0 /\ 2 - 1 = 1 /\ 3 - 1 = 2 /\ 4 - 1 = 3
        /\ 5 - 1 = 4 /\ 6 - 1 = 5 /\ 7 - 1 = 6 /\ 8 - 1 = 7
    OBVIOUS
  <2> QED BY <1>1, <2>2, <2>3
<1> QED BY <1>3 DEF P

\* A round, bit by bit.
LEMMA RoundBits ==
  ASSUME NEW c \in Register
  PROVE  /\ 0 \in Shifted(c) <=> 15 \in c
         /\ 5 \in Shifted(c) <=> ~ (4 \in c <=> 15 \in c)
         /\ 12 \in Shifted(c) <=> ~ (11 \in c <=> 15 \in c)
         /\ 1 \in Shifted(c) <=> 0 \in c
         /\ 2 \in Shifted(c) <=> 1 \in c
         /\ 3 \in Shifted(c) <=> 2 \in c
         /\ 4 \in Shifted(c) <=> 3 \in c
         /\ 6 \in Shifted(c) <=> 5 \in c
         /\ 7 \in Shifted(c) <=> 6 \in c
         /\ 8 \in Shifted(c) <=> 7 \in c
         /\ 9 \in Shifted(c) <=> 8 \in c
         /\ 10 \in Shifted(c) <=> 9 \in c
         /\ 11 \in Shifted(c) <=> 10 \in c
         /\ 13 \in Shifted(c) <=> 12 \in c
         /\ 14 \in Shifted(c) <=> 13 \in c
         /\ 15 \in Shifted(c) <=> 14 \in c
<1>1. ASSUME NEW i \in 0..15
      PROVE  i \in Shifted(c) <=> ((i - 1 \in c) # (15 \in c /\ i \in Poly))
  BY DEF Shifted
<1>2. -1 \notin c BY DEF Register
<1>3. ASSUME NEW i \in 0..15
      PROVE  /\ i \in {0, 5, 12} => (i \in Shifted(c) <=> ~ (i - 1 \in c <=> 15 \in c))
             /\ i \notin {0, 5, 12} => (i \in Shifted(c) <=> i - 1 \in c)
  BY <1>1 DEF Poly
<1>4. 0 \in Shifted(c) <=> 15 \in c
  <2>1. 0 \in Shifted(c) <=> ~ (0 - 1 \in c <=> 15 \in c) BY <1>3
  <2>2. 0 - 1 = -1 OBVIOUS
  <2> QED BY <1>2, <2>1, <2>2
<1>5. 5 \in Shifted(c) <=> ~ (4 \in c <=> 15 \in c)
  <2>1. 5 \in Shifted(c) <=> ~ (5 - 1 \in c <=> 15 \in c) BY <1>3
  <2>2. 5 - 1 = 4 OBVIOUS
  <2> QED BY <2>1, <2>2
<1>6. 12 \in Shifted(c) <=> ~ (11 \in c <=> 15 \in c)
  <2>1. 12 \in Shifted(c) <=> ~ (12 - 1 \in c <=> 15 \in c) BY <1>3
  <2>2. 12 - 1 = 11 OBVIOUS
  <2> QED BY <2>1, <2>2
<1>7. ASSUME NEW i \in 0..15, NEW j \in 0..15, i \notin {0, 5, 12}, i - 1 = j
      PROVE  i \in Shifted(c) <=> j \in c
  BY <1>3, <1>7
<1> QED BY <1>4, <1>5, <1>6, <1>7

\* What eight rounds leave in the low byte is made of the high one.
LEMMA LowOctet ==
  ASSUME NEW c \in Register
  PROVE  /\ 0 \in Rounds[8][c] <=> ~ (8 \in c <=> 12 \in c)
         /\ 1 \in Rounds[8][c] <=> ~ (9 \in c <=> 13 \in c)
         /\ 2 \in Rounds[8][c] <=> ~ (10 \in c <=> 14 \in c)
         /\ 3 \in Rounds[8][c] <=> ~ (11 \in c <=> 15 \in c)
         /\ 4 \in Rounds[8][c] <=> 12 \in c
         /\ 5 \in Rounds[8][c] <=> ~ (13 \in c <=> ~ (8 \in c <=> 12 \in c))
         /\ 6 \in Rounds[8][c] <=> ~ (14 \in c <=> ~ (9 \in c <=> 13 \in c))
         /\ 7 \in Rounds[8][c] <=> ~ (15 \in c <=> ~ (10 \in c <=> 14 \in c))
<1> DEFINE c1 == Shifted(c)
           c2 == Shifted(c1)
           c3 == Shifted(c2)
           c4 == Shifted(c3)
           c5 == Shifted(c4)
           c6 == Shifted(c5)
           c7 == Shifted(c6)
           c8 == Shifted(c7)
<1>1. /\ c1 \in Register /\ c2 \in Register /\ c3 \in Register /\ c4 \in Register
      /\ c5 \in Register /\ c6 \in Register /\ c7 \in Register
  BY ShiftedType
<1>2. Rounds[8][c] = c8 BY EightRounds
\* The bit that each round moves out.
<1>3. /\ 15 \in c1 <=> 14 \in c
      /\ 15 \in c2 <=> 13 \in c
      /\ 15 \in c3 <=> 12 \in c
      /\ 15 \in c4 <=> ~ (11 \in c <=> 15 \in c)
  <2>1. /\ 15 \in c1 <=> 14 \in c
        /\ 14 \in c1 <=> 13 \in c
        /\ 13 \in c1 <=> 12 \in c
        /\ 12 \in c1 <=> ~ (11 \in c <=> 15 \in c) BY RoundBits
  <2> HIDE DEF c1
  <2>2. /\ 15 \in c2 <=> 14 \in c1
        /\ 14 \in c2 <=> 13 \in c1
        /\ 13 \in c2 <=> 12 \in c1 BY <1>1, RoundBits
  <2> HIDE DEF c2
  <2>3. /\ 15 \in c3 <=> 14 \in c2
        /\ 14 \in c3 <=> 13 \in c2 BY <1>1, RoundBits
  <2> HIDE DEF c3
  <2>4. 15 \in c4 <=> 14 \in c3 BY <1>1, RoundBits
  <2> QED BY <2>1, <2>2, <2>3, <2>4
<1>4. /\ 15 \in c5 <=> ~ (10 \in c <=> 14 \in c)
      /\ 15 \in c6 <=> ~ (9 \in c <=> 13 \in c)
      /\ 15 \in c7 <=> ~ (8 \in c <=> 12 \in c)
  <2>1. 11 \in c1 <=> 10 \in c BY RoundBits
  <2>2. 10 \in c1 <=> 9 \in c BY RoundBits
  <2>3. 9 \in c1 <=> 8 \in c BY RoundBits
  <2> HIDE DEF c1
  <2>4. /\ 12 \in c2 <=> ~ (11 \in c1 <=> 15 \in c1)
        /\ 11 \in c2 <=> 10 \in c1
        /\ 10 \in c2 <=> 9 \in c1 BY <1>1, RoundBits
  <2> HIDE DEF c2
  <2>5. /\ 13 \in c3 <=> 12 \in c2
        /\ 12 \in c3 <=> ~ (11 \in c2 <=> 15 \in c2)
        /\ 11 \in c3 <=> 10 \in c2 BY <1>1, RoundBits
  <2> HIDE DEF c3
  <2>6. /\ 14 \in c4 <=> 13 \in c3
        /\ 13 \in c4 <=> 12 \in c3
        /\ 12 \in c4 <=> ~ (11 \in c3 <=> 15 \in c3) BY <1>1, RoundBits
  <2> HIDE DEF c4
  <2>7. /\ 15 \in c5 <=> 14 \in c4
        /\ 14 \in c5 <=> 13 \in c4
        /\ 13 \in c5 <=> 12 \in c4 BY <1>1, RoundBits
  <2> HIDE DEF c5
  <2>8. 15 \in c6 <=> 14 \in c5 BY <1>1, RoundBits
  <2>9. 14 \in c6 <=> 13 \in c5 BY <1>1, RoundBits
  <2> HIDE DEF c6
  <2>10. 15 \in c7 <=> 14 \in c6 BY <1>1, RoundBits
  <2> HIDE DEF c7, c8
  <2>11. 15 \in c5 <=> ~ (10 \in c <=> 14 \in c)
    BY <1>3, <2>1, <2>4, <2>5, <2>6, <2>7
  <2>12. 15 \in c6 <=> ~ (9 \in c <=> 13 \in c)
    BY <1>3, <2>2, <2>4, <2>5, <2>6, <2>7, <2>8
  <2>13. 15 \in c7 <=> ~ (8 \in c <=> 12 \in c)
    BY <1>3, <2>3, <2>4, <2>5, <2>6, <2>7, <2>9, <2>10
  <2> QED BY <2>11, <2>12, <2>13
\* It comes in again at the bottom, and half way up three of them meet another.
<1>5. /\ 0 \in c8 <=> 15 \in c7
      /\ 1 \in c8 <=> 15 \in c6
      /\ 2 \in c8 <=> 15 \in c5
      /\ 3 \in c8 <=> 15 \in c4
      /\ 4 \in c8 <=> 15 \in c3
      /\ 5 \in c8 <=> ~ (15 \in c2 <=> 15 \in c7)
      /\ 6 \in c8 <=> ~ (15 \in c1 <=> 15 \in c6)
      /\ 7 \in c8 <=> ~ (15 \in c <=> 15 \in c5)
  <2>1. 0 \in c1 <=> 15 \in c BY RoundBits
  <2> HIDE DEF c1
  <2>2. /\ 0 \in c2 <=> 15 \in c1
        /\ 1 \in c2 <=> 0 \in c1 BY <1>1, RoundBits
  <2> HIDE DEF c2
  <2>3. /\ 0 \in c3 <=> 15 \in c2
        /\ 1 \in c3 <=> 0 \in c2
        /\ 2 \in c3 <=> 1 \in c2 BY <1>1, RoundBits
  <2> HIDE DEF c3
  <2>4. /\ 0 \in c4 <=> 15 \in c3
        /\ 1 \in c4 <=> 0 \in c3
        /\ 2 \in c4 <=> 1 \in c3
        /\ 3 \in c4 <=> 2 \in c3 BY <1>1, RoundBits
  <2> HIDE DEF c4
  <2>5. /\ 0 \in c5 <=> 15 \in c4
        /\ 1 \in c5 <=> 0 \in c4
        /\ 2 \in c5 <=> 1 \in c4
        /\ 3 \in c5 <=> 2 \in c4
        /\ 4 \in c5 <=> 3 \in c4 BY <1>1, RoundBits
  <2> HIDE DEF c5
  <2>6. /\ 0 \in c6 <=> 15 \in c5
        /\ 1 \in c6 <=> 0 \in c5
        /\ 2 \in c6 <=> 1 \in c5
        /\ 3 \in c6 <=> 2 \in c5
        /\ 4 \in c6 <=> 3 \in c5
        /\ 5 \in c6 <=> ~ (4 \in c5 <=> 15 \in c5) BY <1>1, RoundBits
  <2> HIDE DEF c6
  <2>7. /\ 0 \in c7 <=> 15 \in c6
        /\ 1 \in c7 <=> 0 \in c6
        /\ 2 \in c7 <=> 1 \in c6
        /\ 3 \in c7 <=> 2 \in c6
        /\ 4 \in c7 <=> 3 \in c6
        /\ 5 \in c7 <=> ~ (4 \in c6 <=> 15 \in c6)
        /\ 6 \in c7 <=> 5 \in c6 BY <1>1, RoundBits
  <2> HIDE DEF c7
  <2>8. /\ 0 \in c8 <=> 15 \in c7
        /\ 1 \in c8 <=> 0 \in c7
        /\ 2 \in c8 <=> 1 \in c7
        /\ 3 \in c8 <=> 2 \in c7
        /\ 4 \in c8 <=> 3 \in c7
        /\ 5 \in c8 <=> ~ (4 \in c7 <=> 15 \in c7)
        /\ 6 \in c8 <=> 5 \in c7
        /\ 7 \in c8 <=> 6 \in c7 BY <1>1, RoundBits
  <2> HIDE DEF c8
  <2>9. /\ 1 \in c8 <=> 15 \in c6
        /\ 2 \in c8 <=> 15 \in c5
        /\ 3 \in c8 <=> 15 \in c4
        /\ 4 \in c8 <=> 15 \in c3
    BY <2>4, <2>5, <2>6, <2>7, <2>8
  <2>10. 5 \in c8 <=> ~ (15 \in c2 <=> 15 \in c7) BY <2>3, <2>4, <2>5, <2>6, <2>7, <2>8
  <2>11. 6 \in c8 <=> ~ (15 \in c1 <=> 15 \in c6) BY <2>2, <2>3, <2>4, <2>5, <2>6, <2>7, <2>8
  <2>12. 7 \in c8 <=> ~ (15 \in c <=> 15 \in c5) BY <2>1, <2>2, <2>3, <2>4, <2>5, <2>6, <2>7, <2>8
  <2> QED BY <2>8, <2>9, <2>10, <2>11, <2>12
<1> HIDE DEF c1, c2, c3, c4, c5, c6, c7, c8
<1> QED BY <1>2, <1>3, <1>4, <1>5

\* So they tell what the high octet was before them.
LEMMA LowOctetTells ==
  ASSUME NEW a \in Register, NEW b \in Register,
         \A i \in 0..7 : i \in Rounds[8][a] <=> i \in Rounds[8][b]
  PROVE  \A i \in 8..15 : i \in a <=> i \in b
<1> DEFINE x == Rounds[8][a]
           y == Rounds[8][b]
<1>1. /\ 0 \in x <=> 0 \in y
      /\ 1 \in x <=> 1 \in y
      /\ 2 \in x <=> 2 \in y
      /\ 3 \in x <=> 3 \in y
      /\ 4 \in x <=> 4 \in y
      /\ 5 \in x <=> 5 \in y
      /\ 6 \in x <=> 6 \in y
      /\ 7 \in x <=> 7 \in y
  OBVIOUS
<1>2. /\ 8 \in a <=> 8 \in b
      /\ 9 \in a <=> 9 \in b
      /\ 10 \in a <=> 10 \in b
      /\ 11 \in a <=> 11 \in b
      /\ 12 \in a <=> 12 \in b
      /\ 13 \in a <=> 13 \in b
      /\ 14 \in a <=> 14 \in b
      /\ 15 \in a <=> 15 \in b
  <2>1. (12 \in a <=> 12 \in b) /\ (8 \in a <=> 8 \in b) BY <1>1, LowOctet
  <2>2. (13 \in a <=> 13 \in b) /\ (9 \in a <=> 9 \in b) BY <1>1, <2>1, LowOctet
  <2>3. (14 \in a <=> 14 \in b) /\ (10 \in a <=> 10 \in b) BY <1>1, <2>2, LowOctet
  <2>4. (15 \in a <=> 15 \in b) /\ (11 \in a <=> 11 \in b) BY <1>1, <2>3, LowOctet
  <2> QED BY <2>1, <2>2, <2>3, <2>4
<1>3. \A i \in 8..15 : i \in {8, 9, 10, 11, 12, 13, 14, 15} OBVIOUS
<1> QED BY <1>2, <1>3

\* A byte is its bits.
LEMMA BitValues ==
  ASSUME NEW v
  PROVE  /\ Bit(v, 0) <=> (v \div 1) % 2 = 1
         /\ Bit(v, 1) <=> (v \div 2) % 2 = 1
         /\ Bit(v, 2) <=> (v \div 4) % 2 = 1
         /\ Bit(v, 3) <=> (v \div 8) % 2 = 1
         /\ Bit(v, 4) <=> (v \div 16) % 2 = 1
         /\ Bit(v, 5) <=> (v \div 32) % 2 = 1
         /\ Bit(v, 6) <=> (v \div 64) % 2 = 1
         /\ Bit(v, 7) <=> (v \div 128) % 2 = 1
<1>1. /\ 2 ^ 0 = 1 /\ 2 ^ 1 = 2 /\ 2 ^ 2 = 4 /\ 2 ^ 3 = 8
      /\ 2 ^ 4 = 16 /\ 2 ^ 5 = 32 /\ 2 ^ 6 = 64 /\ 2 ^ 7 = 128
  OBVIOUS
<1> QED BY <1>1 DEF Bit

\* Bytes with the same bits are the same byte.
LEMMA ByteIsItsBits ==
  ASSUME NEW v \in Byte, NEW w \in Byte, \A i \in 0..7 : Bit(v, i) <=> Bit(w, i)
  PROVE  v = w
<1> DEFINE n(x, d) == (x \div d) % 2
<1>1. ASSUME NEW x \in Byte
      PROVE  /\ x = 128 * n(x, 128) + 64 * n(x, 64) + 32 * n(x, 32) + 16 * n(x, 16)
                    + 8 * n(x, 8) + 4 * n(x, 4) + 2 * n(x, 2) + n(x, 1)
             /\ n(x, 1) \in {0, 1} /\ n(x, 2) \in {0, 1} /\ n(x, 4) \in {0, 1} /\ n(x, 8) \in {0, 1}
             /\ n(x, 16) \in {0, 1} /\ n(x, 32) \in {0, 1} /\ n(x, 64) \in {0, 1} /\ n(x, 128) \in {0, 1}
  BY DEF Byte
<1>2. /\ Bit(v, 0) <=> Bit(w, 0)
      /\ Bit(v, 1) <=> Bit(w, 1)
      /\ Bit(v, 2) <=> Bit(w, 2)
      /\ Bit(v, 3) <=> Bit(w, 3)
      /\ Bit(v, 4) <=> Bit(w, 4)
      /\ Bit(v, 5) <=> Bit(w, 5)
      /\ Bit(v, 6) <=> Bit(w, 6)
      /\ Bit(v, 7) <=> Bit(w, 7)
  OBVIOUS
<1>3. /\ n(v, 1) = 1 <=> n(w, 1) = 1
      /\ n(v, 2) = 1 <=> n(w, 2) = 1
      /\ n(v, 4) = 1 <=> n(w, 4) = 1
      /\ n(v, 8) = 1 <=> n(w, 8) = 1
      /\ n(v, 16) = 1 <=> n(w, 16) = 1
      /\ n(v, 32) = 1 <=> n(w, 32) = 1
      /\ n(v, 64) = 1 <=> n(w, 64) = 1
      /\ n(v, 128) = 1 <=> n(w, 128) = 1
  BY <1>2, BitValues
<1> HIDE DEF n
<1>4. /\ n(v, 1) = n(w, 1) /\ n(v, 2) = n(w, 2) /\ n(v, 4) = n(w, 4) /\ n(v, 8) = n(w, 8)
      /\ n(v, 16) = n(w, 16) /\ n(v, 32) = n(w, 32) /\ n(v, 64) = n(w, 64)
      /\ n(v, 128) = n(w, 128)
  BY <1>1, <1>3
<1>5. /\ v = 128 * n(v, 128) + 64 * n(v, 64) + 32 * n(v, 32) + 16 * n(v, 16)
                    + 8 * n(v, 8) + 4 * n(v, 4) + 2 * n(v, 2) + n(v, 1)
      /\ w = 128 * n(w, 128) + 64 * n(w, 64) + 32 * n(w, 32) + 16 * n(w, 16)
                    + 8 * n(w, 8) + 4 * n(w, 4) + 2 * n(w, 2) + n(w, 1)
  BY <1>1
<1> QED BY <1>4, <1>5

\* Bits make a byte.
LEMMA BitsMakeByte ==
  ASSUME NEW S
  PROVE  \E v \in 0..255 : \A i \in 0..7 : Bit(v, i) = (i \in S)
<1> DEFINE b(i) == IF i \in S THEN 1 ELSE 0
           v == 128 * b(7) + 64 * b(6) + 32 * b(5) + 16 * b(4) + 8 * b(3) + 4 * b(2) + 2 * b(1) + b(0)
<1>1. \A i : b(i) \in {0, 1} /\ (b(i) = 1 <=> i \in S) OBVIOUS
<1> HIDE DEF b
<1>2. /\ b(0) \in {0, 1} /\ b(1) \in {0, 1} /\ b(2) \in {0, 1} /\ b(3) \in {0, 1}
      /\ b(4) \in {0, 1} /\ b(5) \in {0, 1} /\ b(6) \in {0, 1} /\ b(7) \in {0, 1}
  BY <1>1
<1>3. v \in 0..255 BY <1>2
<1>4. /\ (v \div 1) % 2 = b(0) /\ (v \div 2) % 2 = b(1) /\ (v \div 4) % 2 = b(2)
      /\ (v \div 8) % 2 = b(3) /\ (v \div 16) % 2 = b(4) /\ (v \div 32) % 2 = b(5)
      /\ (v \div 64) % 2 = b(6) /\ (v \div 128) % 2 = b(7)
  <2>1. v \div 1 = v
        /\ v \div 2 = 64 * b(7) + 32 * b(6) + 16 * b(5) + 8 * b(4) + 4 * b(3) + 2 * b(2) + b(1) BY <1>2
  <2>2. v \div 4 = 32 * b(7) + 16 * b(6) + 8 * b(5) + 4 * b(4) + 2 * b(3) + b(2) BY <1>2
  <2>3. v \div 8 = 16 * b(7) + 8 * b(6) + 4 * b(5) + 2 * b(4) + b(3) BY <1>2
  <2>4. v \div 16 = 8 * b(7) + 4 * b(6) + 2 * b(5) + b(4) BY <1>2
  <2>5. v \div 32 = 4 * b(7) + 2 * b(6) + b(5) BY <1>2
  <2>6. v \div 64 = 2 * b(7) + b(6) BY <1>2
  <2>7. v \div 128 = b(7) BY <1>2
  <2> QED BY <1>2, <2>1, <2>2, <2>3, <2>4, <2>5, <2>6, <2>7
<1> HIDE DEF v
<1>5. /\ Bit(v, 0) <=> 0 \in S
      /\ Bit(v, 1) <=> 1 \in S
      /\ Bit(v, 2) <=> 2 \in S
      /\ Bit(v, 3) <=> 3 \in S
      /\ Bit(v, 4) <=> 4 \in S
      /\ Bit(v, 5) <=> 5 \in S
      /\ Bit(v, 6) <=> 6 \in S
      /\ Bit(v, 7) <=> 7 \in S
  BY <1>1, <1>4, BitValues
<1>6. \A i \in 0..7 : i \in {0, 1, 2, 3, 4, 5, 6, 7} OBVIOUS
<1>7. \A i \in 0..7 : Bit(v, i) <=> i \in S BY <1>5, <1>6
<1>8. \A i \in 0..7 : Bit(v, i) = (i \in S)
  <2> TAKE i \in 0..7
  <2>1. Bit(v, i) \in BOOLEAN BY DEF Bit
  <2> QED BY <1>7, <2>1
<1> QED BY <1>3, <1>8

\* The octets of a register are bytes with its bits.
LEMMA CrcOctets ==
  ASSUME NEW c \in Register
  PROVE  /\ CrcOctet(c, 0) \in Byte /\ CrcOctet(c, 1) \in Byte
         /\ \A i \in 0..7 : /\ Bit(CrcOctet(c, 0), i) <=> i \in c
                            /\ Bit(CrcOctet(c, 1), i) <=> i + 8 \in c
<1>1. \E v \in 0..255 : \A i \in 0..7 : Bit(v, i) = (8 * 0 + i \in c)
  <2>1. PICK v \in 0..255 : \A i \in 0..7 : Bit(v, i) = (i \in c) BY BitsMakeByte
  <2>2. \A i \in 0..7 : 8 * 0 + i = i OBVIOUS
  <2> QED BY <2>1, <2>2
<1>2. \E v \in 0..255 : \A i \in 0..7 : Bit(v, i) = (8 * 1 + i \in c)
  <2> DEFINE S == {i \in 0..7 : i + 8 \in c}
  <2>1. PICK v \in 0..255 : \A i \in 0..7 : Bit(v, i) = (i \in S) BY BitsMakeByte
  <2>2. \A i \in 0..7 : 8 * 1 + i = i + 8 OBVIOUS
  <2> QED BY <2>1, <2>2
<1>3. CrcOctet(c, 0) \in 0..255 /\ \A i \in 0..7 : Bit(CrcOctet(c, 0), i) = (8 * 0 + i \in c)
  BY <1>1 DEF CrcOctet
<1>4. CrcOctet(c, 1) \in 0..255 /\ \A i \in 0..7 : Bit(CrcOctet(c, 1), i) = (8 * 1 + i \in c)
  BY <1>2 DEF CrcOctet
<1>5. \A i \in 0..7 : 8 * 0 + i = i /\ 8 * 1 + i = i + 8 OBVIOUS
<1> QED BY <1>3, <1>4, <1>5 DEF Byte
----------------------------------------------------------------------------
\* What feeding a byte and eight rounds keep apart.
LEMMA FedType == ASSUME NEW c, NEW b PROVE Fed(c, b) \in Register
BY DEF Fed, Register

\* A byte goes into the high octet bit by bit, and the low octet stays.
LEMMA FedBits ==
  ASSUME NEW c \in Register, NEW b
  PROVE  \A i \in 0..7 : /\ i \in Fed(c, b) <=> i \in c
                         /\ i + 8 \in Fed(c, b) <=> ~ (i + 8 \in c <=> Bit(b, i))
<1> TAKE i \in 0..7
<1>1. i \in 0..15 /\ ~ (i >= 8) /\ i + 8 \in 0..15 /\ i + 8 >= 8 /\ i + 8 - 8 = i OBVIOUS
<1>2. Bit(b, i) \in BOOLEAN BY DEF Bit
<1>3. i \in Fed(c, b) <=> ((i \in c) # (i >= 8 /\ Bit(b, i - 8))) BY <1>1 DEF Fed
<1>4. i + 8 \in Fed(c, b) <=> ((i + 8 \in c) # (i + 8 >= 8 /\ Bit(b, i + 8 - 8))) BY <1>1 DEF Fed
<1> QED BY <1>1, <1>2, <1>3, <1>4

\* Registers are told apart by their bits.
LEMMA SameRegister ==
  ASSUME NEW a \in Register, NEW b \in Register,
         \A i \in 0..7 : (i \in a <=> i \in b) /\ (i + 8 \in a <=> i + 8 \in b)
  PROVE  a = b
<1>1. \A j \in 0..15 : j \in a <=> j \in b
  <2> TAKE j \in 0..15
  <2>1. CASE j \in 0..7 BY <2>1
  <2>2. CASE j \notin 0..7
    <3>1. j - 8 \in 0..7 /\ j - 8 + 8 = j BY <2>2
    <3> QED BY <3>1
  <2> QED BY <2>1, <2>2
<1> QED BY <1>1 DEF Register

\* Another register stays another.
LEMMA EatenInjective ==
  ASSUME NEW a \in Register, NEW b \in Register, NEW x, Eaten(a, x) = Eaten(b, x)
  PROVE  a = b
<1>1. Fed(a, x) = Fed(b, x) BY FedType, RoundsInjective DEF Eaten
<1>2. \A i \in 0..7 : (i \in a <=> i \in b) /\ (i + 8 \in a <=> i + 8 \in b) BY <1>1, FedBits
<1> QED BY <1>2, SameRegister

\* Another byte makes another register, and another low octet of it.
LEMMA AnotherOctet ==
  ASSUME NEW c \in Register, NEW x \in Byte, NEW y \in Byte, x # y
  PROVE  \E i \in 0..7 : ~ (i \in Eaten(c, x) <=> i \in Eaten(c, y))
<1> SUFFICES ASSUME \A i \in 0..7 : i \in Eaten(c, x) <=> i \in Eaten(c, y) PROVE FALSE OBVIOUS
<1>1. \A i \in 8..15 : i \in Fed(c, x) <=> i \in Fed(c, y)
  BY FedType, LowOctetTells DEF Eaten
<1>2. \A i \in 0..7 : Bit(x, i) <=> Bit(y, i)
  <2> TAKE i \in 0..7
  <2>1. i + 8 \in 8..15 OBVIOUS
  <2> QED BY <1>1, <2>1, FedBits
<1> QED BY <1>2, ByteIsItsBits

\* A register that has eaten a byte is a register.
LEMMA EatenType == ASSUME NEW c, NEW b PROVE Eaten(c, b) \in Register
<1>1. Fed(c, b) \in Register BY FedType
<1>2. \A d : Shifted(d) \in Register BY ShiftedType
<1> QED BY <1>1, <1>2, EightRounds DEF Eaten

\* Two bytes in a row that are not those that were sent make another register.
LEMMA AnotherPair ==
  ASSUME NEW c \in Register, NEW x \in Byte, NEW y \in Byte, NEW v \in Byte, NEW w \in Byte,
         <<x, y>> # <<v, w>>
  PROVE  Eaten(Eaten(c, x), y) # Eaten(Eaten(c, v), w)
<1> DEFINE a == Eaten(c, x)
           b == Eaten(c, v)
<1>1. a \in Register /\ b \in Register BY EatenType
<1>2. CASE x = v
  <2>1. y # w BY <1>2
  <2> QED BY <1>1, <1>2, <2>1, AnotherOctet
<1>3. CASE x # v
  <2>1. PICK i \in 0..7 : ~ (i \in a <=> i \in b) BY <1>3, AnotherOctet
  <2> HIDE DEF a, b
  <2>2. Fed(a, y) # Fed(b, w) BY <1>1, <2>1, FedBits
  <2>3. Eaten(a, y) # Eaten(b, w) BY <2>2, FedType, RoundsInjective DEF Eaten
  <2> QED BY <2>3 DEF a, b
<1> QED BY <1>2, <1>3

\* f[n] is the register after the first n bytes, for n up to m.
IsCrc(f, bytes, m) ==
  f = [n \in 0..m |-> IF n = 0 THEN 0..15 ELSE Eaten(f[n - 1], bytes[n])]

\* The registers on the way exist, so Crc16 ends in the last one.
LEMMA CrcStep ==
  ASSUME NEW bytes, NEW m \in Nat \ {0}, NEW f, IsCrc(f, bytes, m - 1)
  PROVE  \E g : IsCrc(g, bytes, m)
<1> DEFINE g == [n \in 0..m |-> IF n = 0 THEN 0..15 ELSE Eaten(f[n - 1], bytes[n])]
<1>1. ASSUME NEW n \in 0..m, n # 0 PROVE g[n - 1] = f[n - 1]
  <2>1. n - 1 \in 0..(m - 1) /\ n - 1 \in 0..m BY <1>1
  <2>2. f[n - 1] = IF n - 1 = 0 THEN 0..15 ELSE Eaten(f[n - 1 - 1], bytes[n - 1])
    BY <2>1, Zenon DEF IsCrc
  <2>3. g[n - 1] = IF n - 1 = 0 THEN 0..15 ELSE Eaten(f[n - 1 - 1], bytes[n - 1])
    BY <2>1, Zenon
  <2> QED BY <2>2, <2>3, Zenon
<1>2. g = [n \in 0..m |-> IF n = 0 THEN 0..15 ELSE Eaten(g[n - 1], bytes[n])]
  <2> HIDE DEF g
  <2>1. \A n \in 0..m : g[n] = IF n = 0 THEN 0..15 ELSE Eaten(g[n - 1], bytes[n])
    <3> TAKE n \in 0..m
    <3>1. g[n] = IF n = 0 THEN 0..15 ELSE Eaten(f[n - 1], bytes[n]) BY Zenon DEF g
    <3>2. CASE n = 0 BY <3>1, <3>2, Zenon
    <3>3. CASE n # 0 BY <1>1, <3>1, <3>3, Zenon
    <3> QED BY <3>2, <3>3, Zenon
  <2>2. g = [n \in 0..m |-> g[n]] BY Zenon DEF g
  <2> QED BY <2>1, <2>2, Zenon
<1> QED BY <1>2, Zenon DEF IsCrc

\* The checksum is defined over every length, by the least one over which it is not.
LEMMA CrcExists == ASSUME NEW bytes, NEW m \in Nat PROVE \E f : IsCrc(f, bytes, m)
<1> DEFINE T == {n \in Nat : ~ \E f : IsCrc(f, bytes, n)}
<1> SUFFICES ASSUME T # {} PROVE FALSE BY Zenon
<1>1. PICK n \in T : \A k \in T : n <= k
  <2> HIDE DEF T
  <2>1. T \subseteq Nat BY DEF T
  <2> QED BY <2>1, LeastNatural
<1>2. CASE n = 0
  <2> DEFINE f == [k \in 0..0 |-> 0..15]
  <2>1. f = [k \in 0..n |-> IF k = 0 THEN 0..15 ELSE Eaten(f[k - 1], bytes[k])] BY <1>2
  <2> QED BY <1>1, <2>1, Zenon DEF IsCrc
<1>3. CASE n # 0
  <2>1. n \in Nat \ {0} /\ n - 1 \in Nat /\ n - 1 \notin T BY <1>1, <1>3
  <2>2. PICK f : IsCrc(f, bytes, n - 1) BY <2>1, Zenon
  <2>3. \E g : IsCrc(g, bytes, n) BY <2>1, <2>2, CrcStep
  <2> QED BY <1>1, <2>3, Zenon
<1> QED BY <1>2, <1>3

\* The registers on the way to a checksum.
Trace(f, bytes) ==
  /\ f[0] = 0..15
  /\ \A n \in 1..Len(bytes) : f[n] = Eaten(f[n - 1], bytes[n])
  /\ \A n \in 0..Len(bytes) : f[n] \in Register

\* The checksum of bytes is the end of a trace.
LEMMA CrcTrace ==
  ASSUME NEW bytes, Len(bytes) \in Nat
  PROVE  \E f : Trace(f, bytes) /\ Crc16(bytes) = f[Len(bytes)]
<1> DEFINE f == CHOOSE g : IsCrc(g, bytes, Len(bytes))
<1>1. IsCrc(f, bytes, Len(bytes)) BY CrcExists, Zenon
<1>2. Crc16(bytes) = f[Len(bytes)] BY Zenon DEF Crc16, IsCrc
<1> HIDE DEF f
<1>3. ASSUME NEW n \in 0..Len(bytes)
      PROVE  f[n] = IF n = 0 THEN 0..15 ELSE Eaten(f[n - 1], bytes[n])
  BY <1>1, Zenon DEF IsCrc
<1>4. f[0] = 0..15
  <2>1. 0 \in 0..Len(bytes) OBVIOUS
  <2> QED BY <1>3, <2>1
<1>5. \A n \in 1..Len(bytes) : f[n] = Eaten(f[n - 1], bytes[n])
  <2> TAKE n \in 1..Len(bytes)
  <2>1. n \in 0..Len(bytes) /\ n # 0 OBVIOUS
  <2> QED BY <1>3, <2>1
<1>6. \A n \in 0..Len(bytes) : f[n] \in Register
  <2> TAKE n \in 0..Len(bytes)
  <2>1. CASE n = 0 BY <1>4, <2>1 DEF Register
  <2>2. CASE n # 0
    <3>1. f[n] = Eaten(f[n - 1], bytes[n]) BY <1>3, <2>2
    <3> QED BY <3>1, EatenType
  <2> QED BY <2>1, <2>2
<1>7. Trace(f, bytes) BY <1>4, <1>5, <1>6 DEF Trace
<1> QED BY <1>2, <1>7

\* Registers are the same while the bytes are, and once they differ no equal bytes
\* make them the same again.
LEMMA TracesAgree ==
  ASSUME NEW s, NEW r, NEW f, NEW g, Len(s) \in Nat, Len(r) = Len(s),
         Trace(f, s), Trace(g, r), NEW m \in 0..Len(s), \A n \in 1..m : s[n] = r[n]
  PROVE  f[m] = g[m]
<1> DEFINE T == {n \in Nat : n <= m /\ f[n] # g[n]}
<1> SUFFICES ASSUME T # {} PROVE FALSE OBVIOUS
<1>1. PICK n \in T : \A k \in T : n <= k
  <2> HIDE DEF T
  <2>1. T \subseteq Nat BY DEF T
  <2> QED BY <2>1, LeastNatural
<1>2. n # 0 BY <1>1 DEF Trace
<1>3. n \in 1..m /\ n - 1 \in Nat /\ n - 1 <= m /\ n - 1 \notin T BY <1>1, <1>2
<1>4. f[n - 1] = g[n - 1] BY <1>3
<1>5. n \in 1..Len(s) /\ n \in 1..Len(r) BY <1>3
<1>6. f[n] = Eaten(f[n - 1], s[n]) /\ g[n] = Eaten(g[n - 1], r[n]) BY <1>5 DEF Trace
<1>7. f[n] = g[n] BY <1>3, <1>4, <1>6
<1> QED BY <1>1, <1>7

\* Traces that differ somewhere differ at the end, if the bytes after it are equal.
LEMMA TracesDiffer ==
  ASSUME NEW s, NEW r, NEW f, NEW g, Len(s) \in Nat, Len(r) = Len(s),
         Trace(f, s), Trace(g, r), NEW m \in 0..Len(s), f[m] # g[m],
         \A n \in (m + 1)..Len(s) : s[n] = r[n]
  PROVE  f[Len(s)] # g[Len(s)]
<1> DEFINE T == {n \in Nat : m <= n /\ n <= Len(s) /\ f[n] = g[n]}
<1>0. T = {}
  <2> SUFFICES ASSUME T # {} PROVE FALSE OBVIOUS
  <2>1. PICK n \in T : \A k \in T : n <= k
    <3> HIDE DEF T
    <3>1. T \subseteq Nat BY DEF T
    <3> QED BY <3>1, LeastNatural
  <2>2. n # m BY <2>1
  <2>3. n \in (m + 1)..Len(s) /\ n - 1 \in Nat /\ m <= n - 1 /\ n - 1 <= Len(s) /\ n - 1 \notin T
    BY <2>1, <2>2
  <2>4. f[n - 1] # g[n - 1] BY <2>3
  <2>5. n \in 1..Len(s) /\ n \in 1..Len(r) /\ n - 1 \in 0..Len(s) /\ n - 1 \in 0..Len(r) BY <2>3
  <2>6. /\ f[n] = Eaten(f[n - 1], s[n]) /\ g[n] = Eaten(g[n - 1], r[n])
        /\ f[n - 1] \in Register /\ g[n - 1] \in Register
    BY <2>5 DEF Trace
  <2>7. s[n] = r[n] BY <2>3
  <2>8. f[n] # g[n] BY <2>4, <2>6, <2>7, EatenInjective
  <2> QED BY <2>1, <2>8
<1>1. Len(s) \in Nat /\ m <= Len(s) OBVIOUS
<1> QED BY <1>0, <1>1

\* A burst within two bytes makes another checksum.
LEMMA BurstChangesCrc ==
  ASSUME NEW m \in Nat, NEW s \in Seq(Byte), NEW r \in Seq(Byte), Len(s) = m, Len(r) = m,
         NEW p \in 1..(m - 1), \A i \in 1..m : i \notin {p, p + 1} => s[i] = r[i], s # r
  PROVE  Crc16(s) # Crc16(r)
<1>1. PICK f : Trace(f, s) /\ Crc16(s) = f[m] BY CrcTrace
<1>2. PICK g : Trace(g, r) /\ Crc16(r) = g[m] BY CrcTrace
<1>3. f[p - 1] = g[p - 1]
  <2>1. p - 1 \in 0..m /\ \A n \in 1..(p - 1) : s[n] = r[n] OBVIOUS
  <2> QED BY <1>1, <1>2, <2>1, TracesAgree
<1>4. <<s[p], s[p + 1]>> # <<r[p], r[p + 1]>>
  <2> SUFFICES ASSUME s[p] = r[p], s[p + 1] = r[p + 1] PROVE FALSE OBVIOUS
  <2>1. \A i \in 1..m : s[i] = r[i] OBVIOUS
  <2> QED BY <2>1
<1>5. /\ s[p] \in Byte /\ s[p + 1] \in Byte /\ r[p] \in Byte /\ r[p + 1] \in Byte
  <2>1. p \in 1..m /\ p + 1 \in 1..m OBVIOUS
  <2> QED BY <2>1
<1>6. f[p + 1] # g[p + 1]
  <2>1. p \in 1..m /\ p + 1 \in 1..m /\ p - 1 \in 0..m /\ p + 1 - 1 = p OBVIOUS
  <2>2. f[p] = Eaten(f[p - 1], s[p]) /\ f[p + 1] = Eaten(f[p], s[p + 1]) /\ f[p - 1] \in Register
    BY <1>1, <2>1 DEF Trace
  <2>3. g[p] = Eaten(g[p - 1], r[p]) /\ g[p + 1] = Eaten(g[p], r[p + 1])
    BY <1>2, <2>1 DEF Trace
  <2> QED BY <1>3, <1>4, <1>5, <2>2, <2>3, AnotherPair
<1>7. p + 1 \in 0..m /\ \A n \in (p + 1 + 1)..m : s[n] = r[n] OBVIOUS
<1> QED BY <1>1, <1>2, <1>6, <1>7, TracesDiffer

\* And one in the last byte makes one with another low octet.
LEMMA LastByteChangesLowOctet ==
  ASSUME NEW m \in Nat \ {0}, NEW s \in Seq(Byte), NEW r \in Seq(Byte), Len(s) = m, Len(r) = m,
         \A i \in 1..(m - 1) : s[i] = r[i], s[m] # r[m]
  PROVE  \E i \in 0..7 : ~ (i \in Crc16(s) <=> i \in Crc16(r))
<1>1. PICK f : Trace(f, s) /\ Crc16(s) = f[m] BY CrcTrace
<1>2. PICK g : Trace(g, r) /\ Crc16(r) = g[m] BY CrcTrace
<1>3. f[m - 1] = g[m - 1]
  <2>1. m - 1 \in 0..m OBVIOUS
  <2> QED BY <1>1, <1>2, <2>1, TracesAgree
<1>4. m \in 1..m /\ m - 1 \in 0..m OBVIOUS
<1>5. f[m] = Eaten(f[m - 1], s[m]) /\ g[m] = Eaten(g[m - 1], r[m]) /\ f[m - 1] \in Register
  BY <1>1, <1>2, <1>4 DEF Trace
<1>6. s[m] \in Byte /\ r[m] \in Byte BY <1>4
<1> QED BY <1>1, <1>2, <1>3, <1>5, <1>6, AnotherOctet

\* A checksum is a register.
LEMMA CrcType == ASSUME NEW s, Len(s) \in Nat PROVE Crc16(s) \in Register
BY CrcTrace DEF Trace

\* The powers that cut a value into bytes.
LEMMA PowersOf256 ==
  256 ^ 0 = 1 /\ 256 ^ 1 = 256 /\ 256 ^ 2 = 65536 /\ 256 ^ 3 = 16777216
BY SMT

\* What the fields of a status may be.
LEMMA UnsignedRanges ==
  ASSUME NEW v
  PROVE  /\ v \in Unsigned(1) <=> v \in Byte
         /\ v \in Unsigned(2) <=> v \in Nat /\ v < 65536
         /\ v \in Unsigned(4) <=> v \in Nat /\ v < 4294967296
<1>1. 1 - 1 = 0 /\ 2 - 1 = 1 /\ 4 - 1 = 3 BY SMT
<1>2. /\ v \in Unsigned(1) <=> v \in Nat /\ v \div 1 \in 0..255
      /\ v \in Unsigned(2) <=> v \in Nat /\ v \div 256 \in 0..255
      /\ v \in Unsigned(4) <=> v \in Nat /\ v \div 16777216 \in 0..255
  BY <1>1, PowersOf256, SMT DEF Unsigned
<1>3. v \in Nat => (v \div 1 \in 0..255 <=> v \in 0..255) BY SMT
<1>4. v \in Nat => (v \div 256 \in 0..255 <=> v < 65536) BY SMT
<1>5. v \in Nat => (v \div 16777216 \in 0..255 <=> v < 4294967296) BY SMT
<1>6. v \in Byte => v \in Nat BY SMT DEF Byte
<1>7. v \in Nat => (v \in 0..255 <=> v \in Byte) BY SMT DEF Byte
<1> QED BY <1>2, <1>3, <1>4, <1>5, <1>6, <1>7, SMT

\* A status is its eight fields, each within its type.
LEMMA StatusFields ==
  ASSUME NEW s \in Status
  PROVE  /\ s = [master |-> s.master, unix_s |-> s.unix_s, volt_dv |-> s.volt_dv, temp_c |-> s.temp_c,
                 events |-> s.events, alive |-> s.alive, status |-> s.status, peak |-> s.peak]
         /\ s.master \in Byte /\ s.volt_dv \in Byte /\ s.alive \in Byte /\ s.status \in Byte
         /\ s.temp_c \in -128..127
         /\ s.unix_s \in Nat /\ s.unix_s < 4294967296
         /\ s.events \in Nat /\ s.events < 65536 /\ s.peak \in Nat /\ s.peak < 65536
<1>1. /\ s = [master |-> s.master, unix_s |-> s.unix_s, volt_dv |-> s.volt_dv, temp_c |-> s.temp_c,
              events |-> s.events, alive |-> s.alive, status |-> s.status, peak |-> s.peak]
      /\ s.master \in Unsigned(1) /\ s.volt_dv \in Unsigned(1) /\ s.alive \in Unsigned(1)
      /\ s.status \in Unsigned(1) /\ s.temp_c \in -128..127 /\ s.unix_s \in Unsigned(4)
      /\ s.events \in Unsigned(2) /\ s.peak \in Unsigned(2)
  BY SMT DEF Status
<1> QED BY <1>1, UnsignedRanges, SMT

\* The four bytes of a value as quotients.
LEMMA OctetValues ==
  ASSUME NEW v
  PROVE  /\ Octet(v, 3) = (v \div 16777216) % 256 /\ Octet(v, 2) = (v \div 65536) % 256
         /\ Octet(v, 1) = (v \div 256) % 256 /\ Octet(v, 0) = (v \div 1) % 256
BY PowersOf256, SMT DEF Octet

\* They are bytes.
LEMMA OctetType ==
  ASSUME NEW v \in Int
  PROVE  Octet(v, 0) \in Byte /\ Octet(v, 1) \in Byte /\ Octet(v, 2) \in Byte /\ Octet(v, 3) \in Byte
<1>1. /\ v \div 1 \in Int /\ v \div 256 \in Int /\ v \div 65536 \in Int /\ v \div 16777216 \in Int
  BY SMT
<1>2. \A x \in Int : x % 256 \in Byte BY SMT DEF Byte
<1> QED BY <1>1, <1>2, OctetValues, SMT

\* Octets make up the number they are taken from.
LEMMA TwoOctets ==
  ASSUME NEW v \in Nat, v < 65536 PROVE Octet(v, 1) * 256 + Octet(v, 0) = v
<1>2. (v \div 256) % 256 = v \div 256 /\ v = (v \div 256) * 256 + (v % 256) /\ v \div 1 = v BY SMT
<1> QED BY OctetValues, <1>2, SMT

\* Four bytes put together again are the value.
LEMMA FourOctets ==
  ASSUME NEW v \in Nat, v < 4294967296
  PROVE  ((Octet(v, 3) * 256 + Octet(v, 2)) * 256 + Octet(v, 1)) * 256 + Octet(v, 0) = v
<1> DEFINE a == v \div 256
           b == a \div 256
           c == b \div 256
<1>2. /\ a \in Nat /\ b \in Nat /\ c \in Nat /\ v \div 1 = v
      /\ v = a * 256 + (v % 256) /\ a = b * 256 + (a % 256) /\ b = c * 256 + (b % 256)
  BY SMT
<1>3. v \div 65536 = b /\ v \div 16777216 = c BY SMT
<1>4. c % 256 = c BY SMT
<1>5. Octet(v, 3) = c /\ Octet(v, 2) = b % 256 /\ Octet(v, 1) = a % 256 /\ Octet(v, 0) = v % 256
  BY OctetValues, <1>2, <1>3, <1>4, SMT
<1> HIDE DEF a, b, c
<1> QED BY <1>2, <1>5, SMT

\* The values of a frame are fourteen bytes.
LEMMA ValuesType ==
  ASSUME NEW s \in Status
  PROVE  Values(s) \in Seq(Byte) /\ Len(Values(s)) = 14
<1>1. /\ Octet(s.unix_s, 0) \in Byte /\ Octet(s.unix_s, 1) \in Byte
      /\ Octet(s.unix_s, 2) \in Byte /\ Octet(s.unix_s, 3) \in Byte
      /\ Octet(s.events, 0) \in Byte /\ Octet(s.events, 1) \in Byte
      /\ Octet(s.peak, 0) \in Byte /\ Octet(s.peak, 1) \in Byte
  BY StatusFields, OctetType, SMT
<1>2. Magic \in Byte BY SMT DEF Magic, Byte
<1>3. s.temp_c % 256 \in Byte
  <2>1. s.temp_c \in -128..127 BY StatusFields, SMT
  <2> QED BY <2>1, SMT DEF Byte
<1> QED BY <1>1, <1>2, <1>3, StatusFields, SMT DEF Values

\* The frame is fourteen bytes of values and two of checksum.
LEMMA CoveredType ==
  ASSUME NEW f \in Seq(Byte), Len(f) >= 14
  PROVE  /\ Covered(f) \in Seq(Byte) /\ Len(Covered(f)) = 14
         /\ \A i \in 1..14 : Covered(f)[i] = f[i]
BY SMT DEF Covered

\* Two bytes more make sixteen, the first fourteen as they were.
LEMMA TwoMore ==
  ASSUME NEW v \in Seq(Byte), Len(v) = 14, NEW w \in Seq(Byte), Len(w) = 2
  PROVE  /\ v \o w \in Seq(Byte) /\ Len(v \o w) = 16
         /\ \A i \in 1..14 : (v \o w)[i] = v[i]
         /\ (v \o w)[15] = w[1] /\ (v \o w)[16] = w[2]
<1>1. /\ v \o w \in Seq(Byte) /\ Len(v \o w) = Len(v) + Len(w)
      /\ \A i \in 1..Len(v) + Len(w) : (v \o w)[i] = IF i <= Len(v) THEN v[i] ELSE w[i - Len(v)]
  BY ConcatProperties, Zenon
<1> DEFINE f == v \o w
<1>2. f \in Seq(Byte) /\ Len(f) = 14 + 2
      /\ \A i \in 1..14 + 2 : f[i] = IF i <= 14 THEN v[i] ELSE w[i - 14]
  BY <1>1, Zenon
<1> HIDE DEF f
<1>3. f \in Seq(Byte) /\ Len(f) = 16 /\ (\A i \in 1..14 : f[i] = v[i]) /\ f[15] = w[1] /\ f[16] = w[2]
  BY <1>2, SMT
<1> QED BY <1>3, Zenon DEF f

\* A frame as it is packed.
LEMMA Packed ==
  ASSUME NEW s \in Status, NEW f, f = LoraPack(s)
  PROVE  /\ f \in Seq(Byte) /\ Len(f) = 16
         /\ \A i \in 1..14 : f[i] = Values(s)[i]
         /\ Covered(f) = Values(s)
         /\ Crc16(Covered(f)) \in Register
         /\ f[15] = CrcOctet(Crc16(Covered(f)), 1)
         /\ f[16] = CrcOctet(Crc16(Covered(f)), 0)
<1> DEFINE v == Values(s)
           c == Crc16(Covered(v))
<1>1. v \in Seq(Byte) /\ Len(v) = 14 BY ValuesType
<1> HIDE DEF v
<1>2. Covered(v) = v
  <2>1. Covered(v) \in Seq(Byte) /\ Len(Covered(v)) = 14 /\ \A i \in 1..14 : Covered(v)[i] = v[i]
    <3>1. Len(v) >= 14 BY <1>1, SMT
    <3> QED BY <1>1, <3>1, CoveredType, Zenon
  <2>2. Len(Covered(v)) = Len(v) /\ \A i \in 1..Len(Covered(v)) : Covered(v)[i] = v[i] BY <1>1, <2>1, SMT
  <2> QED BY <1>1, <2>1, <2>2, SeqEqual, Zenon
<1>3. c \in Register BY <1>1, <1>2, CrcType, SMT
<1> HIDE DEF c
<1>4. CrcOctet(c, 0) \in Byte /\ CrcOctet(c, 1) \in Byte BY <1>3, CrcOctets, SMT
<1>5. f = v \o <<CrcOctet(c, 1), CrcOctet(c, 0)>> BY SMT DEF LoraPack, v, c
<1>6. /\ f \in Seq(Byte) /\ Len(f) = 16 /\ \A i \in 1..14 : f[i] = v[i]
      /\ f[15] = CrcOctet(c, 1) /\ f[16] = CrcOctet(c, 0)
  
  <2> DEFINE w == <<CrcOctet(c, 1), CrcOctet(c, 0)>>
  <2>1. w \in Seq(Byte) /\ Len(w) = 2 /\ w[1] = CrcOctet(c, 1) /\ w[2] = CrcOctet(c, 0) BY <1>4, SMT
  <2>2. f = v \o w BY <1>5, Zenon
  <2> HIDE DEF w
  <2>3. /\ v \o w \in Seq(Byte) /\ Len(v \o w) = 16 /\ \A i \in 1..14 : (v \o w)[i] = v[i]
        /\ (v \o w)[15] = w[1] /\ (v \o w)[16] = w[2]
    BY <1>1, <2>1, TwoMore, Zenon
  <2>4. /\ f \in Seq(Byte) /\ Len(f) = 16 /\ \A i \in 1..14 : f[i] = v[i]
        /\ f[15] = w[1] /\ f[16] = w[2]
    BY <2>2, <2>3, Zenon
  <2> QED BY <2>1, <2>4, Zenon
<1>7. Covered(f) = v
  <2>1. Covered(f) \in Seq(Byte) /\ Len(Covered(f)) = 14 /\ \A i \in 1..14 : Covered(f)[i] = f[i]
    <3>1. Len(f) >= 14 BY <1>6, SMT
    <3> QED BY <1>6, <3>1, CoveredType, Zenon
  <2>2. Len(Covered(f)) = Len(v) /\ \A i \in 1..Len(Covered(f)) : Covered(f)[i] = v[i]
    BY <1>1, <1>6, <2>1, SMT
  <2> QED BY <1>1, <2>1, <2>2, SeqEqual, Zenon
<1>8. c = Crc16(Covered(f)) BY <1>2, <1>7, SMT DEF c
<1> QED BY <1>3, <1>6, <1>7, <1>8, Zenon DEF v

\* The checksum of a frame, bit by bit, and that it is the right one when packed.
LEMMA WantBits ==
  ASSUME NEW f, NEW i \in 0..7
  PROVE  (i \in Want(f) <=> Bit(f[16], i)) /\ (i + 8 \in Want(f) <=> Bit(f[15], i))
<1>1. i \in 0..15 /\ i < 8 /\ i + 8 \in 0..15 /\ ~ (i + 8 < 8) /\ i + 8 - 8 = i BY SMT
<1> QED BY <1>1, SMT DEF Want

\* A packed frame comes with the checksum of what it covers.
LEMMA PackedWant ==
  ASSUME NEW s \in Status PROVE Want(LoraPack(s)) = Crc16(Covered(LoraPack(s)))
<1> DEFINE f == LoraPack(s)
           c == Crc16(Covered(f))
<1>1. c \in Register /\ f[15] = CrcOctet(c, 1) /\ f[16] = CrcOctet(c, 0) BY Packed, Zenon
<1> HIDE DEF f, c
<1>2. Want(f) \in Register BY SMT DEF Want, Register
<1>3. \A i \in 0..7 : (i \in Want(f) <=> i \in c) /\ (i + 8 \in Want(f) <=> i + 8 \in c)
  BY <1>1, WantBits, CrcOctets, SMT
<1>4. Want(f) = c BY <1>1, <1>2, <1>3, SameRegister, SMT
<1> QED BY <1>4, Zenon DEF f, c

\* What is packed is what is read.
LEMMA UnpackIsInverse == ASSUME NEW s \in Status PROVE LoraUnpack(LoraPack(s)) = s
<1> DEFINE f == LoraPack(s)
<1>1. /\ f \in Seq(Byte) /\ Len(f) = 16 /\ \A i \in 1..14 : f[i] = Values(s)[i]
      /\ Crc16(Covered(f)) = Want(f)
  <2> USE PackedWant
  <2> QED BY Packed, PackedWant, Zenon
<1> HIDE DEF f
<1>2. /\ f[1] = Values(s)[1] /\ f[2] = Values(s)[2] /\ f[3] = Values(s)[3] /\ f[4] = Values(s)[4]
      /\ f[5] = Values(s)[5] /\ f[6] = Values(s)[6] /\ f[7] = Values(s)[7] /\ f[8] = Values(s)[8]
      /\ f[9] = Values(s)[9] /\ f[10] = Values(s)[10] /\ f[11] = Values(s)[11]
      /\ f[12] = Values(s)[12] /\ f[13] = Values(s)[13] /\ f[14] = Values(s)[14]
  BY <1>1, SMT
<1>3. /\ f[1] = Magic /\ f[2] = s.master
      /\ f[3] = Octet(s.unix_s, 3) /\ f[4] = Octet(s.unix_s, 2)
      /\ f[5] = Octet(s.unix_s, 1) /\ f[6] = Octet(s.unix_s, 0)
      /\ f[7] = s.volt_dv /\ f[8] = s.temp_c % 256
      /\ f[9] = Octet(s.events, 1) /\ f[10] = Octet(s.events, 0)
      /\ f[11] = s.alive /\ f[12] = s.status
      /\ f[13] = Octet(s.peak, 1) /\ f[14] = Octet(s.peak, 0)
  BY <1>2, SMT DEF Values
<1>4. ~ (Len(f) < LoraLen \/ f[1] # Magic \/ Crc16(Covered(f)) # Want(f))
  <2>1. ~ (Len(f) < LoraLen) BY <1>1, SMT DEF LoraLen
  <2> QED BY <1>1, <1>3, <2>1, Zenon
<1>5. /\ f[9] * 256 + f[10] = s.events /\ f[13] * 256 + f[14] = s.peak
      /\ ((f[3] * 256 + f[4]) * 256 + f[5]) * 256 + f[6] = s.unix_s
  <2>1. /\ Octet(s.events, 1) * 256 + Octet(s.events, 0) = s.events
        /\ Octet(s.peak, 1) * 256 + Octet(s.peak, 0) = s.peak
        /\ ((Octet(s.unix_s, 3) * 256 + Octet(s.unix_s, 2)) * 256 + Octet(s.unix_s, 1)) * 256
             + Octet(s.unix_s, 0) = s.unix_s
    BY StatusFields, TwoOctets, FourOctets, SMT
  <2> QED BY <1>3, <2>1, SMT
<1>6. (IF f[8] > 127 THEN f[8] - 256 ELSE f[8]) = s.temp_c
  <2>1. s.temp_c \in -128..127 BY StatusFields, SMT
  <2>2. (IF s.temp_c % 256 > 127 THEN (s.temp_c % 256) - 256 ELSE s.temp_c % 256) = s.temp_c
    BY <2>1, SMT
  <2> QED BY <1>3, <2>2, SMT
<1>7. LoraUnpack(f) =
        [master |-> s.master, unix_s |-> s.unix_s, volt_dv |-> s.volt_dv, temp_c |-> s.temp_c,
         events |-> s.events, alive |-> s.alive, status |-> s.status, peak |-> s.peak]
  BY <1>3, <1>4, <1>5, <1>6, SMT DEF LoraUnpack
<1> QED BY <1>7, StatusFields, SMT DEF f

\* A frame that is another one within two bytes in a row is not read.
LEMMA BurstIsRefused ==
  ASSUME NEW s \in Status, NEW p \in 1..15, NEW g \in Seq(Byte), Len(g) = 16,
         \A i \in 1..16 : i \notin {p, p + 1} => g[i] = LoraPack(s)[i], g # LoraPack(s)
  PROVE  LoraUnpack(g) = Unreadable
<1> DEFINE f == LoraPack(s)
           a == Covered(f)
           b == Covered(g)
<1>1. f \in Seq(Byte) /\ Len(f) = 16 BY Packed, Zenon
<1>2. Crc16(a) = Want(f) BY PackedWant, Zenon
<1>3. \A i \in 1..16 : i \notin {p, p + 1} => g[i] = f[i] BY SMT
<1>4. g # f BY Zenon
<1> HIDE DEF f
<1>5. /\ a \in Seq(Byte) /\ Len(a) = 14 /\ \A i \in 1..14 : a[i] = f[i]
  <2>1. Len(f) >= 14 BY <1>1, SMT
  <2> QED BY <1>1, <2>1, CoveredType, Zenon
<1>6. /\ b \in Seq(Byte) /\ Len(b) = 14 /\ \A i \in 1..14 : b[i] = g[i]
  <2>1. Len(g) >= 14 BY SMT
  <2> QED BY <2>1, CoveredType, Zenon
<1> HIDE DEF a, b
<1>7. f[p] # g[p] \/ f[p + 1] # g[p + 1]
  <2> SUFFICES ASSUME f[p] = g[p], f[p + 1] = g[p + 1] PROVE FALSE OBVIOUS
  <2>1. \A i \in 1..16 : f[i] = g[i] BY <1>3, Zenon
  <2>2. Len(f) = Len(g) /\ \A i \in 1..Len(f) : f[i] = g[i] BY <1>1, <2>1, SMT
  <2> QED BY <1>1, <1>4, <2>2, SeqEqual, Zenon
<1>8. Crc16(b) # Want(g)
  <2>1. CASE p <= 13
    <3>1. /\ p \in 1..13 /\ 14 \in Nat /\ \A i \in 1..14 : i \notin {p, p + 1} => a[i] = b[i]
      BY <1>3, <1>5, <1>6, <2>1, SMT
    <3>2. a # b
      <4>1. p \in 1..14 /\ p + 1 \in 1..14 BY <2>1, SMT
      <4>2. a[p] = f[p] /\ b[p] = g[p] /\ a[p + 1] = f[p + 1] /\ b[p + 1] = g[p + 1]
        BY <1>5, <1>6, <4>1, Zenon
      <4> QED BY <1>7, <4>2, Zenon
    <3>3. p \in 1..(14 - 1) BY <3>1, SMT
    <3>4. Crc16(a) # Crc16(b)
      <4> DEFINE m == 14
      <4>1. /\ m \in Nat /\ Len(a) = m /\ Len(b) = m /\ p \in 1..(m - 1)
            /\ \A i \in 1..m : i \notin {p, p + 1} => a[i] = b[i]
        BY <1>5, <1>6, <3>1, <3>3, Zenon
      <4> HIDE DEF m
      <4>2. a \in Seq(Byte) /\ b \in Seq(Byte) /\ a # b BY <1>5, <1>6, <3>2, Zenon
      <4> QED BY <4>1, <4>2, BurstChangesCrc, Zenon
    <3>5. f[15] = g[15] /\ f[16] = g[16] BY <1>3, <2>1, SMT
    <3>6. Want(f) = Want(g) BY <3>5, SMT DEF Want
    <3> QED BY <1>2, <3>4, <3>6
  <2>2. CASE p = 14 /\ f[14] # g[14]
    <3>1. \A i \in 1..(14 - 1) : a[i] = b[i] BY <1>3, <1>5, <1>6, <2>2, SMT
    <3>2. a[14] # b[14] BY <1>5, <1>6, <2>2, SMT
    <3>3. PICK i \in 0..7 : ~ (i \in Crc16(a) <=> i \in Crc16(b))
      <4>1. 14 \in Nat \ {0} BY SMT
      <4> QED BY <1>5, <1>6, <3>1, <3>2, <4>1, LastByteChangesLowOctet, Zenon
    <3>4. f[16] = g[16] BY <1>3, <2>2, SMT
    <3>5. i \in Want(f) <=> i \in Want(g) BY <3>4, WantBits, Zenon
    <3> QED BY <1>2, <3>3, <3>5, Zenon
  <2>3. CASE (p = 14 /\ f[14] = g[14]) \/ p = 15
    <3>1. \A i \in 1..14 : a[i] = b[i] BY <1>3, <1>5, <1>6, <2>3, SMT
    <3>2. a = b
      <4>1. Len(a) = Len(b) /\ \A i \in 1..Len(a) : a[i] = b[i] BY <1>5, <1>6, <3>1, SMT
      <4> QED BY <1>5, <1>6, <4>1, SeqEqual, Zenon
    <3>3. f[15] # g[15] \/ f[16] # g[16] BY <1>7, <2>3, SMT
    <3>4. f[15] \in Byte /\ f[16] \in Byte /\ g[15] \in Byte /\ g[16] \in Byte
      <4>1. 15 \in 1..Len(f) /\ 16 \in 1..Len(f) /\ 15 \in 1..Len(g) /\ 16 \in 1..Len(g) BY <1>1, SMT
      <4> QED BY <1>1, <4>1, ElementOfSeq, Zenon
    <3>5. Want(f) # Want(g)
      <4> SUFFICES ASSUME Want(f) = Want(g) PROVE FALSE OBVIOUS
      <4>1. \A i \in 0..7 : (Bit(f[15], i) <=> Bit(g[15], i)) /\ (Bit(f[16], i) <=> Bit(g[16], i))
        BY WantBits, Zenon
      <4>2. f[15] = g[15] BY <3>4, <4>1, ByteIsItsBits, Zenon
      <4>3. f[16] = g[16] BY <3>4, <4>1, ByteIsItsBits, Zenon
      <4> QED BY <3>3, <4>2, <4>3
    <3> QED BY <1>2, <3>2, <3>5
  <2> QED BY <2>1, <2>2, <2>3, SMT
<1> QED BY <1>8, Zenon DEF LoraUnpack, b
----------------------------------------------------------------------------
(* The whole.                                                               *)

\* To add something to a byte, modulo 256, changes it.
LEMMA AddedByte ==
  ASSUME NEW a \in Byte, NEW c \in Byte PROVE Added(a, c) \in Byte /\ (Added(a, c) = a <=> c = 0)
BY SMT DEF Byte, Added

\* What noise makes of a frame is another frame within two bytes.
LEMMA HitIsBurst ==
  ASSUME NEW f \in Seq(Byte), Len(f) = 16, NEW p \in 1..15, NEW b \in Burst
  PROVE  /\ Hit(f, p, b) \in Seq(Byte) /\ Len(Hit(f, p, b)) = 16 /\ Hit(f, p, b) # f
         /\ \A i \in 1..16 : i \notin {p, p + 1} => Hit(f, p, b)[i] = f[i]
<1> DEFINE h == Hit(f, p, b)
<1>1. b[1] \in Byte /\ b[2] \in Byte /\ ~ (b[1] = 0 /\ b[2] = 0)
  <2>1. b \in (0..255) \X (0..255) /\ b # <<0, 0>> BY TriggerAssumption, Zenon
  <2> QED BY <2>1, SMT DEF Byte
<1>2. h = [i \in 1..16 |-> IF i = p THEN Added(f[i], b[1])
                           ELSE IF i = p + 1 THEN Added(f[i], b[2]) ELSE f[i]]
  BY Zenon DEF Hit, LoraLen
<1> HIDE DEF h
<1>3. \A i \in 1..16 : f[i] \in Byte
  <2>1. \A i \in 1..16 : i \in 1..Len(f) BY SMT
  <2> QED BY <2>1, ElementOfSeq, Zenon
<1>4. \A i \in 1..16 : h[i] \in Byte BY <1>1, <1>2, <1>3, AddedByte, Zenon
<1>5. h \in [1..16 -> Byte] BY <1>2, <1>4, Zenon
<1>6. h \in Seq(Byte) /\ Len(h) = 16
  <2>1. 16 \in Nat BY SMT
  <2> QED BY <1>5, <2>1, FunctionIsSeq, Zenon
<1>7. \A i \in 1..16 : i \notin {p, p + 1} => h[i] = f[i] BY <1>2, Zenon
<1>8. h # f
  <2>1. p \in 1..16 /\ p + 1 \in 1..16 /\ p + 1 # p BY SMT
  <2>2. h[p] = Added(f[p], b[1]) /\ h[p + 1] = Added(f[p + 1], b[2]) BY <1>2, <2>1, Zenon
  <2>3. f[p] \in Byte /\ f[p + 1] \in Byte BY <1>3, <2>1, Zenon
  <2>4. /\ Added(f[p], b[1]) = f[p] <=> b[1] = 0
        /\ Added(f[p + 1], b[2]) = f[p + 1] <=> b[2] = 0
    BY <1>1, <2>3, AddedByte, Zenon
  <2>5. h[p] # f[p] \/ h[p + 1] # f[p + 1] BY <1>1, <2>2, <2>4, Zenon
  <2> QED BY <2>5, Zenon
<1> QED BY <1>6, <1>7, <1>8, Zenon DEF h

\* The telemetry of a peak is one that the frame can hold.
LEMMA TelemetryType == ASSUME NEW peak \in Nat PROVE Telemetry(peak) \in Status
<1>1. Smaller(peak, 65535) \in Unsigned(2)
  <2>1. Smaller(peak, 65535) \in Nat /\ Smaller(peak, 65535) < 65536 BY SMT DEF Smaller
  <2> QED BY <2>1, UnsignedRanges, SMT
<1> DEFINE s == Smaller(peak, 65535)
<1>2. Others \in Status BY TriggerAssumption, SMT
<1>3. Telemetry(peak) = [Others EXCEPT !.peak = s] BY SMT DEF Telemetry
<1> HIDE DEF s
<1> QED BY <1>1, <1>2, <1>3, SMT DEF Status, s

(* Whatever status is sent, its frame is read as it was sent; and a frame   *)
(* that noise made another one, within two bytes in a row anywhere in it,   *)
(* is not read (nic_lora_pack, nic_lora_unpack, nic_crc16_ccitt).           *)
THEOREM FrameTheorem ==
  ASSUME NEW s \in Status
  PROVE  Received(LoraPack(s)).clean = s /\ Received(LoraPack(s)).noisy \subseteq {Unreadable}
<1> DEFINE f == LoraPack(s)
<1>1. f \in Seq(Byte) /\ Len(f) = 16 BY Packed, Zenon
<1>2. LoraUnpack(f) = s BY UnpackIsInverse, Zenon
<1>3. ASSUME NEW p \in 1..15, NEW b \in Burst PROVE LoraUnpack(Hit(f, p, b)) = Unreadable
  <2> DEFINE g == Hit(f, p, b)
  <2>1. /\ g \in Seq(Byte) /\ Len(g) = 16 /\ g # f
        /\ \A i \in 1..16 : i \notin {p, p + 1} => g[i] = f[i]
    BY <1>1, HitIsBurst, Zenon
  <2> HIDE DEF g
  <2> QED BY <2>1, BurstIsRefused, Zenon DEF g
<1> HIDE DEF f
<1>4. LoraLen - 1 = 15 BY SMT DEF LoraLen
<1>5. Received(f).clean = LoraUnpack(f) BY SMT DEF Received
<1>6. Received(f).noisy = {LoraUnpack(Hit(f, p, b)) : p \in 1..15, b \in Burst}
  BY <1>4, SMT DEF Received
<1>7. \A v \in Received(f).noisy : v = Unreadable BY <1>3, <1>6, SMT
<1>8. Received(f).clean = s /\ Received(f).noisy \subseteq {Unreadable} BY <1>2, <1>5, <1>7, Zenon
<1> QED BY <1>8, Zenon DEF f

(* Whatever the ground does, the trigger feeds its detector as the detector *)
(* expects to be fed: with numbers that are not negative (nic_node_pack,    *)
(* seismic_mag, nq_detect_push).                                            *)
THEOREM TriggerFeedsDetector == Spec => DetectSpec
<1>1. Init => DetectInit BY DEF Init
<1>2. [Next]_tvars => [DetectNext]_dvars
  <2>1. ASSUME NEW m \in Motion \cup {Absent}, Push(Reads[m]) PROVE DetectNext
    <3>1. Reads[m] \in Nat BY ReadsType, Zenon
    <3> QED BY <2>1, <3>1, Zenon DEF DetectNext
  <2>2. Next => DetectNext BY <2>1, Zenon DEF Next, Sample
  <2>3. UNCHANGED tvars => UNCHANGED dvars BY DEF tvars
  <2> QED BY <2>2, <2>3, Zenon
<1> QED BY <1>1, <1>2, PTL DEF Spec, DetectSpec

(* So the promises of the detector hold of the whole trigger.               *)
THEOREM TriggerDetects == Spec => []DetectTypeOK /\ []EventsHaveCause /\ PeakIsOfThisEvent
BY TriggerFeedsDetector, DetectTypes, CauseTheorem, PeakTheorem, PTL

\* What is known of the last magnitude, and of the peaks.
Heard   == {Reads[m] : m \in DOMAIN Reads}
MagInv  == ground # Absent => ground \in Motion /\ mag = Reads[ground]
PeakInv == (det.in_event => crest \in Heard) /\ (ev.occurred => ev.peak \in Heard)

(* The master triggers on the motion the sensor read, for every motion, any *)
(* number of bits dropped and bytes of up to eight bits: what is packed is  *)
(* what is read, to the sign, and full scale when it is out of range.       *)
THEOREM MagnitudeTheorem == Spec => []MagnitudeIsMotion
<1>1. Init => MagInv BY Zenon DEF Init, MagInv
<1>2. MagInv /\ [Next]_tvars => MagInv'
  <2> SUFFICES ASSUME MagInv, [Next]_tvars PROVE MagInv' OBVIOUS
  <2>1. ASSUME NEW m \in Motion \cup {Absent}, ground' = m, Push(Reads[m]) PROVE MagInv'
    <3>1. mag' = Reads[m] BY <2>1, Zenon DEF Push
    <3> QED BY <2>1, <3>1, Zenon DEF MagInv
  <2>2. CASE UNCHANGED tvars BY <2>2 DEF MagInv, tvars, dvars
  <2> QED BY <2>1, <2>2, Zenon DEF Next, Sample
<1>3. MagInv => MagnitudeIsMotion BY ReadsMotion, Zenon DEF MagInv, MagnitudeIsMotion
<1> QED BY <1>1, <1>2, <1>3, PTL DEF Spec

\* What is heard is a natural number.
LEMMA HeardType == ASSUME NEW a \in Heard PROVE a \in Nat
<1>1. PICK m \in DOMAIN Reads : a = Reads[m] BY Zenon DEF Heard
<1>2. m \in Motion \cup {Absent} BY Zenon DEF Reads
<1> QED BY <1>1, <1>2, ReadsType, Zenon

\* The crest of an event is one of the magnitudes heard, and so is its peak.
LEMMA PeakStep ==
  ASSUME DetectInv, PeakInv, NEW a \in Heard, Push(a)
  PROVE  PeakInv'
<1>1. crest' \in Heard BY DEF Push, PeakInv, Larger
<1>2. ev'.occurred => ev'.peak = crest' BY HeardType, PushKeeps
<1>3. Heard' = Heard BY DEF Heard, Reads
<1> QED BY <1>1, <1>2, <1>3 DEF PeakInv

(* Every event the master puts on the air is read as it was or not at all:  *)
(* the frame gives back every value, and no burst of noise within two bytes *)
(* of it, the checksum included, makes another frame of it.                 *)
THEOREM TelemetryTheorem == Spec => []ReadOrRefused
<1>1. Init => PeakInv BY DEF Init, PeakInv, DetectInit, NqDetectInit, NoEvent
<1>2. DetectInv /\ PeakInv /\ [Next]_tvars => PeakInv'
  <2> SUFFICES ASSUME DetectInv, PeakInv, [Next]_tvars PROVE PeakInv' OBVIOUS
  <2>1. ASSUME NEW m \in Motion \cup {Absent}, Push(Reads[m]) PROVE PeakInv'
    <3>1. Reads[m] \in Heard BY Zenon DEF Heard, Reads
    <3> QED BY <2>1, <3>1, PeakStep
  <2>2. CASE UNCHANGED tvars BY <2>2 DEF PeakInv, Heard, Reads, tvars, dvars
  <2> QED BY <2>1, <2>2, Zenon DEF Next, Sample
<1>3. PeakInv => ReadOrRefused
  <2> SUFFICES ASSUME NEW peak \in Heard
               PROVE  /\ OnAir[peak].clean = Telemetry(peak)
                      /\ OnAir[peak].noisy \subseteq {Unreadable}
    BY Zenon DEF PeakInv, ReadOrRefused
  <2>1. peak \in Nat BY HeardType, Zenon
  <2>2. OnAir[peak] = Received(LoraPack(Telemetry(peak))) BY Zenon DEF OnAir, Heard
  <2>3. Telemetry(peak) \in Status BY <2>1, TelemetryType, Zenon
  <2> QED BY <2>2, <2>3, FrameTheorem, Zenon
<1> QED BY <1>1, <1>2, <1>3, TriggerFeedsDetector, DetectInvariant, PTL DEF Spec
=============================================================================
