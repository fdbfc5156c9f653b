------------------------------ MODULE NqDetect ------------------------------
(***************************************************************************)
(* The STA/LTA event detector of nq_detect.c, fed one magnitude after the  *)
(* other.  Both averages are fixed-point numbers, Unit to the count        *)
(* (1 << 8), and the shifts of the code are divisions that round down.     *)
(***************************************************************************)
EXTENDS Integers

CONSTANTS
  Unit,        \* 1 << 8
  StaSpan,     \* 1 << NQ_DET_STA_SHIFT
  LtaSpan,     \* 1 << NQ_DET_LTA_SHIFT, also the length of the warm-up
  OnRatio,     \* NQ_DET_ON_RATIO
  OffRatio,    \* NQ_DET_OFF_RATIO
  StrongPeak   \* NQ_DET_STRONG_PEAK

ASSUME DetectAssumption ==
  /\ Unit \in Nat \ {0} /\ StaSpan \in Nat \ {0} /\ LtaSpan \in Nat \ {0}
  /\ OnRatio \in Nat \ {0} /\ OffRatio \in Nat \ {0} /\ StrongPeak \in Nat

VARIABLES
  det,     \* s_det
  ev,      \* what the last push returned
  mag,     \* history: the last magnitude pushed
  low,     \* history: the smallest since the start, -1 before the first
  high,    \* history: the largest since the start
  crest    \* history: the largest since the event began

dvars == <<det, ev, mag, low, high, crest>>

NoEvent == [occurred |-> FALSE, peak |-> 0, strong |-> FALSE]

Larger(a, b)  == IF a < b THEN b ELSE a
Smaller(a, b) == IF a < b THEN a ELSE b

\* A bug: the average runs away from the sample.
BugToward(avg, x, n) == avg + (avg - x) \div n

\* One step of an exponential average with a span of n samples.
Toward(avg, x, n) == avg + (x - avg) \div n

NqDetectInit == [sta |-> 0, lta |-> Unit, peak |-> 0, in_event |-> FALSE,
                 primed |-> FALSE, warmup |-> LtaSpan]

\* The first sample seeds both averages, so that their ratio starts at one.
Primed(d, a) ==
  IF d.primed THEN d
  ELSE [d EXCEPT !.sta = a * Unit, !.lta = Larger(a * Unit, Unit), !.primed = TRUE]

\* A bug: the long average may fall to nothing.
BugFloorless(d, a) ==
  [d EXCEPT !.sta = Toward(d.sta, a * Unit, StaSpan),
            !.lta = IF d.in_event THEN d.lta ELSE Toward(d.lta, a * Unit, LtaSpan)]

\* A bug: an event freezes both averages.
BugAveraged(d, a) ==
  IF d.in_event THEN d
  ELSE [d EXCEPT !.sta = Toward(d.sta, a * Unit, StaSpan),
                 !.lta = Larger(Toward(d.lta, a * Unit, LtaSpan), Unit)]

\* The long average stands still during an event.
Averaged(d, a) ==
  [d EXCEPT !.sta = Toward(d.sta, a * Unit, StaSpan),
            !.lta = IF d.in_event THEN d.lta ELSE Larger(Toward(d.lta, a * Unit, LtaSpan), Unit)]

Triggers(d) == ~d.in_event /\ d.sta > d.lta * OnRatio
Releases(d) == d.in_event  /\ d.sta < d.lta * OffRatio

\* A bug: the peak of the last event is carried into the next.
BugPeaked(d, a) == IF d.in_event \/ Triggers(d) THEN Larger(d.peak, a) ELSE d.peak

\* The peak of an event starts over with the sample that triggers it.
Peaked(d, a) == IF d.in_event THEN Larger(d.peak, a) ELSE IF Triggers(d) THEN a ELSE d.peak

\* nq_detect_push, once the averages are those of d: the event goes on, begins
\* or ends, and the end is what the push returns.
After(d, a) == [d EXCEPT !.peak = Peaked(d, a),
                         !.in_event = Triggers(d) \/ (d.in_event /\ ~Releases(d))]
Report(d, a) == IF Releases(d)
                THEN [occurred |-> TRUE, peak |-> Peaked(d, a),
                      strong |-> Peaked(d, a) >= StrongPeak]
                ELSE NoEvent

DetectInit ==
  /\ det = NqDetectInit /\ ev = NoEvent
  /\ mag = 0 /\ low = -1 /\ high = 0 /\ crest = 0

\* The ratio is not trusted before the long average has settled.
Push(a) ==
  LET d == Averaged(Primed(det, a), a)
  IN  /\ \/ /\ d.warmup > 0
            /\ det' = [d EXCEPT !.warmup = d.warmup - 1]
            /\ ev' = NoEvent
         \/ /\ d.warmup = 0
            /\ det' = After(d, a)
            /\ ev' = Report(d, a)
      /\ mag' = a
      /\ low' = IF low = -1 THEN a ELSE Smaller(low, a)
      /\ high' = Larger(high, a)
      /\ crest' = IF det.in_event THEN Larger(crest, a) ELSE a

DetectNext == \E a \in Nat : Push(a)
DetectSpec == DetectInit /\ [][DetectNext]_dvars
----------------------------------------------------------------------------
DetectTypeOK ==
  /\ det \in [sta : Nat, lta : Nat, peak : Nat, in_event : BOOLEAN,
              primed : BOOLEAN, warmup : 0..LtaSpan]
  /\ ev \in [occurred : BOOLEAN, peak : Nat, strong : BOOLEAN]
  /\ mag \in Nat /\ low \in Nat \cup {-1} /\ high \in Nat /\ crest \in Nat

(* No event without cause: whatever the ground did, an event means that     *)
(* some sample was more than OnRatio times the smallest one since the start *)
(* (nq_detect.c:15-19 seeds the averages, 20-24 keep them in range).        *)
(* Gravity is in every sample, so it takes more than four g to trigger.     *)
EventsHaveCause == det.in_event => high > OnRatio * Larger(low, 1)

(* The peak that is reported is that of the event that ends, from the       *)
(* sample that triggered it on, and of no earlier one; its class follows.   *)
PeakIsOfThisEvent ==
  [][ev'.occurred => /\ det.in_event /\ ~det'.in_event
                     /\ ev'.peak = crest'
                     /\ ev'.strong = (crest' >= StrongPeak)]_dvars

(* An event that never ends has a reason to go on: the long average is      *)
(* frozen (nq_detect.c:21), and the ground comes back to OffRatio times it  *)
(* again and again.                                                         *)
Shaken    == \E a \in {mag}, l \in {det.lta} : a * Unit >= l * OffRatio
EventsEnd == []<>(det.in_event => Shaken)
=============================================================================
