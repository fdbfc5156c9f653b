------------------------------ MODULE TimeSync ------------------------------
(***************************************************************************)
(* Absolute time from a free-running clock, nic_timesync.c: every PPS edge *)
(* pairs the count of the fast clock with the time of the edge, and the    *)
(* time of any other count is read off the line through the last two       *)
(* pairs.  The clock wanders: a second has Nominal counts, give or take    *)
(* Wander, and an edge may be missed.                                      *)
(***************************************************************************)
EXTENDS Integers

CONSTANTS
  Second,     \* the units of time in a second: 1000000000 in the code
  Billion,    \* the unit of the measured drift: 1000000000 in the code
  Nominal,    \* nominal_hz
  Wander,     \* how many counts a second may have more or less
  MaxMissed,  \* bound: edges missed in a row
  MaxEdges    \* bound: edges taken

ASSUME TimeAssumption ==
  /\ Second \in Nat \ {0} /\ Billion \in Nat \ {0} /\ Nominal \in Nat \ {0}
  /\ Wander \in Nat /\ Wander < Nominal
  /\ MaxMissed \in Nat /\ MaxEdges \in Nat

VARIABLES
  t,      \* nic_timesync_t
  edges,  \* history: the edges taken
  again   \* history: the last edge was the one before, delivered twice

vars == <<t, edges, again>>

Abs(v) == IF v < 0 THEN -v ELSE v

\* C division: toward zero.
Quotient(v, d) == IF v < 0 THEN -((-v) \div d) ELSE v \div d

TimesyncInit == [a_ticks |-> 0, a_ns |-> 0, b_ticks |-> 0, b_ns |-> 0, anchors |-> 0]

\* A bug: the newer anchor is written before it is moved to the older slot.
BugAnchored(s, ticks, ns) ==
  [a_ticks |-> ticks, a_ns |-> ns, b_ticks |-> ticks, b_ns |-> ns,
   anchors |-> IF s.anchors < 2 THEN s.anchors + 1 ELSE 2]

\* A bug: the number of anchors is not held at two.
BugCounted(s, ticks, ns) ==
  [a_ticks |-> s.b_ticks, a_ns |-> s.b_ns, b_ticks |-> ticks, b_ns |-> ns,
   anchors |-> s.anchors + 1]

\* nic_timesync_anchor: the newer anchor becomes the older one.
Anchored(s, ticks, ns) ==
  [a_ticks |-> s.b_ticks, a_ns |-> s.b_ns, b_ticks |-> ticks, b_ns |-> ns,
   anchors |-> IF s.anchors < 2 THEN s.anchors + 1 ELSE 2]

\* A bug: the measured slope is taken upside down.
BugAlong(s, ticks) ==
  Quotient((ticks - s.b_ticks) * (s.b_ticks - s.a_ticks), s.b_ns - s.a_ns)

\* Time from the newer anchor to a count, along the measured slope.
Along(s, ticks) ==
  Quotient((ticks - s.b_ticks) * (s.b_ns - s.a_ns), s.b_ticks - s.a_ticks)

Resolve(s, ticks) ==
  CASE s.anchors = 2 /\ s.a_ticks = s.b_ticks -> s.b_ns
    [] s.anchors = 2 /\ s.a_ticks # s.b_ticks -> s.b_ns + Along(s, ticks)
    [] s.anchors = 1 -> s.b_ns + Quotient((ticks - s.b_ticks) * Second, Nominal)
    [] s.anchors = 0 -> 0

\* A bug: the anchors are taken to be one second apart.
BugDriftPpb(s) ==
  IF s.anchors < 2 \/ s.b_ns <= s.a_ns THEN 0
  ELSE Quotient((s.b_ticks - s.a_ticks - Nominal) * Billion, Nominal)

\* What the clock is found to run fast, in parts per Billion.
DriftPpb(s) ==
  IF s.anchors < 2 \/ s.b_ns <= s.a_ns THEN 0
  ELSE LET hz == Quotient((s.b_ticks - s.a_ticks) * Second, s.b_ns - s.a_ns)
       IN  Quotient((hz - Nominal) * Billion, Nominal)

Init == t = TimesyncInit /\ edges = 0 /\ again = FALSE

\* The counts that n seconds may take.
Counts(n) == (n * (Nominal - Wander))..(n * (Nominal + Wander))

\* An edge, after up to MaxMissed of them went by; the first may come at any
\* count of the clock.
Pps == /\ edges < MaxEdges
       /\ \E n \in 1..(MaxMissed + 1), first \in {0, 5} :
            \E c \in Counts(n) :
              LET ticks == IF t.anchors = 0 THEN first ELSE t.b_ticks + c
                  ns    == IF t.anchors = 0 THEN Second ELSE t.b_ns + n * Second
              IN  t' = Anchored(t, ticks, ns)
       /\ edges' = edges + 1 /\ again' = FALSE

\* An edge that is delivered twice.
PpsAgain == /\ edges < MaxEdges /\ t.anchors > 0
            /\ t' = Anchored(t, t.b_ticks, t.b_ns)
            /\ edges' = edges + 1 /\ again' = TRUE

Next == Pps \/ PpsAgain
Spec == Init /\ [][Next]_vars
----------------------------------------------------------------------------
TypeOK ==
  /\ t \in [a_ticks : Nat, a_ns : Nat, b_ticks : Nat, b_ns : Nat, anchors : 0..2]
  /\ edges \in Nat /\ again \in BOOLEAN

Measured == t.anchors = 2 /\ ~again

(* The line goes through both anchors, and the counts between them get times *)
(* between theirs, in order, although the division truncates toward zero and *)
(* is taken backwards from the newer one (nic_timesync_resolve).            *)
AnchoredTime ==
  Measured => /\ Resolve(t, t.a_ticks) = t.a_ns /\ Resolve(t, t.b_ticks) = t.b_ns
              /\ \A k \in t.a_ticks..(t.b_ticks - 1) : Resolve(t, k) <= Resolve(t, k + 1)

(* Time steps at an edge, maybe backwards, by what the clock can have changed *)
(* its rate since the anchors before, and no more, however many edges went   *)
(* by; only after an edge that came twice has it stood still instead.       *)
Elapsed == t'.b_ns - t.b_ns
StepIsBounded ==
  [][t.anchors > 0 /\ ~again' =>
       Abs(t'.b_ns - Resolve(t, t'.b_ticks)) <=
         IF again /\ t.anchors = 2 THEN Elapsed
         ELSE 1 + (Elapsed * 2 * Wander) \div (Nominal - Wander)]_vars

(* The drift that is reported has the sign of the drift there is, and is    *)
(* none beyond what the clock may wander (nic_timesync_drift_ppb).          *)
DriftIsReal ==
  Measured => LET s == (t.b_ns - t.a_ns) \div Second
                  c == t.b_ticks - t.a_ticks
                  d == DriftPpb(t)
              IN  /\ d > 0 => c > s * Nominal
                  /\ d < 0 => c < s * Nominal
                  /\ Abs(c - s * Nominal) >= s => d # 0
                  /\ Abs(d) * Nominal <= Wander * Billion
=============================================================================
