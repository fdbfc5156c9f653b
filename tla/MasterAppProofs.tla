-------------------------- MODULE MasterAppProofs --------------------------
EXTENDS MasterApp, NicMasterProofs

(* AssignedSoFar with the types it rests on.                               *)
AppInv == /\ nodes \in Table
          /\ mrx \in Incoming \cup {None}
          /\ poll \in Nat \ {0}
          /\ mpc \in Phase
          /\ AssignedSoFar

\* What a received frame can be, by its kind.
LEMMA FrameKinds ==
  ASSUME NEW f \in Incoming
  PROVE  /\ f.kind = "ctrl" => f \in Reply
         /\ f.kind = "data" => f.index \in 0..(IndexMod - 1)
<1>1. CASE f \in Reply
  <2>1. f.kind = "ctrl" BY <1>1 DEF Reply, CtrlFrame
  <2> QED BY <1>1, <2>1
<1>2. CASE f \in Data
  BY <1>2 DEF Data, DataFrame
<1>3. ASSUME NEW g \in Data, NEW a \in Station, f = Damaged(g, a) PROVE f.kind = "data"
  BY <1>3 DEF Data, DataFrame, Damaged
<1>4. ASSUME NEW g \in Data, NEW a \in Station, f = Damaged(g, a)
      PROVE  f.index \in 0..(IndexMod - 1)
  BY <1>4, FrameIndex
<1>5. CASE f = Undecodable
  BY <1>5 DEF Undecodable
<1> QED BY <1>1, <1>2, <1>3, <1>4, <1>5 DEF Incoming

LEMMA CtrlStep ==
  ASSUME AppInv, mrx # None, mrx.kind = "ctrl", OnCtrl(mrx)
  PROVE  /\ nodes' \in Table
         /\ OneEntryPerStation => OneEntryPerStation'
<1>1. mrx \in Reply BY FrameKinds DEF AppInv
<1>2. nodes' = Controlled(nodes, mrx) BY DEF OnCtrl
<1> QED BY <1>1, <1>2, ControlledTable DEF AppInv, OneEntryPerStation

LEMMA StepInPlace ==
  ASSUME nodes \in Table, InPlace(nodes, nodes')
  PROVE  /\ nodes' \in Table
         /\ OneEntryPerStation => OneEntryPerStation'
BY InPlaceKeepsDistinct DEF InPlace, OneEntryPerStation

LEMMA SlotStep ==
  ASSUME AppInv, Assign
  PROVE  /\ nodes' \in Table /\ Len(nodes') = Len(nodes)
         /\ \A i \in 1..poll : nodes'[i].addr = i
<1> USE DEF AppInv, Table
<1>1. poll \in 1..Len(nodes) /\ poll \in Station /\ mpc = "assign"
  BY MasterAssumption DEF Assign, At
<1>2. nodes' = [nodes EXCEPT ![poll] = [nodes[poll] EXCEPT !.addr = poll]]
  BY DEF Assign, SlotTable
<1>3. nodes[poll] \in Entry BY <1>1
<1>4. [nodes[poll] EXCEPT !.addr = poll] \in Entry BY <1>1, <1>3 DEF Entry
<1>5. /\ nodes' \in Seq(Entry) /\ Len(nodes') = Len(nodes)
      /\ \A j \in 1..Len(nodes) :
           nodes'[j] = IF j = poll THEN [nodes[poll] EXCEPT !.addr = poll] ELSE nodes[j]
  BY <1>1, <1>2, <1>4, ExceptSeq
<1>6. \A i \in 1..(poll - 1) : nodes[i].addr = i BY <1>1 DEF AssignedSoFar
<1>7. [nodes[poll] EXCEPT !.addr = poll].addr = poll BY <1>3 DEF Entry
<1>8. \A i \in 1..poll : nodes'[i].addr = i
  <2> SUFFICES ASSUME NEW i \in 1..poll PROVE nodes'[i].addr = i
    OBVIOUS
  <2>1. i \in 1..Len(nodes) BY <1>1
  <2>2. CASE i = poll BY <1>5, <1>7, <2>1, <2>2
  <2>3. CASE i # poll
    <3>1. i \in 1..(poll - 1) BY <2>3
    <3>2. nodes'[i] = nodes[i] BY <1>5, <2>1, <2>3
    <3> QED BY <1>6, <3>1, <3>2
  <2> QED BY <2>2, <2>3
<1> QED BY <1>5, <1>8

\* Two kinds of step that leave AssignedSoFar as it is: one of the discovery,
\* and one of the run loop.
LEMMA DiscoveryStep ==
  ASSUME AppInv, nodes' \in Table, OneEntryPerStation => OneEntryPerStation',
         mpc \in {"discover", "await_status", "await_type"},
         mpc' \in {"discover", "await_status", "await_type"},
         poll' \in {poll, poll + 1}, mrx' \in {mrx, None}
  PROVE  AppInv'
<1>1. OneEntryPerStation' BY DEF AppInv, AssignedSoFar
<1>2. ~Running' /\ mpc' \notin {"assign", "clock", "sync", "start"} BY DEF Running
<1>3. AssignedSoFar' BY <1>1, <1>2 DEF AssignedSoFar
<1>4. poll' \in Nat \ {0} BY DEF AppInv
<1>5. mpc' \in Phase BY DEF Phase
<1>6. mrx' \in Incoming \cup {None} BY DEF AppInv
<1> QED BY <1>3, <1>4, <1>5, <1>6 DEF AppInv

LEMMA RunStep ==
  ASSUME AppInv, nodes' \in Table, OneEntryPerStation => OneEntryPerStation',
         Running, mpc' \in {"top", "ticked", "recv", "silent"},
         UNCHANGED poll, mrx' \in {mrx, None}
  PROVE  AppInv'
<1>1. OneEntryPerStation' BY DEF AppInv, AssignedSoFar
<1>2. mpc' \notin {"assign", "clock", "sync", "start"} OBVIOUS
<1>3. AssignedSoFar' BY <1>1, <1>2 DEF AssignedSoFar
<1>4. poll' \in Nat \ {0} BY DEF AppInv
<1>5. mpc' \in Phase BY DEF Phase
<1>6. mrx' \in Incoming \cup {None} BY DEF AppInv
<1> QED BY <1>3, <1>4, <1>5, <1>6 DEF AppInv

LEMMA AppStep ==
  ASSUME AppInv, [Next]_mvars
  PROVE  AppInv'
<1>0. nodes \in Table BY DEF AppInv
<1>1. CASE Discover
  <2>1. /\ mpc = "discover" /\ mpc' = "await_status"
        /\ UNCHANGED <<poll, mrx, nodes>>
    BY <1>1 DEF Discover, At, table
  <2>2. OneEntryPerStation => OneEntryPerStation' BY <2>1 DEF OneEntryPerStation
  <2> QED BY <1>0, <2>1, <2>2, DiscoveryStep
<1>2. CASE AwaitStatus
  <2>1. mpc = "await_status" BY <1>2 DEF AwaitStatus, At
  <2>2. nodes' \in Table /\ (OneEntryPerStation => OneEntryPerStation')
    <3>1. CASE Answer("STATUS")
      BY <1>2, <3>1, CtrlStep DEF AwaitStatus, Answer
    <3>2. CASE ~Answer("STATUS")
      BY <1>0, <1>2, <3>2 DEF AwaitStatus, OneEntryPerStation, table
    <3> QED BY <3>1, <3>2
  <2>3. mpc' \in {"await_type", "discover"} /\ poll' \in {poll, poll + 1} /\ mrx' = None
    BY <1>2 DEF AwaitStatus
  <2> QED BY <2>1, <2>2, <2>3, DiscoveryStep
<1>3. CASE AwaitType
  <2>1. mpc = "await_type" BY <1>3 DEF AwaitType, At
  <2>2. nodes' \in Table /\ (OneEntryPerStation => OneEntryPerStation')
    <3>1. CASE Answer("NODE_TYPE")
      BY <1>3, <3>1, CtrlStep DEF AwaitType, Answer
    <3>2. CASE ~Answer("NODE_TYPE")
      BY <1>0, <1>3, <3>2 DEF AwaitType, OneEntryPerStation, table
    <3> QED BY <3>1, <3>2
  <2>3. mpc' = "discover" /\ poll' = poll + 1 /\ mrx' = None
    BY <1>3 DEF AwaitType
  <2> QED BY <2>1, <2>2, <2>3, DiscoveryStep
<1>4. CASE Discovered
  <2>1. mpc' = "assign" /\ poll' = 1 /\ UNCHANGED <<mrx, nodes>>
    BY <1>4 DEF Discovered, bus, table
  <2>2. Len(nodes) \in Nat BY <1>0 DEF Table
  <2> QED BY <2>1, <2>2 DEF AppInv, Phase, AssignedSoFar, Running
<1>5. CASE Assign
  <2>1. mpc' = "assign" /\ poll' = poll + 1 /\ poll <= Len(nodes) /\ UNCHANGED mrx
    BY <1>5 DEF Assign, At
  <2>2. Len(nodes) \in Nat /\ poll \in Nat \ {0} BY <1>0 DEF Table, AppInv
  <2>3. \A i \in 1..(poll' - 1) : nodes'[i].addr = i BY <1>5, <2>1, <2>2, SlotStep
  <2>4. poll' <= Len(nodes') + 1 BY <1>5, <2>1, <2>2, SlotStep
  <2>5. AssignedSoFar' BY <2>1, <2>3, <2>4 DEF AssignedSoFar, Running
  <2>6. nodes' \in Table BY <1>5, SlotStep
  <2> QED BY <2>1, <2>5, <2>6 DEF AppInv, Phase
<1>6. CASE Assigned
  <2>1. /\ mpc = "assign" /\ mpc' = "clock" /\ poll > Len(nodes)
        /\ UNCHANGED <<mrx, poll, nodes>>
    BY <1>6 DEF Assigned, At, bus, table
  <2>2. DOMAIN nodes = 1..Len(nodes) /\ Len(nodes) \in Nat BY <1>0 DEF Table
  <2>3. \A i \in DOMAIN nodes : nodes[i].addr = i
    BY <2>1, <2>2 DEF AppInv, AssignedSoFar
  <2> QED BY <2>1, <2>3 DEF AppInv, Phase, AssignedSoFar, Running
<1>7. CASE ClockStart \/ SendSync
  BY <1>7 DEF ClockStart, SendSync, At, bus, table, AppInv, Phase, AssignedSoFar, Running
<1>8. CASE StartRun
  <2>1. mpc = "start" /\ mpc' = "top" /\ UNCHANGED <<mrx, poll, nodes>>
    BY <1>8 DEF StartRun, At, bus, table
  <2>2. Distinct(nodes) BY <2>1 DEF AppInv, AssignedSoFar, Distinct
  <2> QED BY <2>1, <2>2 DEF AppInv, Phase, AssignedSoFar, Running, OneEntryPerStation
<1>9. CASE Top
  <2>1. Running /\ mpc' \in {"ticked", "recv"} /\ UNCHANGED <<poll, mrx, nodes>>
    BY <1>9 DEF Top, At, table, Running
  <2>2. OneEntryPerStation => OneEntryPerStation' BY <2>1 DEF OneEntryPerStation
  <2> QED BY <1>0, <2>1, <2>2, RunStep
<1>10. CASE Ticked \/ RecvData \/ RecvCtrl \/ RecvNothing \/ SilentSlot
  <2>1. Running /\ mpc' \in {"recv", "silent", "top"} /\ UNCHANGED poll
        /\ mrx' \in {mrx, None}
    BY <1>10 DEF Ticked, RecvData, RecvCtrl, RecvNothing, SilentSlot, Received,
                 At, Running, bus
  <2>2. nodes' \in Table /\ (OneEntryPerStation => OneEntryPerStation')
    <3>1. CASE Ticked
      BY <1>0, <3>1, RebasedTable, StepInPlace DEF Ticked, OnTick
    <3>2. CASE RecvData
      <4>1. mrx.index \in 0..(IndexMod - 1) BY <3>2, FrameKinds DEF RecvData, AppInv
      <4> QED BY <1>0, <3>2, <4>1, IngestedTable, StepInPlace DEF RecvData, Ingest
    <3>3. CASE RecvCtrl
      BY <3>3, CtrlStep DEF RecvCtrl
    <3>4. CASE RecvNothing
      BY <1>0, <3>4 DEF RecvNothing, table, OneEntryPerStation
    <3>5. CASE SilentSlot
      <4>1. CASE UNCHANGED table
        BY <1>0, <4>1 DEF table, OneEntryPerStation
      <4>2. ASSUME NEW dead \in 1..MaxNodes, NodeLost(dead)
            PROVE  InPlace(nodes, nodes')
        BY <1>0, <4>2, LostTable DEF NodeLost
      <4> QED BY <1>0, <3>5, <4>1, <4>2, StepInPlace DEF SilentSlot
    <3> QED BY <1>10, <3>1, <3>2, <3>3, <3>4, <3>5
  <2> QED BY <2>1, <2>2, RunStep
<1>11. CASE SentOut \/ RtcTick \/ UNCHANGED mvars
  BY <1>11 DEF SentOut, RtcTick, mvars, bus, table, AppInv, AssignedSoFar, Running,
               OneEntryPerStation
<1>12. ASSUME NEW f \in Incoming, Arrives(f) PROVE AppInv'
  BY <1>12 DEF Arrives, table, AppInv, AssignedSoFar, Running, OneEntryPerStation
<1> QED
  BY <1>1, <1>2, <1>3, <1>4, <1>5, <1>6, <1>7, <1>8, <1>9, <1>10, <1>11, <1>12
  DEF Next, Application, Working

(* The assignment goes through the table in order and to its end, so that  *)
(* whatever discovery heard the run loop finds one entry per station.      *)
THEOREM AssignmentInOrder == Spec => []AssignedSoFar
<1>1. Init => AppInv
  BY EmptyTable
  DEF Init, AppInv, Phase, AssignedSoFar, Running, Table, TableTypeOK
<1>2. AppInv => AssignedSoFar
  BY DEF AppInv
<1> QED BY <1>1, <1>2, AppStep, PTL DEF Spec
----------------------------------------------------------------------------
(* The telemetry.  The accumulators count the events that are owed, and    *)
(* hold the largest of their peaks; a frame packed from them then says the *)
(* same of the events it reports, and leaves both empty.                   *)

Accounts ==
  /\ owed \in Peaks /\ told \in Peaks
  /\ events = Len(owed)
  /\ peak \in 0..MaxPeak /\ PeakOf(owed, peak)
  /\ netStatus \subseteq Flags
  /\ lora \in Telegram \cup {None}
  /\ EventsReportedOnce /\ PeakOfCountedEvents

Times == /\ rtc \in Second /\ now \in Second /\ lastSec \in Second
         /\ lastLora \in Second /\ lastStrong \in Second
         /\ clockOn \in BOOLEAN /\ suspect \in BOOLEAN

LEMMA AliveNodes ==
  ASSUME NEW t \in Table
  PROVE  Alive(t) \subseteq 1..MaxNodes
BY MasterAssumption DEF Alive, Table

LEMMA NoPeaks == <<>> \in Peaks /\ Len(<<>>) = 0 /\ PeakOf(<<>>, 0)
BY AppAssumption DEF Peaks, PeakOf

LEMMA TelemetryAccounts ==
  ASSUME NEW t \in Table, NEW o \in Peaks, NEW p \in 0..MaxPeak,
         NEW s \in SUBSET Flags, PeakOf(o, p), now \in Second,
         NEW e, e = Len(o), Telemetry(t, e, p, s), Reports(o)
  PROVE  Accounts'
<1> DEFINE f == [unix |-> now, events |-> e, peak |-> p, status |-> s, alive |-> Alive(t)]
<1>1. e \in 0..MaxOwed BY AppAssumption DEF Peaks
<1>2. f \in Telegram BY <1>1, AliveNodes DEF Telegram
<1>3. f.events = e /\ f.peak = p OBVIOUS
<1>4. /\ lora' = f /\ events' = 0 /\ peak' = 0 /\ netStatus' = {}
      /\ told' = o /\ owed' = <<>>
  BY DEF Telemetry, Reports
<1> HIDE DEF f
<1>5. /\ owed' \in Peaks /\ told' \in Peaks /\ events' = Len(owed')
      /\ PeakOf(owed', peak')
  BY <1>4, NoPeaks
<1>6. peak' \in 0..MaxPeak BY <1>4, AppAssumption
<1>7. lora'.events = Len(told') /\ PeakOf(told', lora'.peak) BY <1>3, <1>4
<1>8. EventsReportedOnce' /\ PeakOfCountedEvents'
  BY <1>7 DEF EventsReportedOnce, PeakOfCountedEvents, PeakOf
<1>9. PeakOf(owed, peak)' BY <1>5 DEF PeakOf
<1> QED BY <1>2, <1>4, <1>5, <1>6, <1>8, <1>9 DEF Accounts

\* One more event: the larger peak is the peak of them all.
LEMMA OneMoreEvent ==
  ASSUME NEW q \in Peaks, Len(q) < MaxOwed, NEW p \in 0..MaxPeak, PeakOf(q, p),
         NEW ev \in 1..MaxPeak
  PROVE  /\ Append(q, ev) \in Peaks /\ Len(Append(q, ev)) = Len(q) + 1
         /\ Larger(p, ev) \in 0..MaxPeak
         /\ PeakOf(Append(q, ev), Larger(p, ev))
<1> DEFINE u == Append(q, ev)
           m == Larger(p, ev)
<1>1. q \in Seq(1..MaxPeak) /\ Len(q) \in Nat BY DEF Peaks
<1>2. /\ u \in Seq(1..MaxPeak) /\ Len(u) = Len(q) + 1
      /\ u[Len(q) + 1] = ev /\ \A i \in 1..Len(q) : u[i] = q[i]
  BY <1>1
<1>3. u \in Peaks BY <1>1, <1>2, AppAssumption DEF Peaks
<1>4. m \in 0..MaxPeak /\ m >= p /\ m >= ev /\ m \in {p, ev}
  BY AppAssumption DEF Larger
<1>5. DOMAIN u = 1..(Len(q) + 1) /\ DOMAIN q = 1..Len(q) BY <1>1, <1>2
<1> HIDE DEF u, m
<1>6. \A i \in DOMAIN u : u[i] <= m
  <2> SUFFICES ASSUME NEW i \in DOMAIN u PROVE u[i] <= m
    OBVIOUS
  <2>1. CASE i = Len(q) + 1 BY <1>2, <1>4, <2>1
  <2>2. CASE i # Len(q) + 1
    <3>1. i \in 1..Len(q) BY <1>1, <1>5, <2>2
    <3>2. q[i] \in 1..MaxPeak
      <4> DEFINE S == 1..MaxPeak
      <4>1. q \in Seq(S) BY <1>1
      <4> HIDE DEF S
      <4>2. q[i] \in S BY <3>1, <4>1
      <4> QED BY <4>2 DEF S
    <3>4. q[i] <= p BY <1>5, <3>1 DEF PeakOf
    <3>3. u[i] = q[i] BY <1>2, <3>1
    <3> QED BY <1>4, <3>2, <3>3, <3>4, AppAssumption
  <2> QED BY <2>1, <2>2
<1>7. \E i \in DOMAIN u : u[i] = m
  <2>1. CASE m = ev
    <3>1. Len(q) + 1 \in DOMAIN u BY <1>1, <1>5
    <3> QED BY <1>2, <2>1, <3>1
  <2>2. CASE m # ev
    <3>1. m = p /\ p # 0 BY <1>4, <2>2, AppAssumption
    <3>2. PICK i \in DOMAIN q : q[i] = p BY <3>1 DEF PeakOf
    <3>3. i \in 1..Len(q) /\ i \in DOMAIN u BY <1>1, <1>5
    <3> QED BY <1>2, <3>1, <3>2, <3>3
  <2> QED BY <2>1, <2>2
<1>8. PeakOf(u, m) BY <1>6, <1>7 DEF PeakOf
<1> QED BY <1>2, <1>3, <1>4, <1>8 DEF u, m

LEMMA TriggerAccounts ==
  ASSUME Accounts, now \in Second, nodes' \in Table,
         NEW a, NEW s \in StatusByte, NEW ev \in Detection,
         ev # 0 => Len(owed) < MaxOwed, Trigger(a, s, ev)
  PROVE  Accounts'
<1> DEFINE q == netStatus \cup s
           p == Larger(peak, ev)
           all == Append(owed, ev)
<1>1. q \in SUBSET Flags BY DEF Accounts, Flags
<1>2. CASE a # nodes[1].addr \/ ev = 0
  <2>1. netStatus' = q /\ UNCHANGED <<events, peak, lora, history>>
    BY <1>2 DEF Trigger
  <2> HIDE DEF q
  <2> QED BY <1>1, <2>1 DEF Accounts, EventsReportedOnce, PeakOfCountedEvents, PeakOf, history
<1>3. CASE ~(a # nodes[1].addr \/ ev = 0)
  <2>1. ev \in 1..MaxPeak BY <1>3 DEF Detection
  <2>2. /\ all \in Peaks /\ Len(all) = Len(owed) + 1
        /\ p \in 0..MaxPeak /\ PeakOf(all, p)
    BY <1>3, <2>1, OneMoreEvent DEF Accounts
  <2>3. events + 1 = Len(all) BY <2>2 DEF Accounts
  <2>4. CASE ev >= StrongPeak /\ Elapsed(lastStrong) >= StrongCooldown
    <3>1. Telemetry(nodes', events + 1, p, q) /\ Reports(all)
      BY <1>3, <2>4 DEF Trigger
    <3> HIDE DEF p, q, all
    <3> QED BY <1>1, <2>2, <2>3, <3>1, TelemetryAccounts
  <2>5. CASE ~(ev >= StrongPeak /\ Elapsed(lastStrong) >= StrongCooldown)
    <3>1. /\ events' = events + 1 /\ owed' = all /\ UNCHANGED told
          /\ peak' = p /\ netStatus' = q /\ UNCHANGED lora
      BY <1>3, <2>5 DEF Trigger
    <3> HIDE DEF p, q, all
    <3>2. owed' \in Peaks /\ events' = Len(owed') BY <2>2, <2>3, <3>1
    <3>3. peak' \in 0..MaxPeak /\ PeakOf(owed', peak') BY <2>2, <3>1
    <3>4. PeakOf(owed, peak)' BY <3>3 DEF PeakOf
    <3>5. netStatus' \subseteq Flags BY <1>1, <3>1
    <3> QED BY <3>1, <3>2, <3>3, <3>4, <3>5
            DEF Accounts, EventsReportedOnce, PeakOfCountedEvents, PeakOf
  <2> QED BY <2>4, <2>5
<1> QED BY <1>2, <1>3

LEMMA AccountsStep ==
  ASSUME AppInv', Accounts, Times, [Next]_mvars
  PROVE  Accounts'
<1>0. nodes' \in Table BY DEF AppInv
<1>1. ASSUME UNCHANGED lcd PROVE Accounts'
  BY <1>1 DEF lcd, history, Accounts, EventsReportedOnce, PeakOfCountedEvents, PeakOf
<1>2. CASE Ticked
  <2>1. CASE Elapsed(lastLora) >= LoraPeriod
    <3>1. Telemetry(nodes', events, peak, netStatus) /\ Reports(owed)
      BY <1>2, <2>1 DEF Ticked
    <3> QED BY <1>0, <3>1, TelemetryAccounts DEF Accounts, Times
  <2>2. CASE ~(Elapsed(lastLora) >= LoraPeriod)
    <3>1. UNCHANGED <<events, peak, netStatus, lora, history>> BY <1>2, <2>2 DEF Ticked
    <3> QED BY <3>1 DEF history, Accounts, EventsReportedOnce, PeakOfCountedEvents, PeakOf
  <2> QED BY <2>1, <2>2
<1>3. CASE RecvData
  <2>1. CASE IngestResult(nodes, mrx) = "OK"
    <3>1. PICK s \in StatusByte, ev \in Detection :
            (ev # 0 => Len(owed) < MaxOwed) /\ Trigger(mrx.station, s, ev)
      BY <1>3, <2>1 DEF RecvData
    <3> QED BY <1>0, <3>1, TriggerAccounts DEF Times
  <2>2. CASE IngestResult(nodes, mrx) # "OK"
    BY <1>1, <1>3, <2>2 DEF RecvData
  <2> QED BY <2>1, <2>2
<1>4. CASE StartRun
  <2>1. UNCHANGED <<events, peak, netStatus, lora, history>> BY <1>4 DEF StartRun
  <2> QED BY <2>1 DEF history, Accounts, EventsReportedOnce, PeakOfCountedEvents, PeakOf
<1>5. CASE Discover \/ AwaitStatus \/ AwaitType \/ Discovered \/ Assign \/ Assigned
           \/ ClockStart \/ SendSync
  BY <1>1, <1>5 DEF Discover, AwaitStatus, AwaitType, Discovered, Assign, Assigned,
                    ClockStart, SendSync
<1>6. CASE Top \/ RecvCtrl \/ RecvNothing \/ SilentSlot \/ SentOut \/ RtcTick
  BY <1>1, <1>6 DEF Top, RecvCtrl, RecvNothing, SilentSlot, SentOut, RtcTick
<1>7. ASSUME NEW f \in Incoming, Arrives(f) PROVE Accounts'
  BY <1>1, <1>7 DEF Arrives
<1>8. CASE UNCHANGED mvars
  BY <1>1, <1>8 DEF mvars
<1> QED BY <1>2, <1>3, <1>4, <1>5, <1>6, <1>7, <1>8 DEF Next, Application, Working

LEMMA TimesStep ==
  ASSUME Times, [Next]_mvars
  PROVE  Times'
<1>1. ASSUME UNCHANGED <<clockOn, suspect, secs, lastLora, lastStrong>> PROVE Times'
  BY <1>1 DEF secs, Times
<1>2. CASE RtcTick
  <2>1. (rtc + 1) % SecMod \in Second BY AppAssumption DEF Times, Second
  <2> QED BY <1>2, <2>1 DEF RtcTick, Times, lcd
<1>3. CASE RecvData
  <2>1. UNCHANGED <<clockOn, suspect, secs>> BY <1>3 DEF RecvData, Received
  <2>2. lastLora' \in {lastLora, now} /\ lastStrong' \in {lastStrong, now}
    <3>1. CASE IngestResult(nodes, mrx) = "OK"
      <4>1. PICK s \in StatusByte, ev \in Detection : Trigger(mrx.station, s, ev)
        BY <1>3, <3>1 DEF RecvData
      <4> QED BY <4>1 DEF Trigger
    <3>2. CASE IngestResult(nodes, mrx) # "OK"
      BY <1>3, <3>2 DEF RecvData, lcd
    <3> QED BY <3>1, <3>2
  <2> QED BY <2>1, <2>2 DEF Times, secs
<1>4. CASE StartRun
  BY <1>4 DEF StartRun, Times
<1>5. CASE Top
  BY <1>5 DEF Top, Times, lcd
<1>6. CASE Ticked
  BY <1>6 DEF Ticked, Times
<1>7. CASE SilentSlot
  <2>1. suspect' \in BOOLEAN BY <1>7 DEF SilentSlot, Times, AllLost
  <2> QED BY <1>7, <2>1 DEF SilentSlot, Times, lcd, secs
<1>8. CASE ClockStart
  BY <1>8 DEF ClockStart, Times, lcd, secs
<1>9. CASE Discover \/ AwaitStatus \/ AwaitType \/ Discovered \/ Assign \/ Assigned
           \/ SendSync \/ RecvCtrl \/ RecvNothing \/ SentOut
  BY <1>1, <1>9 DEF Discover, AwaitStatus, AwaitType, Discovered, Assign, Assigned,
                    SendSync, RecvCtrl, RecvNothing, SentOut, Received, lcd
<1>10. ASSUME NEW f \in Incoming, Arrives(f) PROVE Times'
  BY <1>1, <1>10 DEF Arrives, lcd
<1>11. CASE UNCHANGED mvars
  BY <1>1, <1>11 DEF mvars, lcd
<1> QED BY <1>2, <1>3, <1>4, <1>5, <1>6, <1>7, <1>8, <1>9, <1>10, <1>11
        DEF Next, Application, Working

LEMMA AccountsInit == Init => Accounts /\ Times
<1> SUFFICES ASSUME Init PROVE Accounts /\ Times
  OBVIOUS
<1>1. 0 \in Second /\ 0 \in 0..MaxOwed /\ 0 \in 0..MaxPeak BY AppAssumption DEF Second
<1>2. clockOn \in BOOLEAN /\ suspect \in BOOLEAN BY DEF Init
<1>3. Accounts
  BY <1>1, NoPeaks DEF Init, Accounts, EventsReportedOnce, PeakOfCountedEvents
<1>4. rtc \in Second /\ now \in Second /\ lastSec \in Second
  BY <1>1 DEF Init
<1>5. lastLora \in Second /\ lastStrong \in Second BY <1>1 DEF Init
<1> QED BY <1>2, <1>3, <1>4, <1>5 DEF Times

LEMMA AccountsHold == Spec => [](Accounts /\ Times)
<1>1. Init => AppInv
  BY EmptyTable
  DEF Init, AppInv, Phase, AssignedSoFar, Running, Table, TableTypeOK
<1>2. AppInv /\ Accounts /\ Times /\ [Next]_mvars => (AppInv /\ Accounts /\ Times)'
  BY AppStep, AccountsStep, TimesStep
<1> QED BY <1>1, <1>2, AccountsInit, PTL DEF Spec

(* What a frame packs as its count is the number of events since the frame *)
(* before it, whatever is detected and whenever a frame is due.            *)
THEOREM EventsTheorem == Spec => []EventsReportedOnce
<1>1. Accounts /\ Times => EventsReportedOnce
  BY DEF Accounts
<1> QED BY <1>1, AccountsHold, PTL

(* The peak a frame packs is the largest of just these events, for any     *)
(* peaks in any order.                                                     *)
THEOREM PeakTheorem == Spec => []PeakOfCountedEvents
<1>1. Accounts /\ Times => PeakOfCountedEvents
  BY DEF Accounts
<1> QED BY <1>1, AccountsHold, PTL
----------------------------------------------------------------------------
(* The types, of the loop counter above all: it indexes the table.         *)

Counted == /\ poll \in 1..(MaxNodes + 1)
           /\ mpc \in {"await_status", "await_type"} => poll <= MaxNodes
           /\ tokenIdx \in 0..(MaxNodes - 1)

LEMMA CountedStep ==
  ASSUME AppInv, Counted, [Next]_mvars
  PROVE  Counted'
<1>0. MaxNodes \in Nat \ {0} BY MasterAssumption
<1>1. ASSUME UNCHANGED <<poll, tokenIdx>>, mpc' \notin {"await_status", "await_type"}
      PROVE  Counted'
  BY <1>1 DEF Counted
<1>2. CASE Discover
  BY <1>0, <1>2 DEF Discover, At, Counted, table
<1>3. CASE AwaitStatus
  BY <1>0, <1>3 DEF AwaitStatus, At, OnCtrl, Counted, table
<1>4. CASE AwaitType
  BY <1>0, <1>4 DEF AwaitType, At, OnCtrl, Counted, table
<1>5. CASE Discovered
  BY <1>0, <1>5 DEF Discovered, Counted, table
<1>6. CASE Assign
  <2>1. Len(nodes) <= MaxNodes /\ Len(nodes) \in Nat BY DEF AppInv, Table
  <2> QED BY <1>0, <1>6, <2>1 DEF Assign, At, Counted
<1>7. CASE Assigned \/ ClockStart \/ SendSync \/ StartRun \/ Top
  BY <1>1, <1>7 DEF Assigned, ClockStart, SendSync, StartRun, Top, table
<1>8. CASE Ticked \/ RecvData \/ RecvCtrl \/ RecvNothing
  BY <1>1, <1>8 DEF Ticked, RecvData, RecvCtrl, RecvNothing, Received, OnTick, Ingest,
                    OnCtrl, table
<1>9. CASE SilentSlot
  BY <1>1, <1>9 DEF SilentSlot, NodeLost, table
<1>10. CASE SentOut \/ RtcTick \/ UNCHANGED mvars
  BY <1>10 DEF SentOut, RtcTick, mvars, Counted, table
<1>11. ASSUME NEW f \in Incoming, Arrives(f) PROVE Counted'
  BY <1>11 DEF Arrives, Counted, table
<1> QED BY <1>2, <1>3, <1>4, <1>5, <1>6, <1>7, <1>8, <1>9, <1>10, <1>11
        DEF Next, Application, Working

(* Every variable of the application keeps its type, for any number of     *)
(* nodes, any width of a second and any load of events.                    *)
THEOREM AppTypes == Spec => []AppTypeOK
<1>1. Init => AppInv /\ Counted
  BY EmptyTable, MasterAssumption
  DEF Init, AppInv, Phase, AssignedSoFar, Running, Table, TableTypeOK, Counted
<1>2. AppInv /\ Counted /\ [Next]_mvars => (AppInv /\ Counted)'
  BY AppStep, CountedStep
<1>3. AppInv /\ Counted /\ Accounts /\ Times => AppTypeOK
  <2>1. Accounts => events \in 0..MaxOwed BY AppAssumption DEF Accounts, Peaks
  <2> QED BY <2>1 DEF AppInv, Counted, Accounts, Times, AppTypeOK, Table, TableTypeOK
<1> QED BY <1>1, <1>2, <1>3, AccountsHold, PTL DEF Spec
=============================================================================
