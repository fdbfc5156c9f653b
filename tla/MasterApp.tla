----------------------------- MODULE MasterApp -----------------------------
(***************************************************************************)
(* The master application, master/main_app.c: discovery by hardware        *)
(* number, slot assignment, the start of the network and the run loop with *)
(* its TICK, its ingest, its silent slots and its LoRa telemetry.          *)
(*                                                                         *)
(* mtx is the control frame board_master_send is putting on the bus; the   *)
(* loop goes on when it is out.  mrx is the frame board_master_recv will   *)
(* return, None in a silent window.                                        *)
(***************************************************************************)
EXTENDS NicMaster

CONSTANTS
  SecMod,        \* 2^32 in the code: the width of an RTC second
  LoraPeriod,    \* LORA_PERIOD_S
  StrongCooldown,\* STRONG_COOLDOWN_S
  MaxPeak,       \* the peaks an event may have, 1..MaxPeak
  StrongPeak,    \* NQ_DET_STRONG_PEAK
  StatusByte,    \* what a sample's status byte may hold: sets of flags
  MaxOwed,       \* bound: events between two telemetry frames
  None           \* no frame

ASSUME AppAssumption ==
  /\ SecMod \in Nat \ {0} /\ LoraPeriod \in Nat /\ StrongCooldown \in Nat
  /\ MaxPeak \in Nat /\ StrongPeak \in Nat /\ MaxOwed \in Nat
  /\ "NODE_TYPE" \in QueryOp

Second == 0..(SecMod - 1)
Flags  == UNION StatusByte

VARIABLES
  mpc,        \* where the application is
  poll,       \* the loop counter of discovery, then of the assignment
  mtx, mrx,   \* the bus, see above
  clockOn,    \* the 8.192 MHz oscillator is gated onto the clock pair
  rtc,        \* the RTC, in seconds
  now,        \* the second read at the top of the run loop
  lastSec, lastLora, lastStrong,   \* last_sec, last_lora, s_last_strong
  events, peak, netStatus,         \* s_events, s_peak, s_net_status
  lora,       \* s_lora_frame, None while s_lora_len = 0
  suspect,    \* board_master_clock_suspect has been called
  owed, told  \* history, read by no action: the peaks of the events detected since
              \* the last telemetry frame, and of those between the last two

history == <<owed, told>>
lcd    == <<lastLora, lastStrong, events, peak, netStatus, lora, history>>
secs   == <<rtc, now, lastSec>>
bus    == <<mtx, mrx>>
mvars  == <<mpc, poll, bus, clockOn, secs, lcd, suspect, table>>

Phase == {"discover", "await_status", "await_type", "assign", "clock", "sync",
          "start", "top", "ticked", "recv", "silent"}
Running == mpc \in {"top", "ticked", "recv", "silent"}

Init ==
  /\ mpc = "discover" /\ poll = 1
  /\ mtx = None /\ mrx = None
  /\ clockOn = FALSE
  /\ rtc \in Second /\ now = 0 /\ lastSec = 0
  /\ lastLora = 0 /\ lastStrong = 0
  /\ events = 0 /\ peak = 0 /\ netStatus = {} /\ lora = None
  /\ suspect = FALSE /\ owed = <<>> /\ told = <<>>
  /\ TableInit

\* A reset of the MCU zeroes every static and starts over; the RTC has its own
\* supply (a DS3231) or is set by NTP.
PowerUp ==
  /\ mpc' = "discover" /\ poll' = 1
  /\ mtx' = None /\ mrx' = None
  /\ clockOn' = FALSE
  /\ now' = 0 /\ lastSec' = 0
  /\ lastLora' = 0 /\ lastStrong' = 0
  /\ events' = 0 /\ peak' = 0 /\ netStatus' = {} /\ lora' = None
  /\ suspect' = FALSE /\ owed' = <<>> /\ told' = <<>>
  /\ nodes' = <<>> /\ tokenIdx' = 0
  /\ UNCHANGED rtc

\* The application is at p and has nothing left to send.
At(p) == mpc = p /\ mtx = None
Send(a, op, v) == mtx' = CtrlFrame(a, op, v)
----------------------------------------------------------------------------
(* Discovery and assignment.                                               *)

\* Mutant of Discover: the loop asks for one number too many.
BugDiscover ==
  /\ At("discover") /\ poll <= MaxNodes + 1
  /\ Send(poll, "DISCOVER", 0)
  /\ mpc' = "await_status"
  /\ UNCHANGED <<poll, mrx, clockOn, secs, lcd, suspect, table>>

Discover ==
  /\ At("discover") /\ poll <= MaxNodes
  /\ Send(poll, "DISCOVER", 0)
  /\ mpc' = "await_status"
  /\ UNCHANGED <<poll, mrx, clockOn, secs, lcd, suspect, table>>

\* await_ctrl looks at one frame, from whatever station it comes.
Answer(want) == mrx # None /\ mrx.kind = "ctrl" /\ mrx.op = want

AwaitStatus ==
  /\ At("await_status")
  /\ mrx' = None
  /\ IF Answer("STATUS")
     THEN /\ OnCtrl(mrx)
          /\ Send(poll, "NODE_TYPE", 0)
          /\ mpc' = "await_type" /\ UNCHANGED poll
     ELSE /\ mpc' = "discover" /\ poll' = poll + 1
          /\ UNCHANGED <<mtx, table>>
  /\ UNCHANGED <<clockOn, secs, lcd, suspect>>

AwaitType ==
  /\ At("await_type")
  /\ mrx' = None
  /\ IF Answer("NODE_TYPE") THEN OnCtrl(mrx) ELSE UNCHANGED table
  /\ mpc' = "discover" /\ poll' = poll + 1
  /\ UNCHANGED <<mtx, clockOn, secs, lcd, suspect>>

\* Mutant of Discovered: the last number is not asked for.
BugDiscovered ==
  /\ At("discover") /\ poll >= MaxNodes
  /\ mpc' = "assign" /\ poll' = 1
  /\ UNCHANGED <<bus, clockOn, secs, lcd, suspect, table>>

Discovered ==
  /\ At("discover") /\ poll > MaxNodes
  /\ mpc' = "assign" /\ poll' = 1
  /\ UNCHANGED <<bus, clockOn, secs, lcd, suspect, table>>

\* Mutant of SlotTable: an entry already known under its hardware number keeps it.
BugSlotTable(t, i) == IF t[i].addr \in 1..Len(t) THEN t ELSE [t EXCEPT ![i].addr = i]

\* The i-th entry is known by its slot from here on.
SlotTable(t, i) == [t EXCEPT ![i].addr = i]

Assign ==
  /\ At("assign") /\ poll <= Len(nodes)
  /\ Send(nodes[poll].addr, "ASSIGN_ADDR", poll)
  /\ nodes' = SlotTable(nodes, poll)
  /\ poll' = poll + 1
  /\ UNCHANGED <<mpc, mrx, clockOn, secs, lcd, suspect, tokenIdx>>

Assigned ==
  /\ At("assign") /\ poll > Len(nodes)
  /\ mpc' = "clock"
  /\ UNCHANGED <<poll, bus, clockOn, secs, lcd, suspect, table>>

ClockStart ==
  /\ At("clock")
  /\ clockOn' = TRUE /\ mpc' = "sync"
  /\ UNCHANGED <<poll, bus, secs, lcd, suspect, table>>

\* Mutant of SendSync: the packet goes to the first slot only.
BugSendSync ==
  /\ At("sync")
  /\ Send(1, "SYNC", 0) /\ mpc' = "start"
  /\ UNCHANGED <<poll, mrx, clockOn, secs, lcd, suspect, table>>

SendSync ==
  /\ At("sync")
  /\ Send(Broadcast, "SYNC", 0) /\ mpc' = "start"
  /\ UNCHANGED <<poll, mrx, clockOn, secs, lcd, suspect, table>>

StartRun ==
  /\ At("start")
  /\ lastSec' = rtc /\ lastLora' = rtc /\ mpc' = "top"
  /\ UNCHANGED <<poll, bus, clockOn, rtc, now, lastStrong, events, peak, netStatus,
                 lora, suspect, history, table>>
----------------------------------------------------------------------------
(* The run loop.                                                           *)

Elapsed(since) == (now - since) % SecMod             \* uint32_t subtraction

Top ==
  /\ At("top")
  /\ now' = rtc
  /\ IF rtc # lastSec
     THEN Send(Broadcast, "TICK", 0) /\ mpc' = "ticked"
     ELSE mpc' = "recv" /\ UNCHANGED mtx
  /\ UNCHANGED <<poll, mrx, clockOn, rtc, lastSec, lcd, suspect, table>>

Alive(t) == {i \in DOMAIN t : i <= 8 /\ t[i].synced}

\* Mutant of Telemetry: the counter is reset before it is packed.
BugTelemetry(t, e, p, s) ==
  /\ lora' = [unix |-> now, events |-> 0, peak |-> p, status |-> s, alive |-> Alive(t)]
  /\ events' = 0 /\ peak' = 0 /\ netStatus' = {}

\* Mutant of Telemetry: the peak is not reset with the counter.
BugTelemetryPeak(t, e, p, s) ==
  /\ lora' = [unix |-> now, events |-> e, peak |-> p, status |-> s, alive |-> Alive(t)]
  /\ events' = 0 /\ peak' = p /\ netStatus' = {}

\* lora_telemetry, with the table t and the accumulators e, p and s.
Telemetry(t, e, p, s) ==
  /\ lora' = [unix |-> now, events |-> e, peak |-> p, status |-> s, alive |-> Alive(t)]
  /\ events' = 0 /\ peak' = 0 /\ netStatus' = {}

\* The history of a frame that is sent when the events since the last are o: it
\* knows of the call, not of what the frame says or the accumulators become.
Reports(o) == told' = o /\ owed' = <<>>

\* Mutant of Ticked: the telemetry period restarts with every second.
BugTicked ==
  /\ At("ticked")
  /\ OnTick
  /\ lastSec' = now /\ lastLora' = now /\ mpc' = "recv"
  /\ IF Elapsed(lastLora) >= LoraPeriod
     THEN Telemetry(nodes', events, peak, netStatus) /\ Reports(owed)
     ELSE UNCHANGED <<events, peak, netStatus, lora, history>>
  /\ UNCHANGED <<poll, bus, clockOn, rtc, now, lastStrong, suspect>>

\* The TICK is out: the expectations re-base, and telemetry may be due.
Ticked ==
  /\ At("ticked")
  /\ OnTick
  /\ lastSec' = now /\ mpc' = "recv"
  /\ IF Elapsed(lastLora) >= LoraPeriod
     THEN Telemetry(nodes', events, peak, netStatus) /\ lastLora' = now /\ Reports(owed)
     ELSE UNCHANGED <<events, peak, netStatus, lora, lastLora, history>>
  /\ UNCHANGED <<poll, bus, clockOn, rtc, now, lastStrong, suspect>>

\* What nq_detect_push may return for a sample: no event, or the peak of one.
Detection == {0} \cup 1..MaxPeak

Larger(a, b) == IF a > b THEN a ELSE b

\* A record of station a with status byte s; the trigger follows nodes[0] only.
\* A strong event is counted, and then sent with those before it.
Trigger(a, s, ev) ==
  LET status == netStatus \cup s
      p      == Larger(peak, ev)
      all    == Append(owed, ev)
  IN IF a # nodes[1].addr \/ ev = 0
     THEN /\ netStatus' = status
          /\ UNCHANGED <<events, peak, lora, lastLora, lastStrong, history>>
     ELSE IF ev >= StrongPeak /\ Elapsed(lastStrong) >= StrongCooldown
     THEN /\ Telemetry(nodes', events + 1, p, status) /\ Reports(all)
          /\ lastLora' = now /\ lastStrong' = now
     ELSE /\ events' = events + 1 /\ peak' = p /\ netStatus' = status
          /\ owed' = all /\ UNCHANGED told
          /\ UNCHANGED <<lora, lastLora, lastStrong>>

Received == At("recv") /\ mrx' = None /\ mpc' = "silent"
              /\ UNCHANGED <<poll, clockOn, secs, suspect>>

\* A DATA frame: stored and counted, resent on a CRC error, ignored otherwise.
RecvData ==
  /\ mrx # None /\ mrx.kind = "data"
  /\ Ingest(mrx) /\ Received
  /\ CASE IngestResult(nodes, mrx) = "OK" ->
            \E s \in StatusByte, ev \in Detection :
              /\ ev # 0 => Len(owed) < MaxOwed
              /\ Trigger(mrx.station, s, ev) /\ UNCHANGED mtx
       [] IngestResult(nodes, mrx) = "CRC" ->
            Send(mrx.station, "RESEND_DATA", 0) /\ UNCHANGED lcd
       [] OTHER -> UNCHANGED <<mtx, lcd>>

RecvCtrl ==
  /\ mrx # None /\ mrx.kind = "ctrl"
  /\ OnCtrl(mrx) /\ Received
  /\ UNCHANGED <<mtx, lcd>>

RecvNothing ==
  /\ mrx # None => mrx.kind = "noise"
  /\ UNCHANGED <<mtx, lcd, table>> /\ Received

\* board_master_silent_slot names a dead slot, or none; then all_lost.
SilentSlot ==
  /\ At("silent")
  /\ \/ UNCHANGED table
     \/ \E dead \in 1..MaxNodes : NodeLost(dead)
  /\ suspect' = (suspect \/ AllLost(nodes'))
  /\ mpc' = "top"
  /\ UNCHANGED <<poll, bus, clockOn, secs, lcd>>
----------------------------------------------------------------------------
(* The world: the transceiver, the RTC and what comes in from the bus.     *)

SentOut == /\ mtx # None
           /\ mtx' = None
           /\ UNCHANGED <<mpc, poll, mrx, clockOn, secs, lcd, suspect, table>>

\* The loop sees every second: it turns in about a millisecond.
RtcTick == /\ rtc' = (rtc + 1) % SecMod
           /\ Running => lastSec = rtc
           /\ UNCHANGED <<mpc, poll, bus, clockOn, now, lastSec, lcd, suspect, table>>

Arrives(f) == /\ mrx = None
              /\ mrx' = f
              /\ UNCHANGED <<mpc, poll, mtx, clockOn, secs, lcd, suspect, table>>

Incoming == Reply \cup Data \cup {Damaged(f, a) : f \in Data, a \in Station}
                  \cup {Undecodable}

Working == \/ Discover \/ AwaitStatus \/ AwaitType \/ Discovered
           \/ Assign \/ Assigned \/ ClockStart \/ SendSync \/ StartRun
           \/ Top \/ Ticked \/ RecvData \/ RecvCtrl \/ RecvNothing \/ SilentSlot
Application == Working \/ SentOut

\* With an arbitrary bus it is enough that frames come in while they are awaited.
Receiving == At("await_status") \/ At("await_type") \/ At("recv")

Next == Application \/ RtcTick \/ (Receiving /\ \E f \in Incoming : Arrives(f))
Spec == Init /\ [][Next]_mvars

\* The loop never blocks: each receive has a timeout (50 ms, then 1 ms), the
\* rest of it none to wait for.  Seconds pass.
FairSpec == Spec /\ WF_mvars(Application) /\ WF_mvars(RtcTick)
----------------------------------------------------------------------------
(* Properties.                                                             *)

Telegram == [unix : Second, events : 0..MaxOwed, peak : 0..MaxPeak,
             status : SUBSET Flags, alive : SUBSET (1..MaxNodes)]

\* The peaks of at most MaxOwed events.
Peaks == {q \in Seq(1..MaxPeak) : Len(q) <= MaxOwed}

AppTypeOK ==
  /\ mpc \in Phase /\ poll \in 1..(MaxNodes + 1)
  /\ clockOn \in BOOLEAN /\ suspect \in BOOLEAN
  /\ rtc \in Second /\ now \in Second /\ lastSec \in Second
  /\ lastLora \in Second /\ lastStrong \in Second
  /\ events \in 0..MaxOwed
  /\ owed \in Peaks /\ told \in Peaks
  /\ peak \in 0..MaxPeak /\ netStatus \subseteq Flags
  /\ lora \in Telegram \cup {None}
  /\ mrx \in Incoming \cup {None}
  /\ TableTypeOK

\* While the slots are handed out two entries may share an address for a moment:
\* an entry gets its slot while a later one still goes by that number.  The loop
\* renames in order and reaches every entry before the clock starts, so whatever
\* stations answered during discovery, and in whatever order, the run loop finds
\* one entry per station.
AssignedSoFar ==
  /\ mpc \in {"discover", "await_status", "await_type"} => OneEntryPerStation
  /\ mpc = "assign" => /\ poll <= Len(nodes) + 1
                       /\ \A i \in 1..(poll - 1) : nodes[i].addr = i
  /\ mpc \in {"clock", "sync", "start"} => \A i \in DOMAIN nodes : nodes[i].addr = i
  /\ Running => OneEntryPerStation

\* s_events, "event count since last frame" (main_app.c:26): what a frame says is
\* the number of events detected since the frame before it, so each is reported in
\* exactly one - periodic, or that of a strong event, which counts itself.
EventsReportedOnce == lora # None => lora.events = Len(told)

\* The peak p of the events q: no smaller than any, and that of one of them.
PeakOf(q, p) == /\ \A i \in DOMAIN q : q[i] <= p
                /\ p = 0 \/ \E i \in DOMAIN q : q[i] = p

\* s_peak, "max event peak since last frame" (main_app.c:27): a frame's peak is the
\* largest of the events it counts, and of no earlier one.
PeakOfCountedEvents == lora # None => PeakOf(told, lora.peak)

\* "LoRa is the always-on heartbeat" (DESIGN.md D25): telemetry is sent again
\* and again, whatever the nodes do.
Heartbeat == []<><<lora' # None>>_lora
=============================================================================
