------------------------------ MODULE Network ------------------------------
(***************************************************************************)
(* One segment: the nodes and their master on the half-duplex data pair,   *)
(* and the clock pair the master drives.  The endpoints are NicNode and    *)
(* MasterApp; this module is the cable between them.                       *)
(*                                                                         *)
(* A talker occupies the pair from the step that puts a frame in tx[n] or  *)
(* mtx to the step that takes it out.  Frames that overlapped another are  *)
(* garbled.  Only a station that sits in its receive hears a frame.        *)
(***************************************************************************)
EXTENDS NicNode, FiniteSets

CONSTANTS
  MaxNodes,  \* NIC_MASTER_MAX_NODES
  SecMod,    \* how far the RTC counts
  Lossy,     \* whether a frame may miss a station that listens, or be damaged
  Sampling,  \* the nodes whose sensors raise DRDY
  Restarts,  \* bound: how often the master restarts
  Master     \* the name of the master among the talkers

\* Any opcode may be on the bus, and a master hands out the slots 1..MaxNodes.
ASSUME NetAssumption ==
  /\ Op = AnyOp /\ "NODE_TYPE" \in QueryOp
  /\ MaxNodes \in Nat \ {0} /\ 1..MaxNodes \subseteq Slot
  /\ SecMod \in Nat \ {0}
  /\ Master \notin Node

VARIABLES
  mpc, poll, mtx, mrx, clockOn, rtc, now, lastSec, lastLora, lastStrong, events,
  peak, netStatus, lora, suspect, owed, told, nodes, tokenIdx,   \* MasterApp
  clash,     \* the talkers whose frame has overlapped another
  restarts   \* how often the master has restarted

M == INSTANCE MasterApp
       WITH Station <- Addr, Lens <- {PayloadLen(s) : s \in SensorMap},
            CritOp <- {"ASSIGN_ADDR"}, NoOp <- None, LoraPeriod <- SecMod,
            StrongCooldown <- 0, MaxPeak <- 0, StrongPeak <- 1, StatusByte <- {{}},
            MaxOwed <- 0

master  == <<mpc, poll, mtx, mrx, clockOn, rtc, now, lastSec, lastLora, lastStrong, events,
             peak, netStatus, lora, suspect, owed, told, nodes, tokenIdx>>
netvars == <<vars, master, clash, restarts>>

Talkers == {n \in Node : tx[n] # <<>>} \cup (IF mtx # None THEN {Master} ELSE {})

\* Nobody talks and no frame waits to be handled.
Quiet == Talkers = {} /\ \A n \in Node : rx[n] = None

Overlap == clash' = IF Cardinality(Talkers') > 1 THEN clash \cup Talkers'
                                                 ELSE clash \cap Talkers'

NetInit == Init /\ M!Init /\ clash = {} /\ restarts = 0
----------------------------------------------------------------------------
(* The data pair.                                                          *)

\* What a node makes of a frame: it decodes control frames only, and takes
\* notice of the argument of none but ASSIGN_ADDR.
AtNode(f) == IF f.kind # "ctrl" THEN Undecodable
             ELSE CtrlFrame(f.station, f.op, IF f.op = "ASSIGN_ADDR" THEN f.val ELSE 0)

Garbled(f) == IF f.kind = "data" THEN Damaged(f, f.station) ELSE Undecodable
Arriving(f, talker) == IF talker \in clash THEN Garbled(f) ELSE f

CanHear == {n \in Node : AtReceive(n) /\ rx[n] = None}

\* Frame f of a talker goes to the stations who, all that can hear unless Lossy.
Carries(f, talker, who) ==
  /\ ~Lossy => who = CanHear \ {talker}
  /\ rx' = [n \in Node |-> IF n \in who THEN AtNode(Arriving(f, talker)) ELSE rx[n]]

\* A frame lasts longer than a pass of a node's loop: what came before it has
\* been handled when it is complete.  On a lossy bus even that may go wrong.
InStep == Lossy \/ \A n \in Node : rx[n] = None

\* The master has come up and not asked for a node yet.
Booting == mpc = "discover" /\ poll = 1

\* The master hears what is complete while it is in a board_master_recv, and
\* one frame in each.
Hearing == M!Receiving /\ mrx = None

NodeTransmits(n) ==
  /\ tx[n] # <<>> /\ InStep
  /\ tx' = [tx EXCEPT ![n] = Tail(tx[n])]
  /\ \E who \in SUBSET (CanHear \ {n}) : Carries(Head(tx[n]), n, who)
  /\ \/ Hearing /\ M!Arrives(Arriving(Head(tx[n]), n))
     \/ Hearing /\ Lossy /\ M!Arrives(Garbled(Head(tx[n])))
     \/ (Hearing => Lossy) /\ UNCHANGED master
  /\ UNCHANGED <<st, pc, app, clock, clkLost, drdy, clkIn, restarts>>
  /\ Overlap

MasterTransmits ==
  /\ mtx # None /\ InStep
  /\ \E who \in SUBSET CanHear : Carries(mtx, Master, who)
  /\ M!SentOut
  /\ UNCHANGED <<st, pc, app, clock, clkLost, drdy, clkIn, tx, restarts>>
  /\ Overlap
----------------------------------------------------------------------------
(* The stations.                                                           *)

\* Slots are disjoint (D24): the slot of a node is not due while another that
\* streams, under another address, is talking.  (board_slot_due is the stub of a
\* timer this repository lacks.)
SlotDue(n) == \A m \in Node \ {n} :
                st[m] = "SYNCED" /\ sAddr[m] # sAddr[n] => tx[m] = <<>>

NodeRuns(n) ==
  /\ tx[n] = <<>>
  /\ Loop(n)
  /\ pc[n] = "slot" /\ tx'[n] # <<>> => SlotDue(n)
  /\ UNCHANGED <<master, restarts>>
  /\ Overlap

NodeSamples(n) ==
  /\ n \in Sampling /\ DrdyIsr(n)
  /\ UNCHANGED <<master, clash, restarts>>

\* A master takes longer to boot than a node to start up, to recover from the
\* loss of the clock or to give up on its PLL (50 ms), and than any frame.
NodesUp == Booting =>
             Quiet /\ \A n \in Node : st[n] = "LISTEN" /\ pc[n] = "top"

\* 50 ms are ample for an answer: a wait runs out only on a quiet bus.
InTime == mpc \in {"await_status", "await_type"} /\ mrx = None => Quiet

MasterRuns ==
  /\ NodesUp /\ InTime
  /\ M!Working
  /\ IF clockOn' = clockOn THEN UNCHANGED vars
     ELSE /\ clkIn' = [n \in Node |-> TRUE]
          /\ UNCHANGED <<st, pc, app, clock, clkLost, drdy, rx, tx>>
  /\ UNCHANGED restarts
  /\ Overlap

SecondPasses == M!RtcTick /\ UNCHANGED <<vars, clash, restarts>>

\* The master's MCU resets.  The oscillator's gate closes with it: on the nodes
\* that run on the master clock the CSS fires (ClockDies, for every node).
MasterRestarts ==
  /\ restarts < Restarts /\ restarts' = restarts + 1
  /\ M!PowerUp
  /\ clkIn' = [n \in Node |-> FALSE]
  /\ sysclk' = [n \in Node |-> "RC"]
  /\ clkLost' = [n \in Node |-> clkLost[n] \/ sysclk[n] = "HSE"]
  /\ UNCHANGED <<st, pc, app, pin, uart2, drdy, rx, tx>>
  /\ Overlap

NetNext == \/ \E n \in Node : NodeTransmits(n) \/ NodeRuns(n) \/ NodeSamples(n)
           \/ MasterTransmits \/ MasterRuns \/ SecondPasses \/ MasterRestarts

NetSpec == NetInit /\ [][NetNext]_netvars

\* Every CPU runs and every transceiver shifts out what it was given.
NetFairness == /\ \A n \in Node : /\ WF_netvars(NodeRuns(n))
                                  /\ WF_netvars(NodeTransmits(n))
               /\ WF_netvars(MasterTransmits) /\ WF_netvars(MasterRuns)
FairNetSpec == NetSpec /\ NetFairness
----------------------------------------------------------------------------
(* Properties.                                                             *)

\* No two boxes go by the same number.
Distinct == \A n, m \in Node : sAddr[n] = sAddr[m] => n = m

\* "The master polls one node at a time and waits" (node/main_app.c:389) - which
\* it does in discovery, where an answer collides with nothing: from the first
\* DISCOVER on no two stations talk at once, whatever the nodes were doing when
\* the master restarted into their network.
Polling == mpc \in {"discover", "await_status", "await_type"} /\ ~Booting
DiscoveryArbitrated == Polling /\ Distinct => Cardinality(Talkers) <= 1

\* When discovery is over (main_app.c:80), the table lists the boxes that are
\* there and no others, each once: no answer was missed, taken for that of
\* another box, or cut off by the next question.
DiscoveryComplete ==
  mpc = "assign" /\ poll = 1 /\ Distinct =>
    /\ \A i \in DOMAIN nodes : \E n \in Node : sAddr[n] = nodes[i].addr
    /\ \A i, j \in DOMAIN nodes : nodes[i].addr = nodes[j].addr => i = j
    /\ \A n \in Node : sAddr[n] \in 1..MaxNodes => M!Known(nodes, sAddr[n])

\* A node that has heard the SYNC gets through its clock switch and streams,
\* unless the master takes the clock away again.
HeardSyncStreams ==
  \A n \in Node : (st[n] = "LISTEN" /\ Command(n, "SYNC"))
                    ~> (st[n] = "SYNCED" \/ ~clockOn)

\* The statement of a comment the code departs from.

\* "so answer (STATUS / NODE_TYPE / ACK) right now; it cannot collide"
\* (node/main_app.c:390): no station talks over a node's answer.
AnswersNeverCollide ==
  \A n \in Node : st[n] = "LISTEN" /\ tx[n] # <<>> => Talkers = {n}
=============================================================================
