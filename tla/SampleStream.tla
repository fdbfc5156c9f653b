---------------------------- MODULE SampleStream ----------------------------
(***************************************************************************)
(* The samples of a segment with one node, from DRDY to the record the     *)
(* master stores: Network, watched by history variables that number the    *)
(* samples.  Frames carry only a 16-bit index that restarts with every     *)
(* TICK, so the master cannot tell what these variables tell.              *)
(***************************************************************************)
EXTENDS Network

CONSTANTS
  Streamer,    \* the node
  MaxSamples,  \* bound: samples taken
  MaxFrames    \* bound: slots used for DATA; nothing is damaged in the last one

ASSUME StreamAssumption == Node = {Streamer}

VARIABLES
  ticks,   \* the seconds the master has begun: TICKs, and restarts, which have none
  lastTick,\* which of them the last TICK began
  epoch,   \* which of them the TICK began that s_index counts from
  taken,   \* the samples in the order taken: index and the TICK it counts from
  onWire,  \* the sample in the DATA frame the node is sending or last sent
  arrived, \* the sample in the DATA frame the master received last
  sent,    \* slots the node has used for DATA
  record   \* what board_master_store was given, in order

history == <<ticks, lastTick, epoch, taken, onWire, arrived, sent, record>>
svars   == <<netvars, history>>

StreamInit == /\ NetInit
              /\ ticks = 0 /\ lastTick = 0 /\ epoch = 0 /\ sent = 0
              /\ taken = <<>> /\ onWire = 0 /\ arrived = 0 /\ record = <<>>

\* The node's next step is sample_to_buffer, or the TICK handler.
Sampled == At(Streamer, "drdy") /\ drdy[Streamer] /\ HasSeismicSource(sMap[Streamer])
HeardTick == AtReceive(Streamer) /\ Command(Streamer, "TICK")

\* The buffer always holds the newest sample: that is what a step that sends the
\* buffer puts on the wire, a slot or a resend alike.
Sends == tx[Streamer] = <<>> /\ \E i \in DOMAIN tx'[Streamer] : tx'[Streamer][i].kind = "data"

NodeSteps ==
  /\ NodeRuns(Streamer)
  /\ taken' = IF Sampled THEN Append(taken, [tick |-> epoch, index |-> sIndex[Streamer]])
                      ELSE taken
  /\ epoch' = IF HeardTick THEN lastTick ELSE epoch
  /\ onWire' = IF Sends THEN Len(taken) ELSE onWire
  /\ sent' = IF Sends /\ pc[Streamer] = "slot" THEN sent + 1 ELSE sent
  /\ sent' <= MaxFrames
  /\ UNCHANGED <<ticks, lastTick, arrived, record>>

NodeSends == /\ NodeTransmits(Streamer)
             /\ mrx' \notin {None, mrx} /\ mrx'.kind = "data" /\ ~mrx'.intact => sent < MaxFrames
             /\ arrived' = IF mrx' \notin {None, mrx} THEN onWire ELSE arrived
             /\ UNCHANGED <<ticks, lastTick, epoch, taken, onWire, sent, record>>

\* DRDY comes 125 times a second: far fewer than IndexMod samples are taken
\* between two TICKs of a master the node follows.
RateKept == epoch = ticks => sIndex[Streamer] + 1 < IndexMod

SensorReady == /\ NodeSamples(Streamer) /\ Len(taken) < MaxSamples /\ RateKept
               /\ UNCHANGED history

\* What a node has heard it has handled before the next second is over.
Second == /\ SecondPasses /\ rtc + 1 < SecMod /\ rx[Streamer] = None
          /\ UNCHANGED history

\* The master is about to store what it received.
Stores == mpc = "recv" /\ mrx # None /\ mrx.kind = "data"
            /\ M!IngestResult(nodes, mrx) = "OK"
Gap    == LET exp == nodes[M!FindNode(nodes, mrx.station)].exp
          IN IF mrx.index >= exp THEN mrx.index - exp ELSE 0

\* The master's next step at the top of its loop is to send a TICK.
NewSecond == mpc = "top" /\ rtc # lastSec

MasterSteps ==
  /\ MasterRuns
  /\ ticks' = IF NewSecond THEN ticks + 1 ELSE ticks
  /\ lastTick' = IF NewSecond THEN ticks + 1 ELSE lastTick
  /\ record' = IF ~Stores THEN record
               ELSE Append(record, [sample |-> arrived, index |-> mrx.index,
                                    tick |-> ticks, gap |-> Gap])
  /\ UNCHANGED <<epoch, taken, onWire, arrived, sent>>

Restart == /\ MasterRestarts
           /\ ticks' = ticks + 1
           /\ UNCHANGED <<lastTick, epoch, taken, onWire, arrived, sent, record>>

StreamNext == \/ NodeSteps \/ NodeSends \/ SensorReady \/ Second
              \/ MasterSteps \/ Restart
              \/ MasterTransmits /\ UNCHANGED history

StreamSpec == StreamInit /\ [][StreamNext]_svars
----------------------------------------------------------------------------
(* Properties.                                                             *)

\* What is stored is a sample under the index it was taken at, in the order of
\* taking: no resend, stale buffer, TICK in between or restart of the master
\* renumbers a sample or makes an older one overtake a newer one.
Log == INSTANCE SampleLog
         WITH produced <- [i \in DOMAIN taken |-> taken[i].index],
              log <- [i \in DOMAIN record |->
                        [sample |-> record[i].sample, index |-> record[i].index]]
StoredAsTaken == Log!Spec

\* The records the master made in second k, and those of them before the i-th.
Of(k)      == {i \in DOMAIN record : record[i].tick = k}
Earlier(i) == {j \in Of(record[i].tick) : j < i}

\* A record of a second that node and master agree on: it holds no sample taken in
\* another, neither one that crossed the TICK nor one of a node that missed it.
SameSecond(i)    == taken[record[i].sample].tick = record[i].tick
InStepWith(k) == \A i \in Of(k) : SameSecond(i)

\* The samples of the second that were taken before the one in the i-th record,
\* and after every one recorded before.
LostBefore(i) == {s \in DOMAIN taken : /\ taken[s].tick = record[i].tick
                                       /\ s < record[i].sample
                                       /\ \A j \in Earlier(i) : record[j].sample < s}

\* As long as node and master agree on the second, each record says how many
\* samples were lost just before its own: every one of them is counted, once, in
\* its place, whatever was damaged, resent or sent twice.
GapsAreLosses ==
  \A i \in DOMAIN record :
    (\A j \in Earlier(i) \cup {i} : SameSecond(j)) => record[i].gap = Cardinality(LostBefore(i))

\* In such a second the master never expects an index the node has not reached:
\* the losses that follow would be masked.
NeverAheadOfNode ==
  epoch = ticks /\ M!Running /\ mpc # "ticked" /\ InStepWith(ticks) =>
    \A i \in DOMAIN nodes : nodes[i].exp <= sIndex[Streamer]

\* The statement of a header the code departs from.

\* "samples missed since this node's previous frame" (nic_master.h:52).
GapIsMissed ==
  \A i \in 2..Len(record) :
    LET before == record[i - 1].sample
    IN record[i].sample > before => record[i].gap = record[i].sample - before - 1
=============================================================================
