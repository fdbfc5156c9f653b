--------------------------- MODULE NetworkProofs ---------------------------
(***************************************************************************)
(* What holds on a segment of any size: the types, what is left of the     *)
(* nodes' clock properties when the master is one that restarts, and that  *)
(* its discovery is arbitrated and complete.                               *)
(***************************************************************************)
EXTENDS Network, NicNodeProofs, FiniteSetTheorems

(* The types of the segment.                                               *)

\* What the master says, and what may come in at its receiver.
MasterSays == {CtrlFrame(a, op, 0) : a \in Addr \cup {Broadcast},
                 op \in {"DISCOVER", "NODE_TYPE", "SYNC", "TICK", "RESEND_DATA"}}
              \cup {CtrlFrame(a, "ASSIGN_ADDR", v) : a \in Addr, v \in 1..MaxNodes}
DamagedFrames == {Damaged(f, f.station) : f \in DataFrames}
ToMaster   == Frames \cup DamagedFrames \cup {Undecodable}
Tables     == {t \in Seq(M!Entry) : Len(t) <= MaxNodes}

MasterTypeOK ==
  /\ mpc \in M!Phase /\ poll \in 1..(MaxNodes + 1)
  /\ mpc \in {"await_status", "await_type"} => poll <= MaxNodes
  /\ mtx \in MasterSays \cup {None}
  /\ mrx \in ToMaster \cup {None}
  /\ nodes \in Tables

NetTypeOK == TypeOK /\ MasterTypeOK

\* A record whose station is an address; the master asks it nothing more.
LEMMA FramesTyped ==
  /\ \A f \in ReplyFrames :
       /\ f.kind = "ctrl" /\ f.station \in Addr /\ f.op \in AnyOp
       /\ f.op # "ASSIGN_ADDR" /\ f.op # "DISCOVER"
       /\ f = CtrlFrame(f.station, f.op, f.val)
       /\ f.op = "STATUS" => f.val \in {PayloadLen(s) : s \in SensorMap}
  /\ \A f \in DataFrames \cup DamagedFrames :
       /\ f.kind = "data" /\ f.station \in Addr /\ f.index \in 0..(IndexMod - 1)
  /\ Undecodable.kind = "noise"
<1>1. ASSUME NEW f \in ReplyFrames
      PROVE  /\ f.kind = "ctrl" /\ f.station \in Addr /\ f.op \in AnyOp
             /\ f.op # "ASSIGN_ADDR" /\ f.op # "DISCOVER"
             /\ f = CtrlFrame(f.station, f.op, f.val)
             /\ f.op = "STATUS" => f.val \in {PayloadLen(s) : s \in SensorMap}
  <2>1. PICK a \in Addr, r \in Reply : f = CtrlFrame(a, r.op, r.val)
    BY DEF ReplyFrames
  <2>2. /\ r.op \in AnyOp /\ r.op # "ASSIGN_ADDR" /\ r.op # "DISCOVER"
        /\ r.op = "STATUS" => r.val \in {PayloadLen(s) : s \in SensorMap}
    BY NodeAssumption DEF Reply, AnyOp, ProtocolOp
  <2> QED BY <2>1, <2>2 DEF CtrlFrame
<1>2. ASSUME NEW f \in DataFrames
      PROVE  f.kind = "data" /\ f.station \in Addr /\ f.index \in 0..(IndexMod - 1)
  BY DEF DataFrames, DataFrame
<1>3. ASSUME NEW f \in DamagedFrames
      PROVE  f.kind = "data" /\ f.station \in Addr /\ f.index \in 0..(IndexMod - 1)
  <2>1. PICK g \in DataFrames : f = Damaged(g, g.station) BY DEF DamagedFrames
  <2>2. PICK a \in Addr, i \in 0..(IndexMod - 1), s \in SensorMap :
          g = DataFrame(a, i, PayloadLen(s))
    BY DEF DataFrames
  <2>3. f = [kind |-> "data", station |-> a, index |-> i, len |-> PayloadLen(s),
             intact |-> FALSE]
    BY <2>1, <2>2 DEF DataFrame, Damaged
  <2> QED BY <2>3
<1> QED BY <1>1, <1>2, <1>3 DEF Undecodable

\* What the master says is heard like any other command.
LEMMA MasterSaysTyped ==
  \A f \in MasterSays :
    /\ f \in Heard /\ f.kind = "ctrl" /\ f = CtrlFrame(f.station, f.op, f.val)
    /\ f.op \in {"DISCOVER", "NODE_TYPE", "SYNC", "TICK", "RESEND_DATA", "ASSIGN_ADDR"}
    /\ f.op = "ASSIGN_ADDR" => f.station \in Addr /\ f.val \in 1..MaxNodes
    /\ f.op # "ASSIGN_ADDR" => f.val = 0
<1>1. ASSUME NEW a \in Addr \cup {Broadcast}, NEW v, NEW op \in Op, v \in Val(op)
      PROVE  CtrlFrame(a, op, v) \in Heard
  BY <1>1 DEF Heard
<1>2. {"DISCOVER", "NODE_TYPE", "SYNC", "TICK", "RESEND_DATA", "ASSIGN_ADDR"} \subseteq Op
  BY NetAssumption DEF AnyOp, ProtocolOp
<1>3. ASSUME NEW a \in Addr \cup {Broadcast},
             NEW op \in {"DISCOVER", "NODE_TYPE", "SYNC", "TICK", "RESEND_DATA"}
      PROVE  CtrlFrame(a, op, 0) \in Heard
  BY <1>1, <1>2 DEF Val
<1>4. ASSUME NEW a \in Addr, NEW v \in 1..MaxNodes
      PROVE  CtrlFrame(a, "ASSIGN_ADDR", v) \in Heard
  BY <1>1, <1>2, NetAssumption DEF Val
<1>5. ASSUME NEW f \in MasterSays PROVE f \in Heard
  BY <1>3, <1>4 DEF MasterSays
<1> QED BY <1>5 DEF MasterSays, CtrlFrame

\* Nothing that is sent or heard is mistaken for no frame.
LEMMA NoneIsNoFrame == None \notin Frames \cup DamagedFrames \cup MasterSays \cup Heard
BY NoneAssumption, MasterSaysTyped DEF Frames, DamagedFrames
----------------------------------------------------------------------------
(* The master's table.  Whatever comes in, it is updated in place; only a   *)
(* STATUS of a station it does not hold adds an entry, at the end.          *)

InPlace(t, u) == /\ u \in Tables /\ DOMAIN u = DOMAIN t
                 /\ \A i \in DOMAIN t : u[i].addr = t[i].addr

\* An entry replaced by one of the same station.
LEMMA Replaced ==
  ASSUME NEW t \in Tables, NEW i, NEW e,
         i \in DOMAIN t => e \in M!Entry /\ e.addr = t[i].addr
  PROVE  InPlace(t, [t EXCEPT ![i] = e])
<1> DEFINE u == [t EXCEPT ![i] = e]
<1>1. t \in Seq(M!Entry) /\ Len(t) <= MaxNodes BY DEF Tables
<1>2. DOMAIN u = DOMAIN t /\ Len(u) = Len(t) BY <1>1
<1>3. \A j \in DOMAIN t : u[j] = IF j = i THEN e ELSE t[j] BY <1>1
<1>4. CASE i \in DOMAIN t
  BY <1>1, <1>2, <1>3, <1>4, ExceptSeq DEF InPlace, Tables
<1>5. CASE i \notin DOMAIN t
  <2>1. u = t BY <1>1, <1>5
  <2> QED BY <1>1, <2>1 DEF InPlace, Tables
<1> QED BY <1>4, <1>5

LEMMA EntryOf ==
  ASSUME NEW t \in Tables, NEW i \in DOMAIN t
  PROVE  t[i] \in M!Entry
BY DEF Tables

LEMMA SameTable == ASSUME NEW t \in Tables PROVE InPlace(t, t)
BY DEF InPlace

\* A STATUS makes an entry or refreshes one.
LEMMA RegisteredTable ==
  ASSUME NEW t \in Tables, NEW a \in Addr, NEW len \in {PayloadLen(s) : s \in SensorMap}
  PROVE  /\ M!Registered(t, a, len) \in Tables
         /\ ~M!Known(t, a) /\ Len(t) < MaxNodes =>
              M!Registered(t, a, len) = Append(t, M!NewEntry(a, len))
<1>0. t \in Seq(M!Entry) /\ Len(t) <= MaxNodes /\ MaxNodes \in Nat
  BY NetAssumption DEF Tables
<1>1. CASE M!Known(t, a)
  <2> DEFINE i == M!FindNode(t, a)
             e == [t[i] EXCEPT !.len = len]
  <2>1. i \in DOMAIN t => e \in M!Entry /\ e.addr = t[i].addr
    BY EntryOf DEF M!Entry
  <2> HIDE DEF i
  <2>2. InPlace(t, [t EXCEPT ![i] = e]) BY <2>1, Replaced
  <2>3. M!Registered(t, a, len) = [t EXCEPT ![i] = e]
    BY <1>0, <1>1 DEF M!Registered, i
  <2> QED BY <1>1, <2>2, <2>3 DEF InPlace
<1>2. CASE ~M!Known(t, a) /\ Len(t) >= MaxNodes
  BY <1>0, <1>2 DEF M!Registered
<1>3. CASE ~M!Known(t, a) /\ Len(t) < MaxNodes
  <2> DEFINE e == M!NewEntry(a, len)
             u == Append(t, e)
  <2>1. e \in M!Entry BY NodeAssumption DEF M!NewEntry, M!Entry
  <2> HIDE DEF e
  <2>2. u \in Seq(M!Entry) /\ Len(u) = Len(t) + 1 BY <1>0, <2>1
  <2>3. u \in Tables BY <1>0, <1>3, <2>2 DEF Tables
  <2>4. M!Registered(t, a, len) = u BY <1>0, <1>3 DEF M!Registered, e
  <2> QED BY <2>3, <2>4 DEF e
<1> QED BY <1>0, <1>1, <1>2, <1>3

\* A DATA frame updates the entry of its station, if any.
LEMMA IngestedTable ==
  ASSUME NEW t \in Tables, NEW f, f.index \in 0..(IndexMod - 1)
  PROVE  InPlace(t, M!Ingested(t, f))
<1>1. CASE M!IngestResult(t, f) = "OK"
  <2> DEFINE i == M!FindNode(t, f.station)
             e == M!HeardFrame(t[i], f)
  <2>1. (f.index + 1) % IndexMod \in 0..(IndexMod - 1)
    BY NodeAssumption
  <2>2. i \in DOMAIN t => e \in M!Entry /\ e.addr = t[i].addr
    <3> SUFFICES ASSUME i \in DOMAIN t PROVE e \in M!Entry /\ e.addr = t[i].addr
      OBVIOUS
    <3>1. t[i] \in M!Entry BY EntryOf
    <3> HIDE DEF i
    <3> QED BY <2>1, <3>1 DEF M!Entry, M!HeardFrame
  <2> HIDE DEF i
  <2>3. InPlace(t, [t EXCEPT ![i] = e]) BY <2>2, Replaced
  <2> QED BY <1>1, <2>3 DEF M!Ingested, i
<1>2. CASE M!IngestResult(t, f) # "OK"
  BY <1>2, SameTable DEF M!Ingested
<1> QED BY <1>1, <1>2

LEMMA RebasedTable ==
  ASSUME NEW t \in Tables
  PROVE  InPlace(t, M!Rebased(t))
<1>0. t \in Seq(M!Entry) /\ Len(t) <= MaxNodes BY DEF Tables
<1>1. \A i \in DOMAIN t : /\ M!Rebased(t)[i] \in M!Entry
                          /\ M!Rebased(t)[i].addr = t[i].addr
  <2> SUFFICES ASSUME NEW i \in DOMAIN t
               PROVE  M!Rebased(t)[i] \in M!Entry /\ M!Rebased(t)[i].addr = t[i].addr
    OBVIOUS
  <2>1. 0 \in 0..(IndexMod - 1) BY NodeAssumption
  <2> QED BY <2>1, EntryOf DEF M!Rebased, M!Entry
<1>2. DOMAIN M!Rebased(t) = 1..Len(t) BY <1>0 DEF M!Rebased
<1>3. M!Rebased(t) \in Seq(M!Entry) /\ Len(M!Rebased(t)) = Len(t)
  <2>1. Len(t) \in Nat BY <1>0
  <2>2. M!Rebased(t) = [i \in 1..Len(t) |-> M!Rebased(t)[i]] BY <1>0 DEF M!Rebased
  <2> QED BY <1>0, <1>1, <1>2, <2>1, <2>2
<1> QED BY <1>0, <1>1, <1>2, <1>3 DEF InPlace, Tables

LEMMA LostTable ==
  ASSUME NEW t \in Tables, NEW a
  PROVE  InPlace(t, M!Lost(t, a))
<1> DEFINE i == M!FindNode(t, a)
           e == [t[i] EXCEPT !.synced = FALSE]
<1>1. i \in DOMAIN t => e \in M!Entry /\ e.addr = t[i].addr
  <2> SUFFICES ASSUME i \in DOMAIN t
               PROVE  e \in M!Entry /\ e.addr = t[i].addr
    OBVIOUS
  <2> DEFINE x == t[i]
  <2>1. x \in M!Entry BY EntryOf
  <2> HIDE DEF x
  <2>2. [x EXCEPT !.synced = FALSE] \in M!Entry /\ [x EXCEPT !.synced = FALSE].addr = x.addr
    BY <2>1 DEF M!Entry
  <2> QED BY <2>2 DEF x
<1> HIDE DEF i
<1>2. InPlace(t, [t EXCEPT ![i] = e]) BY <1>1, Replaced
<1>3. [t EXCEPT ![i].synced = FALSE] = [t EXCEPT ![i] = e] BY DEF Tables
<1> QED BY <1>2, <1>3, SameTable DEF M!Lost, i

\* Any other answer updates the entry of its station, if any.
LEMMA AnsweredTable ==
  ASSUME NEW t \in Tables, NEW c, c.op # "STATUS"
  PROVE  InPlace(t, M!Controlled(t, c))
<1> DEFINE i == M!FindNode(t, c.station)
           x == t[i]
           e == M!Answered(x, c)
<1>1. ASSUME NEW y \in M!Entry
      PROVE  M!Answered(y, c) \in M!Entry /\ M!Answered(y, c).addr = y.addr
  BY DEF M!Entry, M!Answered
<1>2. i \in DOMAIN t => e \in M!Entry /\ e.addr = t[i].addr
  BY <1>1, EntryOf
<1>3. InPlace(t, [t EXCEPT ![i] = e])
  <2> HIDE DEF i, e
  <2> QED BY <1>2, Replaced
<1> QED BY <1>3, SameTable DEF M!Controlled

LEMMA ControlledTable ==
  ASSUME NEW t \in Tables, NEW c \in ReplyFrames
  PROVE  M!Controlled(t, c) \in Tables
<1>1. CASE c.op = "STATUS"
  <2>1. c.station \in Addr /\ c.val \in {PayloadLen(s) : s \in SensorMap}
    BY <1>1, FramesTyped
  <2> QED BY <1>1, <2>1, RegisteredTable DEF M!Controlled
<1>2. CASE c.op # "STATUS"
  BY <1>2, AnsweredTable DEF InPlace
<1> QED BY <1>1, <1>2

\* A slot handed out.
LEMMA SlottedTable ==
  ASSUME NEW t \in Tables, NEW i \in 1..Len(t)
  PROVE  /\ M!SlotTable(t, i) \in Tables /\ DOMAIN M!SlotTable(t, i) = DOMAIN t
         /\ \A j \in DOMAIN t : M!SlotTable(t, i)[j].addr = IF j = i THEN i ELSE t[j].addr
<1> DEFINE e == [t[i] EXCEPT !.addr = i]
           u == [t EXCEPT ![i] = e]
<1>0. t \in Seq(M!Entry) /\ Len(t) <= MaxNodes /\ Len(t) \in Nat /\ i \in DOMAIN t
  BY DEF Tables
<1>1. i \in Addr BY <1>0, NodeAssumption, NetAssumption
<1>2. t[i] \in M!Entry BY <1>0
<1>3. e \in M!Entry /\ e.addr = i BY <1>1, <1>2 DEF M!Entry
<1>4. M!SlotTable(t, i) = u BY <1>0 DEF M!SlotTable
<1> HIDE DEF e
<1>5. u \in Seq(M!Entry) /\ Len(u) = Len(t) /\ DOMAIN u = DOMAIN t
  BY <1>0, <1>3, ExceptSeq
<1>6. \A j \in DOMAIN t : u[j] = IF j = i THEN e ELSE t[j] BY <1>0
<1> QED BY <1>0, <1>3, <1>4, <1>5, <1>6 DEF Tables
----------------------------------------------------------------------------
(* Every step keeps the types.                                             *)

\* Both ends mean the same by a frame.
LEMMA SameLink ==
  /\ M!Broadcast = Broadcast /\ M!Undecodable = Undecodable
  /\ \A a, op, v : M!Send(a, op, v) <=> mtx' = CtrlFrame(a, op, v)
BY DEF M!Broadcast, Broadcast, M!Undecodable, Undecodable, M!Send, M!CtrlFrame, CtrlFrame

\* What a clash makes of a frame the master may still take in.
LEMMA FrameArrives ==
  ASSUME NEW f \in Frames, NEW talker
  PROVE  /\ Garbled(f) \in ToMaster /\ Arriving(f, talker) \in ToMaster
         /\ f.kind = "data" => Garbled(f).kind = "data" /\ Arriving(f, talker).kind = "data"
<1>1. f.kind = "data" => f \in DataFrames BY FramesTyped DEF Frames
<1>2. f.kind = "data" => Garbled(f) \in DamagedFrames
  BY <1>1 DEF Garbled, DamagedFrames
<1>3. f.kind # "data" => Garbled(f) = Undecodable BY DEF Garbled
<1> QED BY <1>2, <1>3, FramesTyped DEF Arriving, ToMaster

\* What a node makes of it.
LEMMA FrameHeard ==
  ASSUME NEW f \in ToMaster \cup MasterSays
  PROVE  /\ AtNode(f) \in Heard
         /\ f.kind # "ctrl" => AtNode(f).kind = "noise"
         /\ f \in MasterSays => AtNode(f) = f
         /\ f \in ReplyFrames => AtNode(f) = CtrlFrame(f.station, f.op, 0)
<1>1. CASE f.kind # "ctrl"
  <2>1. AtNode(f) = Undecodable BY <1>1 DEF AtNode
  <2>2. Undecodable \in Heard BY DEF Heard
  <2>3. f \notin MasterSays /\ f \notin ReplyFrames BY <1>1, FramesTyped, MasterSaysTyped
  <2>4. AtNode(f).kind = "noise" BY <2>1 DEF Undecodable
  <2> QED BY <2>1, <2>2, <2>3, <2>4
<1>2. CASE f \in MasterSays
  BY <1>2, MasterSaysTyped, FramesTyped DEF AtNode
<1>3. CASE f.kind = "ctrl" /\ f \notin MasterSays
  <2>1. f \in ReplyFrames BY <1>3, FramesTyped DEF ToMaster, Frames
  <2>2. AtNode(f) = CtrlFrame(f.station, f.op, 0) BY <1>3, <2>1, FramesTyped DEF AtNode
  <2>3. f.station \in Addr \cup {Broadcast} /\ f.op \in Op /\ 0 \in Val(f.op)
    BY <2>1, FramesTyped, NetAssumption DEF Val
  <2>4. CtrlFrame(f.station, f.op, 0) \in Heard BY <2>3 DEF Heard
  <2> QED BY <1>3, <2>2, <2>4
<1> QED BY <1>1, <1>2, <1>3

LEMMA ArrivingHeard ==
  ASSUME NEW f \in Frames \cup MasterSays, NEW talker
  PROVE  AtNode(Arriving(f, talker)) \in Heard
<1>1. CASE f \in Frames
  BY <1>1, FrameArrives, FrameHeard
<1>2. CASE f \in MasterSays
  <2>1. Arriving(f, talker) \in {f, Undecodable}
    BY <1>2, MasterSaysTyped DEF Arriving, Garbled
  <2> QED BY <1>2, <2>1, FrameHeard DEF ToMaster
<1> QED BY <1>1, <1>2

\* A frame carried to any stations leaves the nodes well typed.
LEMMA CarriesType ==
  ASSUME TypeOK, NEW f \in Frames \cup MasterSays, NEW talker, NEW who,
         Carries(f, talker, who), tx' \in [Node -> Seq(DataFrames \cup ReplyFrames)],
         UNCHANGED <<st, pc, app, clock, clkLost, drdy, clkIn>>
  PROVE  TypeOK'
<1>1. rx' \in [Node -> Heard \cup {None}]
  BY ArrivingHeard DEF Carries, TypeOK
<1> QED BY <1>1 DEF TypeOK, app, clock

LEMMA NodeTransmitsType ==
  ASSUME NetTypeOK, NEW n \in Node, NodeTransmits(n)
  PROVE  NetTypeOK'
<1> DEFINE f == Head(tx[n])
<1>1. /\ tx[n] \in Seq(Frames) /\ tx[n] # <<>>
      /\ tx \in [Node -> Seq(DataFrames \cup ReplyFrames)]
  BY DEF NodeTransmits, NetTypeOK, TypeOK, Frames
<1>2. f \in Frames /\ Tail(tx[n]) \in Seq(Frames) BY <1>1, HeadTailProperties
<1>3. tx' \in [Node -> Seq(DataFrames \cup ReplyFrames)]
  BY <1>1, <1>2 DEF NodeTransmits, Frames
<1>4. PICK who \in SUBSET (CanHear \ {n}) : Carries(f, n, who)
  BY DEF NodeTransmits
<1>5. TypeOK'
  <2>1. UNCHANGED <<st, pc, app, clock, clkLost, drdy, clkIn>> BY DEF NodeTransmits
  <2> HIDE DEF f
  <2> QED BY <1>2, <1>3, <1>4, <2>1, CarriesType DEF NetTypeOK
<1>6. Arriving(f, n) \in ToMaster /\ Garbled(f) \in ToMaster
  BY <1>2, FrameArrives
<1>7. /\ mrx' = mrx \/ mrx' \in ToMaster
      /\ UNCHANGED <<mpc, poll, mtx, nodes>>
  BY <1>6 DEF NodeTransmits, Hearing, M!Arrives, M!table, master
<1> QED BY <1>5, <1>7 DEF NetTypeOK, MasterTypeOK

LEMMA MasterTransmitsType ==
  ASSUME NetTypeOK, MasterTransmits
  PROVE  NetTypeOK'
<1>1. mtx \in MasterSays BY DEF MasterTransmits, NetTypeOK, MasterTypeOK
<1>2. TypeOK'
  <2>1. /\ UNCHANGED <<st, pc, app, clock, clkLost, drdy, clkIn>>
        /\ tx' \in [Node -> Seq(DataFrames \cup ReplyFrames)]
    BY DEF MasterTransmits, NetTypeOK, TypeOK
  <2>2. PICK who \in SUBSET CanHear : Carries(mtx, Master, who) BY DEF MasterTransmits
  <2> QED BY <1>1, <2>1, <2>2, CarriesType DEF NetTypeOK
<1>3. mtx' = None /\ UNCHANGED <<mpc, poll, mrx, nodes>>
  BY DEF MasterTransmits, M!SentOut, M!table
<1> QED BY <1>2, <1>3 DEF NetTypeOK, MasterTypeOK

LEMMA NodeRunsType ==
  ASSUME NetTypeOK, NEW n \in Node, NodeRuns(n)
  PROVE  NetTypeOK'
<1>1. TypeOK' BY LoopType DEF NetTypeOK, NodeRuns
<1>2. UNCHANGED <<mpc, poll, mtx, mrx, nodes>> BY DEF NodeRuns, master
<1> QED BY <1>1, <1>2 DEF NetTypeOK, MasterTypeOK

\* What the application may do to the table and the bus.
LEMMA WorkingType ==
  ASSUME MasterTypeOK, M!Working
  PROVE  MasterTypeOK'
<1> USE DEF MasterTypeOK
<1>0. MaxNodes \in Nat /\ 1..MaxNodes \subseteq Addr
  BY NetAssumption, NodeAssumption
<1>1. \A a \in Addr \cup {Broadcast} :
        /\ CtrlFrame(a, "DISCOVER", 0) \in MasterSays /\ CtrlFrame(a, "NODE_TYPE", 0) \in MasterSays
        /\ CtrlFrame(a, "SYNC", 0) \in MasterSays /\ CtrlFrame(a, "TICK", 0) \in MasterSays
        /\ CtrlFrame(a, "RESEND_DATA", 0) \in MasterSays
  BY DEF MasterSays
<1>2. mpc' \in M!Phase
  BY DEF M!Phase, M!Working, M!Discover, M!AwaitStatus, M!AwaitType, M!Discovered, M!Assign,
         M!Assigned, M!ClockStart, M!SendSync, M!StartRun, M!Top, M!Ticked, M!RecvData,
         M!RecvCtrl, M!RecvNothing, M!SilentSlot, M!Received
<1>3. mrx # None /\ mrx.kind = "ctrl" => mrx \in ReplyFrames
  BY FramesTyped DEF ToMaster, Frames
<1>4. mrx # None /\ mrx.kind = "data" => mrx.station \in Addr /\ mrx.index \in 0..(IndexMod - 1)
  BY FramesTyped DEF ToMaster, Frames
<1>5. CASE M!Discover
  BY <1>0, <1>1, <1>2, <1>5, SameLink DEF M!Discover, M!At, M!table
<1>6. CASE M!AwaitStatus
  <2>1. CASE M!Answer("STATUS")
    <3>1. nodes' \in Tables
      BY <1>3, <1>6, <2>1, ControlledTable DEF M!AwaitStatus, M!OnCtrl, M!Answer
    <3>2. mtx' = CtrlFrame(poll, "NODE_TYPE", 0) /\ mrx' = None /\ poll' = poll
      BY <1>6, <2>1, SameLink DEF M!AwaitStatus
    <3>3. poll \in Addr /\ poll <= MaxNodes BY <1>0, <1>6 DEF M!AwaitStatus, M!At
    <3> QED BY <1>1, <1>2, <3>1, <3>2, <3>3
  <2>2. CASE ~M!Answer("STATUS")
    BY <1>0, <1>2, <1>6, <2>2 DEF M!AwaitStatus, M!At, M!table
  <2> QED BY <2>1, <2>2
<1>7. CASE M!AwaitType
  <2>1. nodes' \in Tables
    BY <1>3, <1>7, ControlledTable DEF M!AwaitType, M!OnCtrl, M!Answer, M!table
  <2> QED BY <1>0, <1>2, <1>7, <2>1 DEF M!AwaitType, M!At
<1>8. CASE M!Discovered \/ M!Assigned \/ M!ClockStart \/ M!StartRun
  BY <1>0, <1>2, <1>8 DEF M!Discovered, M!Assigned, M!ClockStart, M!StartRun, M!table, M!bus
<1>9. CASE M!Assign
  <2>1. poll \in 1..Len(nodes) /\ Len(nodes) <= MaxNodes
    BY <1>0, <1>9 DEF M!Assign, Tables
  <2>2. nodes[poll].addr \in Addr /\ poll \in 1..MaxNodes
    <3>1. nodes[poll] \in M!Entry BY <2>1 DEF Tables
    <3> QED BY <1>0, <2>1, <3>1 DEF M!Entry, Tables
  <2>3. mtx' \in MasterSays BY <1>9, <2>2, SameLink DEF M!Assign, MasterSays
  <2>4. nodes' \in Tables BY <1>9, <2>1, SlottedTable DEF M!Assign
  <2> QED BY <1>0, <1>2, <1>9, <2>1, <2>3, <2>4 DEF M!Assign, M!At
<1>10. CASE M!SendSync
  BY <1>1, <1>2, <1>10, SameLink DEF M!SendSync, M!table
<1>11. CASE M!Top
  BY <1>1, <1>2, <1>11, SameLink DEF M!Top, M!table
<1>12. CASE M!Ticked
  BY <1>2, <1>12, RebasedTable DEF M!Ticked, M!OnTick, M!bus, InPlace
<1>13. CASE M!RecvData
  <2>1. nodes' \in Tables
    BY <1>4, <1>13, IngestedTable DEF M!RecvData, M!Ingest, InPlace
  <2>2. mtx' = mtx \/ mtx' \in MasterSays
    BY <1>1, <1>4, <1>13, SameLink DEF M!RecvData
  <2> QED BY <1>2, <1>13, <2>1, <2>2 DEF M!RecvData, M!Received
<1>14. CASE M!RecvCtrl
  BY <1>2, <1>3, <1>14, ControlledTable DEF M!RecvCtrl, M!OnCtrl, M!Received
<1>15. CASE M!RecvNothing
  BY <1>2, <1>15 DEF M!RecvNothing, M!Received, M!table
<1>16. CASE M!SilentSlot
  <2>1. nodes' \in Tables
    BY <1>16, LostTable DEF M!SilentSlot, M!NodeLost, M!table, InPlace
  <2> QED BY <1>2, <1>16, <2>1 DEF M!SilentSlot, M!bus
<1> QED
  BY <1>5, <1>6, <1>7, <1>8, <1>9, <1>10, <1>11, <1>12, <1>13, <1>14, <1>15, <1>16
  DEF M!Working

LEMMA MasterRunsType ==
  ASSUME NetTypeOK, MasterRuns
  PROVE  NetTypeOK'
<1>1. MasterTypeOK' BY WorkingType DEF MasterRuns, NetTypeOK
<1>2. TypeOK'
  <2>1. CASE UNCHANGED vars
    BY <2>1, StutterType DEF NetTypeOK
  <2>2. CASE /\ clkIn' = [n \in Node |-> TRUE]
             /\ UNCHANGED <<st, pc, app, clock, clkLost, drdy, rx, tx>>
    BY <2>2 DEF NetTypeOK, TypeOK, app, clock
  <2> QED BY <2>1, <2>2 DEF MasterRuns
<1> QED BY <1>1, <1>2 DEF NetTypeOK

LEMMA MasterRestartsType ==
  ASSUME NetTypeOK, MasterRestarts
  PROVE  NetTypeOK'
<1>1. TypeOK'
  BY DEF MasterRestarts, NetTypeOK, TypeOK, app
<1>2. MasterTypeOK'
  BY NetAssumption DEF MasterRestarts, M!PowerUp, M!Phase, NetTypeOK, MasterTypeOK, Tables
<1> QED BY <1>1, <1>2 DEF NetTypeOK

LEMMA NetInitType == NetInit => NetTypeOK
<1> SUFFICES ASSUME NetInit PROVE NetTypeOK OBVIOUS
<1>1. MasterTypeOK
  BY NetAssumption DEF NetInit, M!Init, M!TableInit, M!Phase, MasterTypeOK, Tables
<1> QED BY <1>1, InitType DEF NetInit, NetTypeOK

\* Every step of the segment keeps the types.
LEMMA NetStepType == NetTypeOK /\ [NetNext]_netvars => NetTypeOK'
<1> SUFFICES ASSUME NetTypeOK, [NetNext]_netvars PROVE NetTypeOK' OBVIOUS
<1>1. ASSUME NEW n \in Node, NodeSamples(n) PROVE NetTypeOK'
  <2>1. TypeOK' BY <1>1, BoardType DEF NodeSamples, Environment, NetTypeOK
  <2>2. UNCHANGED <<mpc, poll, mtx, mrx, nodes>> BY <1>1 DEF NodeSamples, master
  <2> QED BY <2>1, <2>2 DEF NetTypeOK, MasterTypeOK
<1>2. CASE SecondPasses
  <2>1. TypeOK' BY <1>2, StutterType DEF SecondPasses, NetTypeOK
  <2>2. UNCHANGED <<mpc, poll, mtx, mrx, nodes>>
    BY <1>2 DEF SecondPasses, M!RtcTick, M!bus, M!table
  <2> QED BY <2>1, <2>2 DEF NetTypeOK, MasterTypeOK
<1>3. CASE UNCHANGED netvars
  BY <1>3, StutterType DEF netvars, master, NetTypeOK, MasterTypeOK
<1> QED
  BY <1>1, <1>2, <1>3, NodeTransmitsType, MasterTransmitsType, NodeRunsType, MasterRunsType,
     MasterRestartsType
  DEF NetNext

(* On the bus, too, every variable of a node keeps to the values the code   *)
(* can store, and the master's table to the entries a frame may make.      *)
THEOREM SegmentTypes == NetSpec => []NetTypeOK
BY NetInitType, NetStepType, PTL DEF NetSpec
----------------------------------------------------------------------------
(* The clock.  ClockInv survives what the composition adds to a node: a     *)
(* master that gates its oscillator, and one that restarts and takes the    *)
(* clock from every node at once, wherever each is in its switch.           *)

LEMMA ClockUntouched ==
  ASSUME ClockInv, UNCHANGED <<st, pc, clock, clkLost>>
  PROVE  ClockInv'
BY DEF ClockInv, PointOwner, SequenceSoFar, LossPending, clock

\* Every step of the segment keeps ClockInv.
LEMMA NetStepClock == NetTypeOK /\ ClockInv /\ [NetNext]_netvars => ClockInv'
<1> SUFFICES ASSUME NetTypeOK, ClockInv, [NetNext]_netvars PROVE ClockInv' OBVIOUS
<1>0. TypeOK BY DEF NetTypeOK
<1>1. ASSUME NEW n \in Node, NodeTransmits(n) \/ NodeSamples(n) PROVE ClockInv'
  BY <1>1, ClockUntouched DEF NodeTransmits, NodeSamples, DrdyIsr
<1>2. ASSUME NEW n \in Node, NodeRuns(n) PROVE ClockInv'
  BY <1>0, <1>2, LoopClock DEF NodeRuns
<1>3. CASE MasterTransmits \/ SecondPasses \/ UNCHANGED netvars
  BY <1>3, ClockUntouched DEF MasterTransmits, SecondPasses, netvars, vars
<1>4. CASE MasterRuns
  BY <1>4, ClockUntouched DEF MasterRuns, vars
<1>5. CASE MasterRestarts
  <2> SUFFICES ASSUME NEW m \in Node
               PROVE  (PointOwner(m) /\ SequenceSoFar(m) /\ LossPending(m))'
    BY DEF ClockInv
  <2>1. PointOwner(m) /\ SequenceSoFar(m) /\ LossPending(m) BY DEF ClockInv
  <2>2. /\ UNCHANGED <<st, pc, pin, uart2>> /\ sysclk[m] \in {"RC", "HSE"}
        /\ clkLost'[m] = (clkLost[m] \/ sysclk[m] = "HSE")
    BY <1>0, <1>5 DEF MasterRestarts, TypeOK
  <2> QED BY <2>1, <2>2 DEF PointOwner, SequenceSoFar, LossPending
<1> QED BY <1>1, <1>2, <1>3, <1>4, <1>5 DEF NetNext

LEMMA SegmentClock == NetSpec => []ClockInv
<1>1. NetInit => ClockInv BY InitClock DEF NetInit
<1> QED BY <1>1, NetStepClock, SegmentTypes, PTL DEF NetSpec

(* On a segment whose master may restart at any moment, a node streams on   *)
(* the master clock or has its loss latched.                                *)
THEOREM SegmentInPhase == NetSpec => []StreamsOnMasterClock
<1>1. ClockInv => StreamsOnMasterClock
  BY DEF ClockInv, LossPending, StreamsOnMasterClock
<1> QED BY SegmentClock, <1>1, PTL

(* Nor does the master's clock ever drive the pin of an enabled receiver.   *)
THEOREM SegmentPinSafe == NetSpec => []ReceiverOffClockPin
<1>1. ClockInv => ReceiverOffClockPin
  BY DEF ClockInv, SequenceSoFar, ReceiverOffClockPin
<1> QED BY SegmentClock, <1>1, PTL
----------------------------------------------------------------------------
(* Discovery, on a bus that loses no frame.  However often the master has   *)
(* restarted, and into whatever the nodes were doing, it asks a bus on      *)
(* which nobody else will speak unless asked.  Neither DiscoveryArbitrated  *)
(* nor DiscoveryComplete is inductive.  DiscoveryInv is what they rest on:  *)
(* Manners of every station at any time, and Conducted discovery itself.    *)

\* What the master says last before it is at point p, if it says anything.
Said(p) == CASE p = "await_status" -> "DISCOVER"
             [] p = "await_type"   -> "NODE_TYPE"
             [] p = "assign"       -> "ASSIGN_ADDR"
             [] p = "start"        -> "SYNC"
             [] p = "ticked"       -> "TICK"
             [] p = "silent"       -> "RESEND_DATA"
             [] OTHER              -> "nothing"

\* The commands no master sends and no reply is mistaken for.
Unsaid == CfgOp \cup {"CALIBRATE", "HARD_RESET", "TOKEN"}

\* All nodes listen.
Up == \A n \in Node : st[n] = "LISTEN" /\ pc[n] = "top"

\* From its first question to the end of its SYNC the master has the nodes listen.
Opening == \/ mpc = "discover" /\ ~Booting
           \/ mpc \in {"await_status", "await_type", "assign", "clock", "sync"}
           \/ mpc = "start" /\ mtx # None

\* Its first question goes to everybody: what a node still had to say for its
\* slot in the network of old, it says then.
FirstCall == /\ mpc = "await_status" /\ poll = 1 /\ mtx # None /\ clash = {}
             /\ \A n \in Node : rx[n] = None /\ tx[n] = <<>>

\* A node keeps its number as long as no ASSIGN_ADDR is heard, and a node that
\* owes a reply owes it to another that goes by the same number.
NodeManners(n) ==
  /\ st[n] = "BOOT" => sAddr[n] = HwAddr[n]
  /\ pc[n] # "calibrate"
  /\ \A i \in DOMAIN tx[n] : tx[n][i].kind = "ctrl" => tx[n][i].station = sAddr[n]
  /\ sReply[n] # None => ~Distinct

\* What a node has heard but not handled: all have heard the same; only nodes
\* that listen are asked or given a number, and only those who share its number
\* mistake an answer for a question.
Pending(n) ==
  /\ \A m \in Node : rx[m] # None => rx[m] = rx[n]
  /\ rx[n].op \notin Unsaid
  /\ rx[n].op \in {"DISCOVER", "ASSIGN_ADDR"} => Up
  /\ rx[n].op \in QueryOp => Up \/ \E m \in Node \ {n} : sAddr[m] = rx[n].station
  /\ rx[n].op = "ASSIGN_ADDR" => /\ \A m \in Node : sReply[m] = None
                                 /\ ~Polling /\ ~(mpc = "assign" /\ poll = 1)
  /\ rx[n].op = "SYNC" => ~Opening

Manners ==
  /\ \A n \in Node : NodeManners(n) /\ (IsCtrl(n) => Pending(n))
  /\ mtx # None => mtx.op = Said(mpc) /\ ~(mpc = "assign" /\ poll = 1)
  /\ mpc = "discover" => mrx = None /\ (Booting => nodes = <<>>)
  /\ Opening => Up
  /\ Opening => \/ FirstCall
                \/ \A n \in Node : sReply[n] = None \/ (IsCtrl(n) /\ rx[n].op = "DISCOVER")
  /\ Talkers = {} => clash = {}

\* The frame node n holds is one it will answer; n will talk, or does.
Asked     == {"DISCOVER", "NODE_TYPE"}
Calls(n)  == IsCtrl(n) /\ ForMe(n, rx[n]) /\ rx[n].op \in Asked
Active(n) == tx[n] # <<>> \/ Calls(n)
Idle      == \A n \in Node : ~Active(n)

\* While the master asks, one node at most has the word.
Asking ==
  /\ Up /\ Distinct /\ clash = {}
  /\ mtx # None => Idle
  /\ \A n \in Node :
       /\ sReply[n] = None
       /\ rx[n] # None => rx[n].kind = "ctrl" /\ rx[n].op \in Asked \cup {"STATUS"}
       /\ tx[n] # <<>> => /\ Len(tx[n]) = 1 /\ Head(tx[n]).kind = "ctrl"
                          /\ Head(tx[n]).station = sAddr[n]
                          /\ Head(tx[n]).op \in {"STATUS", "NODE_TYPE"}
       /\ Calls(n) => tx[n] = <<>>
       /\ \A m \in Node : Active(n) /\ Active(m) => n = m

\* The table is in the order of discovery.
Ascending == \A i, j \in DOMAIN nodes : i < j => nodes[i].addr < nodes[j].addr

\* It holds the boxes with numbers below k, and nothing else.
Found(k) ==
  /\ Len(nodes) < k
  /\ \A i \in DOMAIN nodes : nodes[i].addr < k /\ \E n \in Node : sAddr[n] = nodes[i].addr
  /\ \A n \in Node : sAddr[n] \in 1..(k - 1) => M!Known(nodes, sAddr[n])

\* One question and its answer: the box with number poll, if there is one, has
\* the word until its answer is at the master.
Conversation(query, reply) ==
  /\ mtx # None => mtx = CtrlFrame(poll, query, 0) /\ mrx = None
  /\ mtx = None /\ mrx # None =>
       /\ mrx.kind = "ctrl" /\ mrx.op = reply /\ mrx.station = poll
       /\ (\E n \in Node : sAddr[n] = poll) /\ Idle
  /\ mtx = None /\ mrx = None => \A n \in Node :
       /\ sAddr[n] = poll <=> Active(n)
       /\ Calls(n) => rx[n].op = query
       /\ tx[n] # <<>> => Head(tx[n]).op = reply

Discovering ==
  /\ mpc = "discover"     => Found(poll) /\ Idle
  /\ mpc = "await_status" => Found(poll) /\ Conversation("DISCOVER", "STATUS")
  /\ mpc = "await_type"   => Found(poll + 1) /\ Conversation("NODE_TYPE", "NODE_TYPE")

Conducted ==
  /\ Polling /\ Distinct => Asking /\ Discovering /\ Ascending
  /\ mpc = "assign" /\ poll = 1 /\ Distinct => Found(MaxNodes + 1) /\ Ascending

DiscoveryInv == NetTypeOK /\ Manners /\ Conducted
----------------------------------------------------------------------------
(* What one pass of a node's loop may do to the things manners are about.  *)

Passes(n) ==
  /\ tx[n] = <<>>
  /\ \A m \in Node \ {n} : /\ st'[m] = st[m] /\ pc'[m] = pc[m] /\ sAddr'[m] = sAddr[m]
                           /\ sReply'[m] = sReply[m] /\ rx'[m] = rx[m] /\ tx'[m] = tx[m]
  /\ rx'[n] \in {rx[n], None}
  /\ sAddr'[n] # sAddr[n] => Command(n, "ASSIGN_ADDR")
  /\ pc'[n] # "calibrate" /\ (st'[n] = "BOOT" => st[n] = "BOOT")
  /\ sReply'[n] \notin {sReply[n], None} =>
       /\ st[n] = "SYNCED"
       /\ \E op \in {"DISCOVER", "ASSIGN_ADDR"} \cup QueryOp : Command(n, op)
  /\ \A i \in DOMAIN tx'[n] : tx'[n][i].kind = "ctrl" => tx'[n][i].station = sAddr'[n]
  /\ st[n] = "LISTEN" /\ pc[n] = "top" =>
       /\ rx[n] # None /\ rx'[n] = None
       /\ IsCtrl(n) => sReply'[n] = None
       /\ ~Command(n, "SYNC") => st'[n] = "LISTEN" /\ pc'[n] = "top"

\* Only a HARD_RESET takes a node back to BOOT, only a CALIBRATE makes it calibrate.
LEMMA EndsIteration ==
  ASSUME TypeOK, NEW n \in Node, NEW ev, EndIteration(n, ev),
         ev \notin {"RESET_CMD", "CALIBRATE_CMD"}
  PROVE  /\ \A m \in Node \ {n} : st'[m] = st[m] /\ pc'[m] = pc[m]
         /\ pc'[n] # "calibrate" /\ (st'[n] = "BOOT" => st[n] = "BOOT")
         /\ ev = "NO_EVENT" => st'[n] = st[n] /\ pc'[n] = "top"
<1>1. /\ NicNodeStep(st[n], ev).state = "BOOT" => st[n] = "BOOT"
      /\ NicNodeStep(st[n], ev).action # "CALIBRATE"
  BY DEF NicNodeStep, Step
<1>2. Perform(NicNodeStep(st[n], ev).action) # "calibrate"
  BY <1>1 DEF Perform
<1>3. st \in [Node -> State] /\ pc \in [Node -> Point] BY DEF TypeOK
<1> QED BY <1>1, <1>2, <1>3 DEF EndIteration

\* What send_reply and send_data put on the wire is the node's own.
LEMMA SendsOwn ==
  ASSUME TypeOK, NEW n \in Node, NEW a \in Addr, NEW r \in Reply \cup {None}
  PROVE  /\ SendData(n) \in Seq(Frames) /\ SendReply(a, r) \in Seq(Frames)
         /\ \A i \in DOMAIN SendData(n) : SendData(n)[i].kind = "data"
         /\ \A i \in DOMAIN SendReply(a, r) : SendReply(a, r)[i].station = a
<1>1. SendData(n) \in Seq(Frames) /\ SendReply(a, r) \in Seq(Frames)
  BY SendDataType, SendReplyType
<1>2. \A i \in DOMAIN SendData(n) : SendData(n)[i].kind = "data"
  <2>1. sDataFrame[n] \in DataFrames \cup {None} BY DEF TypeOK
  <2>2. sDataFrame[n] # None => sDataFrame[n].kind = "data" BY <2>1, FramesTyped
  <2> QED BY <2>2 DEF SendData
<1>3. \A i \in DOMAIN SendReply(a, r) : SendReply(a, r)[i].station = a
  BY DEF SendReply, CtrlFrame
<1> QED BY <1>1, <1>2, <1>3

\* A handler that neither resets nor calibrates is one of Passes.
LEMMA HandledPasses ==
  ASSUME TypeOK, NEW n \in Node, IsCtrl(n), NEW a \in Addr, NEW i, NEW r \in Reply \cup {None},
         NEW out, NEW ev, Handled(n, a, i, r, out, ev),
         ev = "NO_EVENT" \/ (ev = "SYNC_CMD" /\ Command(n, "SYNC")),
         a # sAddr[n] => Command(n, "ASSIGN_ADDR"),
         r \notin {sReply[n], None} =>
           \E op \in {"DISCOVER", "ASSIGN_ADDR"} \cup QueryOp : Command(n, op),
         out \in {<<>>, SendData(n)}
  PROVE  Passes(n)
<1>0. /\ st \in [Node -> State] /\ pc \in [Node -> Point] /\ sAddr \in [Node -> Addr]
      /\ sReply \in [Node -> Reply \cup {None}] /\ rx \in [Node -> Heard \cup {None}]
      /\ tx \in [Node -> Seq(Frames)]
  BY DEF TypeOK, Frames
<1>1. /\ rx' = [rx EXCEPT ![n] = None] /\ sAddr' = [sAddr EXCEPT ![n] = a]
      /\ st[n] = "LISTEN" => /\ tx' = [tx EXCEPT ![n] = out \o SendReply(a, r)]
                             /\ sReply' = [sReply EXCEPT ![n] = None]
      /\ st[n] # "LISTEN" => /\ tx' = [tx EXCEPT ![n] = out]
                             /\ sReply' = [sReply EXCEPT ![n] = r]
      /\ EndIteration(n, ev) /\ tx[n] = <<>> /\ st[n] \in {"LISTEN", "SYNCED"}
      /\ rx[n] # None
  BY DEF Handled, AtReceive, At, IsCtrl
<1>2. /\ \A m \in Node \ {n} : st'[m] = st[m] /\ pc'[m] = pc[m]
      /\ pc'[n] # "calibrate" /\ (st'[n] = "BOOT" => st[n] = "BOOT")
      /\ ev = "NO_EVENT" => st'[n] = st[n] /\ pc'[n] = "top"
  BY <1>1, EndsIteration
<1>3. /\ out \in Seq(Frames) /\ SendReply(a, r) \in Seq(Frames)
      /\ \A k \in DOMAIN out : out[k].kind = "data"
      /\ \A k \in DOMAIN SendReply(a, r) : SendReply(a, r)[k].station = a
  <2>1. <<>> \in Seq(Frames) /\ \A k \in DOMAIN <<>> : FALSE OBVIOUS
  <2> QED BY <2>1, SendsOwn
<1>4. \A k \in DOMAIN tx'[n] : tx'[n][k].kind = "ctrl" => tx'[n][k].station = a
  <2>1. CASE st[n] # "LISTEN"
    <3>1. tx'[n] = out BY <1>0, <1>1, <2>1
    <3> QED BY <1>3, <3>1
  <2>2. CASE st[n] = "LISTEN"
    <3> DEFINE s == SendReply(a, r)
    <3>1. tx'[n] = out \o s BY <1>0, <1>1, <2>2
    <3>2. s \in Seq(Frames) /\ \A k \in DOMAIN s : s[k].station = a BY <1>3
    <3> HIDE DEF s
    <3>3. ASSUME NEW k \in DOMAIN (out \o s) PROVE (out \o s)[k].kind = "ctrl" => (out \o s)[k].station = a
      <4>1. CASE k <= Len(out)
        <5>1. k \in DOMAIN out /\ (out \o s)[k] = out[k] BY <1>3, <3>2, <4>1
        <5> QED BY <1>3, <5>1
      <4>2. CASE k > Len(out)
        <5>1. k - Len(out) \in DOMAIN s /\ (out \o s)[k] = s[k - Len(out)]
          BY <1>3, <3>2, <4>2
        <5> QED BY <3>2, <5>1
      <4> QED BY <1>3, <3>2, <4>1, <4>2
    <3> QED BY <3>1, <3>3
  <2> QED BY <2>1, <2>2
<1>5. sAddr'[n] = a /\ sReply'[n] \in {r, None} /\ rx'[n] = None
      /\ (st[n] = "LISTEN" => sReply'[n] = None)
  BY <1>0, <1>1
<1>6. \A m \in Node \ {n} : /\ sAddr'[m] = sAddr[m] /\ sReply'[m] = sReply[m]
                            /\ rx'[m] = rx[m] /\ tx'[m] = tx[m]
  BY <1>0, <1>1
<1> QED BY <1>1, <1>2, <1>4, <1>5, <1>6 DEF Passes

\* A receive is one of Passes, if nobody sends what no master sends.
LEMMA ReceivePasses ==
  ASSUME TypeOK, NEW n \in Node, pc[n] # "calibrate", IsCtrl(n) => rx[n].op \notin Unsaid,
         Receive(n)
  PROVE  Passes(n)
<1>0. /\ st \in [Node -> State] /\ pc \in [Node -> Point] /\ sAddr \in [Node -> Addr]
      /\ sReply \in [Node -> Reply \cup {None}] /\ rx \in [Node -> Heard \cup {None}]
      /\ sAddr[n] \in Addr /\ sReply[n] \in Reply \cup {None}
  BY DEF TypeOK
<1>1. CASE OnDiscover(n)
  <2> DEFINE r == [op |-> "STATUS", val |-> PayloadLen(sMap[n])]
  <2>1. r \in Reply BY DEF Reply, TypeOK
  <2>2. Command(n, "DISCOVER") /\ IsCtrl(n) BY <1>1 DEF OnDiscover, Command
  <2>3. Handled(n, sAddr[n], sIndex[n], r, <<>>, "NO_EVENT") BY <1>1 DEF OnDiscover, Answers
  <2> HIDE DEF r
  <2> QED BY <1>0, <2>1, <2>2, <2>3, HandledPasses
<1>2. CASE OnQuery(n)
  <2>1. PICK op \in QueryOp : Command(n, op) /\ Answers(n, op, 0) BY <1>2 DEF OnQuery
  <2> DEFINE r == [op |-> op, val |-> 0]
  <2>2. r \in Reply BY DEF Reply
  <2>3. Handled(n, sAddr[n], sIndex[n], r, <<>>, "NO_EVENT") BY <2>1 DEF Answers
  <2>4. IsCtrl(n) BY <2>1 DEF Command
  <2> HIDE DEF r
  <2> QED BY <1>0, <2>1, <2>2, <2>3, <2>4, HandledPasses
<1>3. CASE OnAssign(n)
  <2> DEFINE r == [op |-> "ACK", val |-> "ASSIGN_ADDR"]
  <2>1. r \in Reply BY DEF Reply
  <2>2. Command(n, "ASSIGN_ADDR") /\ IsCtrl(n) /\ rx[n].op = "ASSIGN_ADDR"
    BY <1>3 DEF OnAssign, Command
  <2>3. rx[n].val \in Addr
    <3>1. rx[n].val \in Slot BY <2>2, HeardCtrl
    <3> QED BY <3>1, NodeAssumption
  <2>4. Handled(n, rx[n].val, sIndex[n], r, <<>>, "NO_EVENT") BY <1>3 DEF OnAssign
  <2> HIDE DEF r
  <2> QED BY <1>0, <2>1, <2>2, <2>3, <2>4, HandledPasses
<1>4. CASE OnSync(n) \/ OnTick(n) \/ OnResend(n) \/ OnOther(n)
  <2>1. /\ IsCtrl(n)
        /\ \E i, out, ev : /\ Handled(n, sAddr[n], i, sReply[n], out, ev)
                           /\ ev = "NO_EVENT" \/ (ev = "SYNC_CMD" /\ Command(n, "SYNC"))
                           /\ out \in {<<>>, SendData(n)}
    BY <1>4 DEF OnSync, OnTick, OnResend, OnOther, Raises, Command
  <2> QED BY <1>0, <2>1, HandledPasses
<1>5. CASE NoCtrl(n)
  <2>1. /\ UNCHANGED <<st, sAddr, sReply, tx>> /\ rx' = [rx EXCEPT ![n] = None]
        /\ pc' = [pc EXCEPT ![n] = "top"] /\ tx[n] = <<>> /\ ~IsCtrl(n)
        /\ st[n] = "LISTEN" => rx[n] # None
    BY <1>5 DEF NoCtrl, AtReceive, At, app, IsCtrl
  <2>2. \A i \in DOMAIN tx'[n] : FALSE BY <2>1
  <2> QED BY <1>0, <2>1, <2>2 DEF Passes
<1>6. ~OnCfg(n) /\ ~OnCalibrate(n) /\ ~OnHardReset(n) /\ ~OnToken(n)
  BY DEF OnCfg, OnCalibrate, OnHardReset, OnToken, Command, Unsaid
<1> QED BY <1>1, <1>2, <1>3, <1>4, <1>5, <1>6 DEF Receive

\* So is every other step of the loop, from BOOT to the clock switch.
LEMMA NodePasses ==
  ASSUME TypeOK, NEW n \in Node, NodeManners(n), IsCtrl(n) => rx[n].op \notin Unsaid,
         NodeRuns(n)
  PROVE  Passes(n)
<1>0. /\ st \in [Node -> State] /\ pc \in [Node -> Point] /\ sAddr \in [Node -> Addr]
      /\ sReply \in [Node -> Reply \cup {None}] /\ sAddr[n] \in Addr
      /\ sReply[n] \in Reply \cup {None} /\ tx \in [Node -> Seq(Frames)]
      /\ Loop(n) /\ tx[n] = <<>> /\ pc[n] # "calibrate"
  BY DEF TypeOK, NodeRuns, NodeManners, Frames
<1>1. CASE Boot(n)
  <2>1. UNCHANGED <<sReply, rx, tx>> /\ st[n] = "BOOT" /\ sAddr' = [sAddr EXCEPT ![n] = HwAddr[n]]
        /\ EndIteration(n, "BOOT_DONE")
    BY <1>1 DEF Boot
  <2>2. sAddr' = sAddr BY <1>0, <2>1 DEF NodeManners
  <2>3. /\ \A m \in Node \ {n} : st'[m] = st[m] /\ pc'[m] = pc[m]
        /\ pc'[n] # "calibrate" /\ (st'[n] = "BOOT" => st[n] = "BOOT")
    BY <2>1, EndsIteration
  <2> QED BY <1>0, <2>1, <2>2, <2>3 DEF Passes
<1>2. ASSUME UNCHANGED <<sAddr, sReply, rx, tx>>, NEW ev, EndIteration(n, ev),
             ev \notin {"RESET_CMD", "CALIBRATE_CMD"}, st[n] # "LISTEN"
      PROVE  Passes(n)
  BY <1>0, <1>2, EndsIteration DEF Passes
<1>3. CASE Detect(n) \/ InitSensors(n) \/ LeaveFault(n) \/ TakeClockLost(n)
  <2>1. /\ UNCHANGED <<sAddr, sReply, rx, tx>> /\ st[n] # "LISTEN"
        /\ \/ EndIteration(n, "DETECTED") \/ EndIteration(n, "SENSORS_READY")
           \/ EndIteration(n, "BOOT_DONE") \/ EndIteration(n, "CLOCK_LOST")
    BY <1>3 DEF Detect, InitSensors, LeaveFault, TakeClockLost, app
  <2> QED BY <1>2, <2>1
<1>4. ASSUME UNCHANGED <<st, sAddr, sReply, rx, tx>>, NEW p, p # "calibrate",
             pc' = [pc EXCEPT ![n] = p], st[n] # "LISTEN" \/ pc[n] # "top"
      PROVE  Passes(n)
  BY <1>0, <1>4 DEF Passes
<1>5. CASE ClockStillThere(n) \/ SampleToBuffer(n) \/ NoSample(n) \/ SlotNotDue(n)
  <2>1. /\ UNCHANGED <<st, sAddr, sReply, rx, tx>>
        /\ st[n] # "LISTEN" \/ pc[n] # "top"
        /\ \E p \in {"drdy", "slot", "recv"} : pc' = [pc EXCEPT ![n] = p]
    BY <1>5 DEF ClockStillThere, SampleToBuffer, NoSample, SlotNotDue, app, At
  <2> QED BY <1>4, <2>1
<1>6. CASE SendSlot(n)
  <2>1. /\ UNCHANGED <<st, sAddr, rx>> /\ pc[n] = "slot" /\ pc' = [pc EXCEPT ![n] = "recv"]
        /\ sReply' = [sReply EXCEPT ![n] = None] /\ tx' = [tx EXCEPT ![n] = SlotFrames(n)]
    BY <1>6 DEF SendSlot, At
  <2>2. tx'[n] \in {SendData(n), SendReply(sAddr[n], sReply[n])}
    BY <1>0, <2>1 DEF SlotFrames
  <2>3. \A i \in DOMAIN tx'[n] : tx'[n][i].kind = "ctrl" => tx'[n][i].station = sAddr'[n]
    <3>1. CASE tx'[n] = SendData(n) BY <1>0, <3>1, SendsOwn
    <3>2. CASE tx'[n] = SendReply(sAddr[n], sReply[n])
      <4>1. sAddr'[n] = sAddr[n] BY <2>1
      <4>2. \A i \in DOMAIN SendReply(sAddr[n], sReply[n]) :
              SendReply(sAddr[n], sReply[n])[i].station = sAddr[n]
        BY <1>0, SendsOwn
      <4> QED BY <3>2, <4>1, <4>2
    <3> QED BY <2>2, <3>1, <3>2
  <2>4. /\ \A m \in Node \ {n} : pc'[m] = pc[m] /\ sReply'[m] = sReply[m] /\ tx'[m] = tx[m]
        /\ pc'[n] = "recv" /\ sReply'[n] = None
    BY <1>0, <2>1
  <2> QED BY <1>0, <2>1, <2>3, <2>4 DEF Passes
<1>7. CASE Receive(n)
  BY <1>0, <1>7, ReceivePasses
<1>8. CASE Uart2DisableIrq(n) \/ Uart2Deinit(n) \/ RemapRxToHse(n) \/ SelectHse(n)
             \/ PllTimeout(n) \/ Recover(n)
  <2>1. /\ UNCHANGED <<st, sAddr, sReply, rx, tx>> /\ pc[n] # "top"
        /\ \E p \in {"deinit", "remap_rx_to_hse", "select_hse", "pll_wait", "top",
                     "uart2_reinit", "select_rc"} : pc' = [pc EXCEPT ![n] = p]
    BY <1>8 DEF Uart2DisableIrq, Uart2Deinit, RemapRxToHse, SelectHse, PllTimeout, Recover,
                RemapHseToRx, Uart2Reinit, SelectRc, Poke, app, At
  <2> QED BY <1>4, <2>1
<1>9. CASE PllLocked(n)
  <2>1. /\ UNCHANGED <<sAddr, sReply, rx, tx>> /\ pc[n] = "pll_wait"
        /\ pc' = [pc EXCEPT ![n] = "top"]
        /\ st' = [st EXCEPT ![n] = NicNodeStep(st[n], "HSE_OK").state]
    BY <1>9 DEF PllLocked, app, At
  <2>2. NicNodeStep(st[n], "HSE_OK").state = "BOOT" => st[n] = "BOOT"
    BY DEF NicNodeStep, Step
  <2> QED BY <1>0, <2>1, <2>2 DEF Passes
<1>10. ~Calibrate(n) /\ ~Transmitted(n) BY <1>0 DEF Calibrate, Transmitted, At
<1> QED
  BY <1>0, <1>1, <1>3, <1>5, <1>6, <1>7, <1>8, <1>9, <1>10 DEF Loop, SwitchToHse
----------------------------------------------------------------------------
(* Everybody keeps their manners.                                          *)

\* Any two members equal: at most one member.
LEMMA AtMostOne ==
  ASSUME NEW S, \A x, y \in S : x = y
  PROVE  Cardinality(S) \in Nat /\ Cardinality(S) <= 1
<1>1. CASE S = {}
  BY <1>1, FS_EmptySet
<1>2. CASE S # {}
  <2>1. PICK x : x \in S BY <1>2
  <2>2. S = {x} BY <2>1
  <2> QED BY <2>2, FS_Singleton
<1> QED BY <1>1, <1>2

\* Frames clash only when two stations talk.
LEMMA NoNewClash ==
  ASSUME Overlap, \A x, y \in Talkers' : x = y
  PROVE  clash' = clash \cap Talkers'
<1>1. Cardinality(Talkers') \in Nat /\ Cardinality(Talkers') <= 1 BY AtMostOne
<1> QED BY <1>1 DEF Overlap

LEMMA NobodyClashes ==
  ASSUME Overlap
  PROVE  Talkers' = {} => clash' = {}
BY NoNewClash

\* A number is nobody else's as long as no number changes.
LEMMA SameNumbers == ASSUME UNCHANGED sAddr PROVE Distinct' <=> Distinct
BY DEF Distinct

\* Nobody is asked, or given a number, but by a master all listen to.
LEMMA Pended ==
  ASSUME Manners, NEW n \in Node, IsCtrl(n)
  PROVE  Pending(n)
BY DEF Manners

\* A node that listens goes on listening unless it hears a SYNC.
LEMMA StaysUp ==
  ASSUME Up, NEW n \in Node, Passes(n), ~Command(n, "SYNC")
  PROVE  Up'
BY DEF Up, Passes

\* Numbers change with an ASSIGN_ADDR only.
LEMMA NumbersStand ==
  ASSUME NetTypeOK, NetTypeOK', NEW n \in Node, Passes(n), ~Command(n, "ASSIGN_ADDR")
  PROVE  UNCHANGED sAddr
<1>1. sAddr \in [Node -> Addr] /\ sAddr' \in [Node -> Addr] BY DEF NetTypeOK, TypeOK
<1>2. \A m \in Node : sAddr'[m] = sAddr[m] BY DEF Passes
<1> QED BY <1>1, <1>2

\* A node's loop keeps them.
LEMMA NodeRunsManners ==
  ASSUME NetTypeOK, Manners, NEW n \in Node, NodeRuns(n)
  PROVE  Manners'
<1>0. /\ TypeOK /\ NetTypeOK' /\ NodeManners(n) /\ sAddr \in [Node -> Addr]
  BY NodeRunsType DEF NetTypeOK, Manners, TypeOK
<1>1. UNCHANGED <<mpc, poll, mtx, mrx, nodes>> /\ Overlap
  BY DEF NodeRuns, master
<1>2. Passes(n)
  <2>1. IsCtrl(n) => rx[n].op \notin Unsaid BY Pended DEF Pending
  <2> QED BY <1>0, <2>1, NodePasses
<1>3. (Polling' <=> Polling) /\ (Opening' <=> Opening) /\ (Booting' <=> Booting)
  BY <1>1 DEF Polling, Opening, Booting
<1>4. ~Command(n, "ASSIGN_ADDR") => UNCHANGED sAddr /\ (Distinct' <=> Distinct)
  BY <1>0, <1>2, NumbersStand, SameNumbers
<1>5. Command(n, "ASSIGN_ADDR") => Up /\ (\A m \in Node : sReply[m] = None) /\ ~Polling
                                    /\ st[n] = "LISTEN"
  BY Pended DEF Command, Pending, Up
<1>6. ASSUME NEW m \in Node PROVE NodeManners(m)'
  <2>1. NodeManners(m) BY DEF Manners
  <2>2. CASE m # n
    <3>1. sReply'[m] # None => ~Distinct' BY <1>2, <1>4, <1>5, <2>1, <2>2 DEF Passes, NodeManners
    <3> QED BY <1>2, <2>1, <2>2, <3>1 DEF Passes, NodeManners
  <2>3. CASE m = n
    <3>1. st'[n] = "BOOT" => sAddr'[n] = HwAddr[n]
      BY <1>2, <1>4, <1>5, <2>1, <2>3 DEF Passes, NodeManners
    <3>2. sReply'[n] # None => ~Distinct'
      <4> SUFFICES ASSUME sReply'[n] # None PROVE ~Distinct' OBVIOUS
      <4>1. CASE sReply'[n] = sReply[n]
        BY <1>4, <1>5, <2>1, <2>3, <4>1 DEF NodeManners
      <4>2. CASE sReply'[n] # sReply[n]
        <5>1. PICK op \in {"DISCOVER", "ASSIGN_ADDR"} \cup QueryOp : Command(n, op)
          BY <1>2, <4>2 DEF Passes
        <5>2. st[n] = "SYNCED" /\ ~Up BY <1>2, <4>2 DEF Passes, Up
        <5>3. IsCtrl(n) /\ rx[n].op = op /\ rx[n].station \in {sAddr[n], Broadcast}
          BY <5>1 DEF Command, ForMe
        <5>4. op \in QueryOp /\ \E k \in Node \ {n} : sAddr[k] = rx[n].station
          BY <5>2, <5>3, Pended DEF Pending
        <5>5. ~Distinct
          <6>1. PICK k \in Node \ {n} : sAddr[k] = rx[n].station BY <5>4
          <6>2. sAddr[k] \in Addr /\ sAddr[k] # Broadcast
            BY <1>0, <6>1, NodeAssumption DEF Broadcast
          <6> QED BY <5>3, <6>1, <6>2 DEF Distinct
        <5>6. ~Command(n, "ASSIGN_ADDR") BY <1>5, <5>2
        <5> QED BY <1>4, <5>5, <5>6
      <4> QED BY <4>1, <4>2
    <3> QED BY <1>2, <2>3, <3>1, <3>2 DEF Passes, NodeManners
  <2> QED BY <2>2, <2>3
<1>7. ASSUME Up, ~Command(n, "SYNC") PROVE Up' /\ \A m \in Node : sReply'[m] \in {sReply[m], None}
  BY <1>2, <1>7, StaysUp DEF Passes, Up
<1>8. ASSUME NEW m \in Node, IsCtrl(m)' PROVE Pending(m)'
  <2>1. IsCtrl(m) /\ rx'[m] = rx[m] BY <1>2, <1>8 DEF IsCtrl, Passes
  <2>2. Pending(m) BY <2>1, Pended
  <2>3. \A k \in Node : rx'[k] # None => rx'[k] = rx'[m]
    BY <1>2, <2>1, <2>2 DEF Pending, Passes
  <2>4. IsCtrl(n) => rx[n] = rx[m] BY <2>2 DEF Pending, IsCtrl
  <2>5. rx[m].op # "SYNC" => ~Command(n, "SYNC") BY <2>4 DEF Command
  <2>6. rx[m].op # "ASSIGN_ADDR" => UNCHANGED sAddr BY <1>4, <2>4 DEF Command
  <2>7. rx[m].op \in {"DISCOVER", "ASSIGN_ADDR"} => Up' BY <1>7, <2>2, <2>5 DEF Pending
  <2>8. rx[m].op \in QueryOp => Up' \/ \E k \in Node \ {m} : sAddr'[k] = rx[m].station
    <3>1. rx[m].op \in QueryOp => rx[m].op # "SYNC" /\ rx[m].op # "ASSIGN_ADDR"
      BY NodeAssumption DEF ProtocolOp
    <3> QED BY <1>7, <2>2, <2>5, <2>6, <3>1 DEF Pending
  <2>9. rx[m].op = "ASSIGN_ADDR" => \A k \in Node : sReply'[k] = None
    BY <1>7, <2>2, <2>5 DEF Pending
  <2> QED BY <1>1, <1>3, <2>1, <2>2, <2>3, <2>7, <2>8, <2>9 DEF Pending
<1>9. Opening => Up /\ Up' /\ ~Command(n, "SYNC")
  <2>1. Opening => Up /\ ~Command(n, "SYNC") BY Pended DEF Manners, Command, Pending
  <2> QED BY <1>7, <2>1
<1>10. Opening' => \A m \in Node : sReply'[m] = None \/ (IsCtrl(m)' /\ rx'[m].op = "DISCOVER")
  <2> SUFFICES ASSUME Opening, NEW m \in Node
               PROVE  sReply'[m] = None \/ (IsCtrl(m)' /\ rx'[m].op = "DISCOVER")
    BY <1>3
  <2>1. st[n] = "LISTEN" /\ pc[n] = "top" BY <1>9 DEF Up
  <2>2. ~FirstCall BY <1>2, <2>1 DEF FirstCall, Passes
  <2>3. sReply[m] = None \/ (IsCtrl(m) /\ rx[m].op = "DISCOVER") BY <2>2 DEF Manners
  <2>4. CASE m # n BY <1>2, <2>3, <2>4 DEF Passes, IsCtrl
  <2>5. CASE m = n BY <1>2, <1>7, <1>9, <2>1, <2>3, <2>5 DEF Passes
  <2> QED BY <2>4, <2>5
<1>11. Talkers' = {} => clash' = {} BY <1>1, NobodyClashes
<1>12. /\ mtx' # None => mtx'.op = Said(mpc') /\ ~(mpc' = "assign" /\ poll' = 1)
       /\ mpc' = "discover" => mrx' = None /\ (Booting' => nodes' = <<>>)
  BY <1>1, <1>3 DEF Manners
<1> QED BY <1>3, <1>6, <1>8, <1>9, <1>10, <1>11, <1>12 DEF Manners

\* A node's frame on the bus keeps them: it is an answer, or not decoded.
LEMMA NodeTransmitsManners ==
  ASSUME ~Lossy, NetTypeOK, Manners, NEW n \in Node, NodeTransmits(n)
  PROVE  Manners'
<1> DEFINE f == Head(tx[n])
<1>0. /\ rx \in [Node -> Heard \cup {None}] /\ tx \in [Node -> Seq(Frames)]
      /\ sAddr \in [Node -> Addr] /\ tx[n] # <<>> /\ tx[n] \in Seq(Frames)
  BY DEF NetTypeOK, TypeOK, Frames, NodeTransmits
<1>1. /\ f \in Frames /\ Len(tx[n]) \in Nat /\ f = tx[n][1] /\ 1 \in DOMAIN tx[n]
      /\ \A i \in DOMAIN Tail(tx[n]) : i + 1 \in DOMAIN tx[n] /\ Tail(tx[n])[i] = tx[n][i + 1]
  BY <1>0
<1>2. f.kind = "ctrl" => f.station = sAddr[n] BY <1>1 DEF Manners, NodeManners
<1> HIDE DEF f
<1>3. /\ UNCHANGED <<mpc, poll, mtx, nodes, sAddr, sReply, st, pc>> /\ Overlap
      /\ tx' = [tx EXCEPT ![n] = Tail(tx[n])]
      /\ mrx' # mrx => mpc # "discover"
  BY DEF NodeTransmits, Hearing, M!Receiving, M!At, M!Arrives, M!table, master, app
<1>4. \A m \in Node : rx[m] = None BY DEF NodeTransmits, InStep
<1> DEFINE g == AtNode(Arriving(f, n))
<1>5. \A m \in Node : rx'[m] # None => m # n /\ rx'[m] = g
  <2>1. PICK who \in SUBSET (CanHear \ {n}) : Carries(f, n, who) BY DEF NodeTransmits, f
  <2> QED BY <1>4, <2>1 DEF Carries
<1>6. g.kind = "ctrl" => /\ g.station = sAddr[n]
                         /\ g.op \in {"STATUS", "ACK", "ERROR"} \cup QueryOp
  <2>1. CASE f.kind = "data"
    <3>1. Arriving(f, n) \in ToMaster /\ Arriving(f, n).kind = "data"
      BY <1>1, <2>1, FrameArrives
    <3> QED BY <3>1, FrameHeard
  <2>2. CASE f.kind # "data"
    <3>1. f \in ReplyFrames BY <1>1, <2>2, FramesTyped DEF Frames
    <3>2. Arriving(f, n) = f \/ Arriving(f, n) = Undecodable BY <2>2 DEF Arriving, Garbled
    <3>3. AtNode(Undecodable).kind = "noise" BY DEF AtNode, Undecodable
    <3>4. AtNode(f) = CtrlFrame(f.station, f.op, 0) BY <3>1, FrameHeard DEF ToMaster, Frames
    <3>5. f.kind = "ctrl" /\ f.op \in {"STATUS", "ACK", "ERROR"} \cup QueryOp
      <4>1. PICK a \in Addr, r \in Reply : f = CtrlFrame(a, r.op, r.val)
        BY <3>1 DEF ReplyFrames
      <4>2. r.op \in {"STATUS", "ACK", "ERROR"} \cup QueryOp BY DEF Reply
      <4> QED BY <4>1, <4>2 DEF CtrlFrame
    <3> QED BY <1>2, <3>2, <3>3, <3>4, <3>5 DEF CtrlFrame
  <2> QED BY <2>1, <2>2
<1> HIDE DEF g
<1>7. g.kind = "ctrl" => /\ g.op \notin Unsaid
                         /\ g.op \notin {"DISCOVER", "ASSIGN_ADDR", "SYNC"}
  BY <1>6, NodeAssumption DEF Unsaid, ProtocolOp
<1>8. /\ (Polling' <=> Polling) /\ (Opening' <=> Opening) /\ (Booting' <=> Booting)
      /\ (Up' <=> Up) /\ (Distinct' <=> Distinct)
  BY <1>3 DEF Polling, Opening, Booting, Up, Distinct
<1>9. ASSUME NEW m \in Node PROVE NodeManners(m)'
  <2>1. NodeManners(m) BY DEF Manners
  <2>2. ASSUME NEW i \in DOMAIN tx'[m], tx'[m][i].kind = "ctrl"
        PROVE  tx'[m][i].station = sAddr[m]
    <3>1. CASE m = n
      <4>1. tx'[n] = Tail(tx[n]) BY <1>0, <1>3
      <4>2. \A k \in DOMAIN tx[n] : tx[n][k].kind = "ctrl" => tx[n][k].station = sAddr[n]
        BY <2>1, <3>1 DEF NodeManners
      <4> QED BY <1>1, <2>2, <3>1, <4>1, <4>2
    <3>2. CASE m # n BY <1>0, <1>3, <2>1, <2>2, <3>2 DEF NodeManners
    <3> QED BY <3>1, <3>2
  <2> QED BY <1>3, <1>8, <2>1, <2>2 DEF NodeManners
<1>10. ASSUME NEW m \in Node, IsCtrl(m)' PROVE Pending(m)'
  <2>1. m # n /\ rx'[m] = g /\ g.kind = "ctrl" BY <1>5, <1>10 DEF IsCtrl
  <2> QED BY <1>3, <1>5, <1>6, <1>7, <2>1 DEF Pending
<1>11. Opening => \A m \in Node : sReply'[m] = None
  <2>1. ~FirstCall BY <1>0 DEF FirstCall
  <2> QED BY <1>3, <1>4, <2>1 DEF Manners, IsCtrl
<1>12. Talkers' = {} => clash' = {} BY <1>3, NobodyClashes
<1>13. /\ mtx' # None => mtx'.op = Said(mpc') /\ ~(mpc' = "assign" /\ poll' = 1)
       /\ mpc' = "discover" => mrx' = None /\ (Booting' => nodes' = <<>>)
  BY <1>3, <1>8 DEF Manners
<1> QED BY <1>8, <1>9, <1>10, <1>11, <1>12, <1>13 DEF Manners

\* The master's frame on the bus keeps them: all who listen have handled what
\* they heard before.
LEMMA MasterTransmitsManners ==
  ASSUME ~Lossy, NetTypeOK, Manners, MasterTransmits
  PROVE  Manners'
<1>0. /\ rx \in [Node -> Heard \cup {None}] /\ tx \in [Node -> Seq(Frames)]
      /\ sAddr \in [Node -> Addr] /\ mtx \in MasterSays /\ mtx # None /\ mpc \in M!Phase
  BY DEF NetTypeOK, MasterTypeOK, TypeOK, Frames, MasterTransmits
<1>1. /\ UNCHANGED <<mpc, poll, mrx, nodes, st, pc, sAddr, sReply, tx>> /\ mtx' = None
      /\ Overlap
  BY DEF MasterTransmits, M!SentOut, M!table, app
<1>2. \A n \in Node : rx[n] = None BY DEF MasterTransmits, InStep
<1>3. \A n \in Node : rx'[n] # None => rx'[n] = AtNode(Arriving(mtx, Master))
  BY <1>0, <1>2 DEF MasterTransmits, Carries
<1>4. Arriving(mtx, Master) \in {mtx, Undecodable}
  BY <1>0, MasterSaysTyped DEF Arriving, Garbled
<1>5. AtNode(mtx) = mtx /\ AtNode(Undecodable).kind = "noise"
  BY <1>0, FrameHeard DEF AtNode, Undecodable
<1>6. \A n \in Node : IsCtrl(n)' => rx'[n] = mtx
  BY <1>3, <1>4, <1>5 DEF IsCtrl
<1>7. /\ (Polling' <=> Polling) /\ (Booting' <=> Booting) /\ (Up' <=> Up)
      /\ (Distinct' <=> Distinct)
  BY <1>1 DEF Polling, Booting, Up, Distinct
<1>8. ASSUME Opening' PROVE Opening /\ mpc # "start"
  BY <1>1, <1>7, <1>8 DEF Opening
<1>9. \A n \in Node : NodeManners(n)'
  BY <1>1, <1>7 DEF Manners, NodeManners
<1>10. mtx.op = Said(mpc) /\ ~(mpc = "assign" /\ poll = 1) BY <1>0 DEF Manners
<1>11. /\ mtx.op = "DISCOVER" => mpc = "await_status"
       /\ mtx.op = "NODE_TYPE" => mpc = "await_type"
       /\ mtx.op = "ASSIGN_ADDR" => mpc = "assign"
       /\ mtx.op = "SYNC" => mpc = "start"
       /\ mtx.op \in {"DISCOVER", "NODE_TYPE", "SYNC", "TICK", "RESEND_DATA", "ASSIGN_ADDR"}
  BY <1>0, <1>10, MasterSaysTyped DEF Said
<1>12. mtx.op \notin Unsaid /\ (mtx.op \in QueryOp => mtx.op = "NODE_TYPE")
  BY <1>11, NodeAssumption, NetAssumption DEF Unsaid, ProtocolOp
<1>13. mpc \in {"await_status", "await_type", "assign"} => Opening /\ Up
  BY DEF Manners, Opening
<1>14. ASSUME NEW n \in Node, IsCtrl(n)' PROVE Pending(n)'
  <2>1. rx'[n] = mtx BY <1>6, <1>14
  <2>2. \A m \in Node : rx'[m] # None => rx'[m] = rx'[n]
    <3>1. rx'[n] # None BY <1>14 DEF IsCtrl
    <3> QED BY <1>3, <3>1
  <2>3. mtx.op = "ASSIGN_ADDR" => /\ \A m \in Node : sReply'[m] = None
                                  /\ ~Polling' /\ ~(mpc' = "assign" /\ poll' = 1)
    <3> SUFFICES ASSUME mtx.op = "ASSIGN_ADDR"
                 PROVE  /\ \A m \in Node : sReply[m] = None
                        /\ ~Polling /\ ~(mpc = "assign" /\ poll = 1)
      BY <1>1, <1>7
    <3>1. mpc = "assign" BY <1>11
    <3>2. \A m \in Node : sReply[m] = None
      BY <1>2, <1>13, <3>1 DEF Manners, FirstCall, IsCtrl
    <3> QED BY <1>10, <3>1, <3>2 DEF Polling
  <2>4. mtx.op = "SYNC" => ~Opening' BY <1>8, <1>11
  <2>5. mtx.op \in {"DISCOVER", "ASSIGN_ADDR"} \cup QueryOp => Up'
    BY <1>7, <1>11, <1>12, <1>13
  <2> QED BY <1>12, <2>1, <2>2, <2>3, <2>4, <2>5 DEF Pending
<1>15. Opening' => \A n \in Node : sReply'[n] = None \/ (IsCtrl(n)' /\ rx'[n].op = "DISCOVER")
  <2> SUFFICES ASSUME Opening', NEW n \in Node
               PROVE  sReply'[n] = None \/ (IsCtrl(n)' /\ rx'[n].op = "DISCOVER")
    OBVIOUS
  <2>1. CASE ~FirstCall BY <1>1, <1>2, <1>8, <2>1 DEF Manners, IsCtrl
  <2>2. CASE FirstCall
    <3>1. mtx.op = "DISCOVER" /\ Arriving(mtx, Master) = mtx
      BY <1>10, <2>2 DEF FirstCall, Said, Arriving
    <3>2. n \in CanHear
      BY <1>2, <1>8, <2>2 DEF FirstCall, CanHear, AtReceive, At, Manners, Up
    <3>3. n # Master BY NetAssumption
    <3>4. rx'[n] = AtNode(mtx) BY <1>0, <3>1, <3>2, <3>3 DEF MasterTransmits, Carries
    <3> QED BY <1>0, <1>5, <3>1, <3>4, MasterSaysTyped DEF IsCtrl
  <2> QED BY <2>1, <2>2
<1>16. Opening' => Up' BY <1>7, <1>8 DEF Manners
<1>17. mpc' = "discover" => mrx' = None /\ (Booting' => nodes' = <<>>)
  BY <1>1, <1>7 DEF Manners
<1>18. Talkers' = {} => clash' = {} BY <1>1, NobodyClashes
<1> QED BY <1>1, <1>9, <1>14, <1>15, <1>16, <1>17, <1>18 DEF Manners

\* A step of the master leaves the nodes alone.
LEMMA MasterAlone ==
  ASSUME MasterRuns
  PROVE  UNCHANGED <<st, pc, sAddr, sReply, rx, tx>> /\ Overlap /\ M!Working
BY DEF MasterRuns, vars, app

\* On a quiet bus nobody has anything to say.
LEMMA QuietIsIdle ==
  ASSUME Quiet
  PROVE  Idle /\ mtx = None /\ \A n \in Node : ~Calls(n) /\ rx[n] = None /\ tx[n] = <<>>
BY DEF Quiet, Talkers, Idle, Active, Calls, IsCtrl

\* What the master says, and in which order it goes through its phases.
LEMMA MasterSpeaks ==
  ASSUME NetTypeOK, M!Working
  PROVE  /\ mtx = None
         /\ mtx' # None => mtx'.op = Said(mpc') /\ ~(mpc' = "assign" /\ poll' = 1)
         /\ mpc' = "discover" => mrx' = None /\ poll' # 1
         /\ Opening' => Opening \/ Booting
         /\ Polling' => Polling \/ Booting
         /\ mpc' = "assign" /\ poll' = 1 => Polling \/ Booting
         /\ Booting => mpc' = "await_status" /\ poll' = 1 /\ mtx' # None
<1>0. /\ poll \in 1..(MaxNodes + 1) /\ MaxNodes \in Nat \ {0} /\ MasterTypeOK'
      /\ mpc \in {"await_status", "await_type"} => poll <= MaxNodes
      /\ MasterTypeOK
  BY WorkingType, NetAssumption DEF NetTypeOK, MasterTypeOK
<1>1. CASE M!Discover
  <2>1. /\ mpc = "discover" /\ mtx = None /\ mpc' = "await_status" /\ poll' = poll
        /\ mtx' = CtrlFrame(poll, "DISCOVER", 0) /\ poll <= MaxNodes
    BY <1>1, SameLink DEF M!Discover, M!At
  <2>2. CtrlFrame(poll, "DISCOVER", 0) \in MasterSays
    <3>1. poll \in Addr BY <1>0, <2>1, NetAssumption, NodeAssumption
    <3> QED BY <3>1 DEF MasterSays
  <2>3. mtx' # None /\ mtx'.op = "DISCOVER" BY <2>1, <2>2, NoneIsNoFrame DEF CtrlFrame
  <2> QED BY <2>1, <2>3 DEF Said, Opening, Polling, Booting
<1>2. CASE M!AwaitStatus
  <2>1. mpc = "await_status" /\ mtx = None /\ mrx' = None BY <1>2 DEF M!AwaitStatus, M!At
  <2>2. \/ mpc' = "await_type" /\ mtx' = CtrlFrame(poll, "NODE_TYPE", 0)
        \/ mpc' = "discover" /\ mtx' = None /\ poll' = poll + 1
    BY <1>2, <2>1, SameLink DEF M!AwaitStatus
  <2> QED BY <1>0, <2>1, <2>2 DEF Said, Opening, Polling, Booting, CtrlFrame
<1>3. CASE M!AwaitType
  <2>1. /\ mpc = "await_type" /\ mtx = None /\ mrx' = None /\ mtx' = None
        /\ mpc' = "discover" /\ poll' = poll + 1
    BY <1>3 DEF M!AwaitType, M!At
  <2> QED BY <1>0, <2>1 DEF Opening, Polling, Booting
<1>4. CASE M!Discovered
  <2>1. /\ mpc = "discover" /\ poll > MaxNodes /\ mtx = None /\ mtx' = None
        /\ mpc' = "assign" /\ poll' = 1
    BY <1>4 DEF M!Discovered, M!At, M!bus
  <2> QED BY <1>0, <2>1 DEF Opening, Polling, Booting
<1>5. CASE M!Assign
  <2>1. /\ mpc = "assign" /\ mtx = None /\ mpc' = "assign" /\ poll' = poll + 1
        /\ mtx' = CtrlFrame(nodes[poll].addr, "ASSIGN_ADDR", poll)
    BY <1>5, SameLink DEF M!Assign, M!At
  <2> QED BY <1>0, <2>1 DEF Said, Opening, Polling, Booting, CtrlFrame
<1>6. CASE M!Assigned \/ M!ClockStart
  <2>1. /\ mpc \in {"assign", "clock"} /\ mtx = None /\ mtx' = None
        /\ mpc' \in {"clock", "sync"}
    BY <1>6 DEF M!Assigned, M!ClockStart, M!At, M!bus
  <2> QED BY <2>1 DEF Opening, Polling, Booting
<1>7. CASE M!SendSync
  <2>1. /\ mpc = "sync" /\ mtx = None /\ mpc' = "start"
        /\ mtx' = CtrlFrame(Broadcast, "SYNC", 0)
    BY <1>7, SameLink DEF M!SendSync, M!At
  <2> QED BY <2>1 DEF Said, Opening, Polling, Booting, CtrlFrame
<1>8. CASE M!Top
  <2>1. /\ mpc = "top" /\ mtx = None
        /\ \/ mpc' = "ticked" /\ mtx' = CtrlFrame(Broadcast, "TICK", 0)
           \/ mpc' = "recv" /\ mtx' = None
    BY <1>8, SameLink DEF M!Top, M!At
  <2> QED BY <2>1 DEF Said, Opening, Polling, Booting, CtrlFrame
<1>9. CASE M!RecvData
  <2>1. /\ mpc = "recv" /\ mtx = None /\ mpc' = "silent"
        /\ mtx' = None \/ mtx' = CtrlFrame(mrx.station, "RESEND_DATA", 0)
    BY <1>9, SameLink DEF M!RecvData, M!Received, M!At
  <2> QED BY <2>1 DEF Said, Opening, Polling, Booting, CtrlFrame
<1>10. CASE M!StartRun \/ M!Ticked \/ M!RecvCtrl \/ M!RecvNothing \/ M!SilentSlot
  <2>1. /\ mpc \in {"start", "ticked", "recv", "silent"} /\ mtx = None /\ mtx' = None
        /\ mpc' \in {"top", "recv", "silent"}
    BY <1>10 DEF M!StartRun, M!Ticked, M!RecvCtrl, M!RecvNothing, M!SilentSlot, M!Received,
                 M!At, M!bus
  <2> QED BY <2>1 DEF Opening, Polling, Booting
<1> QED BY <1>1, <1>2, <1>3, <1>4, <1>5, <1>6, <1>7, <1>8, <1>9, <1>10 DEF M!Working

\* The master's loop keeps them: it waits for the nodes to come up.
LEMMA MasterRunsManners ==
  ASSUME NetTypeOK, Manners, MasterRuns
  PROVE  Manners'
<1>1. UNCHANGED <<st, pc, sAddr, sReply, rx, tx>> /\ Overlap /\ M!Working BY MasterAlone
<1>2. /\ mtx = None
      /\ mtx' # None => mtx'.op = Said(mpc') /\ ~(mpc' = "assign" /\ poll' = 1)
      /\ mpc' = "discover" => mrx' = None /\ poll' # 1
      /\ Opening' => Opening \/ Booting
      /\ Polling' => Polling \/ Booting
      /\ mpc' = "assign" /\ poll' = 1 => Polling \/ Booting
      /\ Booting => mpc' = "await_status" /\ poll' = 1 /\ mtx' # None
  BY <1>1, MasterSpeaks
<1>3. (Distinct' <=> Distinct) /\ (Up' <=> Up) BY <1>1 DEF Distinct, Up
<1>4. Booting => /\ Up /\ Quiet /\ clash = {}
                 /\ \A n \in Node : rx[n] = None /\ tx[n] = <<>>
  BY QuietIsIdle DEF MasterRuns, NodesUp, Up, Manners, Quiet
<1>5. \A n \in Node : NodeManners(n)' BY <1>1, <1>3 DEF Manners, NodeManners
<1>6. ASSUME NEW n \in Node, IsCtrl(n)' PROVE Pending(n)'
  <2>1. IsCtrl(n) /\ ~Booting BY <1>1, <1>4, <1>6 DEF IsCtrl
  <2>2. Pending(n) BY <2>1, Pended
  <2> QED BY <1>1, <1>2, <1>3, <2>1, <2>2 DEF Pending
<1>7. Opening' => Up' BY <1>2, <1>3, <1>4 DEF Manners
<1>8. Booting => FirstCall'
  <2> SUFFICES ASSUME Booting PROVE FirstCall' OBVIOUS
  <2>1. \A x, y \in Talkers' : x = y BY <1>1, <1>4 DEF Talkers
  <2>2. clash' = {} BY <1>1, <1>4, <2>1, NoNewClash
  <2> QED BY <1>1, <1>2, <1>4, <2>2 DEF FirstCall
<1>9. Opening' => \/ FirstCall'
                  \/ \A n \in Node : sReply'[n] = None \/ (IsCtrl(n)' /\ rx'[n].op = "DISCOVER")
  <2>1. ~FirstCall BY <1>2 DEF FirstCall
  <2> QED BY <1>1, <1>2, <1>8, <2>1 DEF Manners, IsCtrl
<1>10. mpc' = "discover" => mrx' = None /\ (Booting' => nodes' = <<>>)
  BY <1>2 DEF Booting
<1>11. Talkers' = {} => clash' = {} BY <1>1, NobodyClashes
<1> QED BY <1>2, <1>5, <1>6, <1>7, <1>9, <1>10, <1>11 DEF Manners

\* A master that resets has said nothing yet.
LEMMA MasterRestartsManners ==
  ASSUME NetTypeOK, Manners, MasterRestarts
  PROVE  Manners'
<1>1. /\ UNCHANGED <<st, pc, sAddr, sReply, rx, tx>> /\ Overlap
      /\ mpc' = "discover" /\ poll' = 1 /\ mtx' = None /\ mrx' = None /\ nodes' = <<>>
  BY DEF MasterRestarts, M!PowerUp, app
<1>2. ~Opening' /\ ~Polling' /\ (Distinct' <=> Distinct) /\ (Up' <=> Up)
  BY <1>1 DEF Opening, Polling, Booting, Distinct, Up
<1>3. \A n \in Node : NodeManners(n)' BY <1>1, <1>2 DEF Manners, NodeManners
<1>4. ASSUME NEW n \in Node, IsCtrl(n)' PROVE Pending(n)'
  <2>1. Pending(n) BY <1>1, <1>4, Pended DEF IsCtrl
  <2> QED BY <1>1, <1>2, <2>1 DEF Pending
<1>5. Talkers' = {} => clash' = {} BY <1>1, NobodyClashes
<1> QED BY <1>1, <1>2, <1>3, <1>4, <1>5 DEF Manners

LEMMA MannersUntouched ==
  ASSUME UNCHANGED <<st, pc, sAddr, sReply, rx, tx, mpc, poll, mtx, mrx, nodes, clash>>
  PROVE  Manners' <=> Manners
<1>1. /\ (Opening' <=> Opening) /\ (FirstCall' <=> FirstCall) /\ (Up' <=> Up)
      /\ (Booting' <=> Booting) /\ (Polling' <=> Polling) /\ (Distinct' <=> Distinct)
      /\ (Talkers' = Talkers)
  BY DEF Opening, FirstCall, Up, Booting, Polling, Distinct, Talkers
<1>2. \A n \in Node : /\ NodeManners(n)' <=> NodeManners(n)
                      /\ (IsCtrl(n) => Pending(n))' <=> (IsCtrl(n) => Pending(n))
  BY <1>1 DEF NodeManners, Pending, IsCtrl
<1> QED BY <1>1, <1>2 DEF Manners, IsCtrl

\* Before the first step nobody has said or heard anything.
LEMMA NetInitManners == NetInit => Manners
<1> SUFFICES ASSUME NetInit PROVE Manners OBVIOUS
<1>1. /\ mpc = "discover" /\ poll = 1 /\ mtx = None /\ mrx = None /\ nodes = <<>>
      /\ clash = {} /\ Init
  BY DEF NetInit, M!Init, M!TableInit
<1>2. \A n \in Node : /\ sAddr[n] = HwAddr[n] /\ pc[n] # "calibrate" /\ tx[n] = <<>>
                      /\ sReply[n] = None /\ rx[n] = None
  BY <1>1 DEF Init
<1>3. \A n \in Node : NodeManners(n) /\ ~IsCtrl(n) BY <1>2 DEF NodeManners, IsCtrl
<1> QED BY <1>1, <1>3 DEF Manners, Opening, Booting

\* Every step of the segment keeps everybody's manners.
LEMMA NetStepManners ==
  ASSUME ~Lossy
  PROVE  NetTypeOK /\ Manners /\ [NetNext]_netvars => Manners'
<1> SUFFICES ASSUME NetTypeOK, Manners, [NetNext]_netvars PROVE Manners' OBVIOUS
<1>1. ASSUME NEW n \in Node, NodeSamples(n) PROVE Manners'
  BY <1>1, MannersUntouched DEF NodeSamples, DrdyIsr, master, app
<1>2. CASE SecondPasses
  BY <1>2, MannersUntouched DEF SecondPasses, M!RtcTick, M!bus, M!table, vars, app
<1>3. CASE UNCHANGED netvars
  BY <1>3, MannersUntouched DEF netvars, vars, master, app
<1> QED
  BY <1>1, <1>2, <1>3, NodeTransmitsManners, NodeRunsManners, MasterTransmitsManners,
     MasterRunsManners, MasterRestartsManners
  DEF NetNext
----------------------------------------------------------------------------
(* A pass of a node's loop while the master asks: the frame it holds is     *)
(* answered at once, or ignored.                                            *)

ReplyTo(op) == IF op = "DISCOVER" THEN "STATUS" ELSE op

\* A handler in LISTEN answers at once and stays there.
LEMMA ListenHandled ==
  ASSUME TypeOK, NEW n \in Node, st[n] = "LISTEN", pc[n] = "top",
         NEW i, NEW r, Handled(n, sAddr[n], i, r, <<>>, "NO_EVENT")
  PROVE  /\ UNCHANGED <<st, pc, sAddr>> /\ tx[n] = <<>>
         /\ rx' = [rx EXCEPT ![n] = None]
         /\ sReply' = [sReply EXCEPT ![n] = None]
         /\ r = None => tx' = [tx EXCEPT ![n] = <<>>]
         /\ r # None => tx' = [tx EXCEPT ![n] = <<CtrlFrame(sAddr[n], r.op, r.val)>>]
<1>1. tx' = [tx EXCEPT ![n] = <<>> \o SendReply(sAddr[n], r)] BY DEF Handled
<1>2. r = None => <<>> \o SendReply(sAddr[n], r) = <<>> BY DEF SendReply
<1>3. r # None => <<>> \o SendReply(sAddr[n], r) = <<CtrlFrame(sAddr[n], r.op, r.val)>>
  <2> DEFINE f == CtrlFrame(sAddr[n], r.op, r.val)
  <2>1. r # None => SendReply(sAddr[n], r) = <<f>> BY DEF SendReply
  <2> HIDE DEF f
  <2>2. <<>> \o <<f>> = <<f>> OBVIOUS
  <2> QED BY <2>1, <2>2 DEF f
<1>4. pc' = pc /\ st' = st /\ sAddr' = sAddr
  <2>1. EndIteration(n, "NO_EVENT") /\ sAddr' = [sAddr EXCEPT ![n] = sAddr[n]]
    BY DEF Handled
  <2>2. pc' = [pc EXCEPT ![n] = "top"] /\ st' = st BY <2>1 DEF EndIteration
  <2>3. pc \in [Node -> Point] /\ sAddr \in [Node -> Addr] BY DEF TypeOK
  <2> QED BY <2>1, <2>2, <2>3
<1> QED BY <1>1, <1>2, <1>3, <1>4 DEF Handled, AtReceive, At

\* What the pass of a node that listens comes to.
Replies(n) ==
  /\ UNCHANGED <<st, pc, sAddr>> /\ tx[n] = <<>> /\ IsCtrl(n)
  /\ rx' = [rx EXCEPT ![n] = None]
  /\ sReply' = [sReply EXCEPT ![n] = None]
  /\ Calls(n) => \E v : tx' = [tx EXCEPT ![n] = <<CtrlFrame(sAddr[n], ReplyTo(rx[n].op), v)>>]
  /\ ~Calls(n) => tx' = tx

\* While the master asks, a receive is one of Replies.
LEMMA AskingReceives ==
  ASSUME TypeOK, Asking, NEW n \in Node, Receive(n)
  PROVE  Replies(n)
<1>0. /\ st[n] = "LISTEN" /\ pc[n] = "top" /\ sReply[n] = None
      /\ rx[n] # None => rx[n].kind = "ctrl" /\ rx[n].op \in Asked \cup {"STATUS"}
      /\ tx \in [Node -> Seq(Frames)]
  BY DEF Asking, Up, TypeOK, Frames
<1>1. QueryOp \cap (ProtocolOp \cup CfgOp) = {} /\ CfgOp \cap ProtocolOp = {}
      /\ "NODE_TYPE" \in QueryOp
  BY NodeAssumption, NetAssumption
<1>2. ASSUME NEW r \in Reply, IsCtrl(n), Calls(n), r.op = ReplyTo(rx[n].op),
             Handled(n, sAddr[n], sIndex[n], r, <<>>, "NO_EVENT")
      PROVE  Replies(n)
  <2>1. r # None BY NoneAssumption
  <2>2. /\ UNCHANGED <<st, pc, sAddr>> /\ tx[n] = <<>> /\ rx' = [rx EXCEPT ![n] = None]
        /\ sReply' = [sReply EXCEPT ![n] = None]
        /\ tx' = [tx EXCEPT ![n] = <<CtrlFrame(sAddr[n], r.op, r.val)>>]
    <3>1. st[n] = "LISTEN" /\ pc[n] = "top" BY <1>0
    <3>2. Handled(n, sAddr[n], sIndex[n], r, <<>>, "NO_EVENT") BY <1>2
    <3> QED BY <2>1, <3>1, <3>2, ListenHandled
  <2> QED BY <1>2, <2>2 DEF Replies
<1>3. CASE OnDiscover(n)
  <2> DEFINE r == [op |-> "STATUS", val |-> PayloadLen(sMap[n])]
  <2>1. r \in Reply /\ r.op = "STATUS" BY DEF Reply, TypeOK
  <2>2. Calls(n) /\ IsCtrl(n) /\ rx[n].op = "DISCOVER"
    BY <1>3 DEF OnDiscover, Command, Calls, Asked
  <2>3. Handled(n, sAddr[n], sIndex[n], r, <<>>, "NO_EVENT")
    BY <1>3 DEF OnDiscover, Answers
  <2> HIDE DEF r
  <2> QED BY <1>2, <2>1, <2>2, <2>3 DEF ReplyTo
<1>4. CASE OnQuery(n)
  <2>1. PICK op \in QueryOp : Command(n, op) /\ Answers(n, op, 0) BY <1>4 DEF OnQuery
  <2> DEFINE r == [op |-> op, val |-> 0]
  <2>2. r \in Reply /\ r.op = op BY DEF Reply
  <2>3. IsCtrl(n) /\ rx[n].op = op /\ op = "NODE_TYPE"
    BY <1>0, <1>1, <2>1 DEF Command, IsCtrl, Asked, ProtocolOp
  <2>4. Calls(n) BY <2>1, <2>3 DEF Command, Calls, Asked
  <2>5. Handled(n, sAddr[n], sIndex[n], r, <<>>, "NO_EVENT") BY <2>1 DEF Answers
  <2> HIDE DEF r
  <2> QED BY <1>2, <2>2, <2>3, <2>4, <2>5 DEF ReplyTo
<1>5. CASE OnOther(n)
  <2>1. IsCtrl(n) /\ ~Calls(n) BY <1>5 DEF OnOther, Calls, Asked
  <2>2. Handled(n, sAddr[n], sIndex[n], None, <<>>, "NO_EVENT")
    BY <1>0, <1>5 DEF OnOther, Raises
  <2>3. /\ UNCHANGED <<st, pc, sAddr>> /\ tx[n] = <<>> /\ rx' = [rx EXCEPT ![n] = None]
        /\ sReply' = [sReply EXCEPT ![n] = None] /\ tx' = [tx EXCEPT ![n] = <<>>]
    BY <1>0, <2>2, ListenHandled
  <2>4. tx' = tx BY <1>0, <2>3
  <2> QED BY <2>1, <2>3, <2>4 DEF Replies
<1>6. ASSUME IsCtrl(n)
      PROVE  rx[n].op \notin CfgOp \cup {"CALIBRATE", "SYNC", "HARD_RESET", "TICK",
                                         "RESEND_DATA", "TOKEN", "ASSIGN_ADDR"}
  BY <1>0, <1>1, <1>6 DEF IsCtrl, Asked, ProtocolOp
<1>7. ~NoCtrl(n) BY <1>0 DEF NoCtrl
<1> QED
  BY <1>3, <1>4, <1>5, <1>6, <1>7
  DEF Receive, OnCfg, OnAssign, OnCalibrate, OnSync, OnHardReset, OnTick, OnResend, OnToken,
      Command

\* Nor is there anything else a node could do.
LEMMA AskingRuns ==
  ASSUME TypeOK, Asking, NEW n \in Node, NodeRuns(n)
  PROVE  Replies(n)
<1>1. st[n] = "LISTEN" /\ pc[n] = "top" /\ tx[n] = <<>> /\ Loop(n)
  BY DEF Asking, Up, NodeRuns
<1>2. Receive(n)
  BY <1>1
  DEF Loop, Boot, Detect, InitSensors, LeaveFault, TakeClockLost, ClockStillThere,
      SampleToBuffer, NoSample, SendSlot, SlotNotDue, Calibrate, At, Transmitted,
      SwitchToHse, Uart2DisableIrq, Uart2Deinit, RemapRxToHse, SelectHse, PllLocked, PllTimeout,
      Recover, RemapHseToRx, Uart2Reinit, SelectRc, Poke
<1> QED BY <1>2, AskingReceives

\* A reply moves the word from the receiver of a node to its transmitter.
LEMMA RepliesEffect ==
  ASSUME TypeOK, Asking, NEW n \in Node, Replies(n), NEW m \in Node
  PROVE  /\ Active(m)' <=> Active(m)
         /\ Calls(m)' => m # n /\ Calls(m) /\ rx'[m] = rx[m]
         /\ sReply'[m] = None
         /\ rx'[m] \in {rx[m], None}
         /\ tx'[m] # <<>> =>
              \/ m # n /\ tx'[m] = tx[m]
              \/ /\ m = n /\ Calls(n)
                 /\ \E v : tx'[m] = <<CtrlFrame(sAddr[n], ReplyTo(rx[n].op), v)>>
<1>0. /\ rx \in [Node -> Heard \cup {None}] /\ tx \in [Node -> Seq(Frames)]
      /\ sReply \in [Node -> Reply \cup {None}] /\ sReply[m] = None
  BY DEF TypeOK, Frames, Asking
<1>1. CASE m # n
  <2>1. rx'[m] = rx[m] /\ tx'[m] = tx[m] /\ sAddr' = sAddr /\ sReply'[m] = sReply[m]
    <3>1. Calls(n) => tx'[m] = tx[m] BY <1>0, <1>1 DEF Replies
    <3> QED BY <1>0, <1>1, <3>1 DEF Replies
  <2>2. Calls(m)' <=> Calls(m) BY <2>1 DEF Calls, IsCtrl, ForMe
  <2> QED BY <1>0, <1>1, <2>1, <2>2 DEF Active
<1>2. CASE m = n
  <2>1. rx'[n] = None /\ tx[n] = <<>> /\ sReply'[n] = None BY <1>0 DEF Replies
  <2>2. ~Calls(n)' BY <2>1 DEF Calls, IsCtrl
  <2>3. Calls(n) => \E v : tx'[n] = <<CtrlFrame(sAddr[n], ReplyTo(rx[n].op), v)>>
    <3> SUFFICES ASSUME Calls(n)
                 PROVE  \E v : tx'[n] = <<CtrlFrame(sAddr[n], ReplyTo(rx[n].op), v)>>
      OBVIOUS
    <3>1. PICK v : tx' = [tx EXCEPT ![n] = <<CtrlFrame(sAddr[n], ReplyTo(rx[n].op), v)>>]
      BY DEF Replies
    <3>2. tx'[n] = <<CtrlFrame(sAddr[n], ReplyTo(rx[n].op), v)>> BY <1>0, <3>1
    <3> QED BY <3>2
  <2>4. Calls(n) => tx'[n] # <<>>
    <3>1. \A x : <<x>> # <<>> OBVIOUS
    <3> QED BY <2>3, <3>1
  <2>5. ~Calls(n) => tx'[n] = <<>> BY <2>1 DEF Replies
  <2> QED BY <1>2, <2>1, <2>2, <2>3, <2>4, <2>5 DEF Active
<1> QED BY <1>1, <1>2

\* It leaves the conversation in order.
LEMMA RepliesAsking ==
  ASSUME TypeOK, Asking, NEW n \in Node, Replies(n), UNCHANGED mtx, Overlap
  PROVE  Asking'
<1>0. UNCHANGED <<st, pc, sAddr>> BY DEF Replies
<1>1. \A m \in Node : /\ Active(m)' <=> Active(m)
                      /\ Calls(m)' => m # n /\ Calls(m) /\ rx'[m] = rx[m]
                      /\ sReply'[m] = None /\ rx'[m] \in {rx[m], None}
  BY RepliesEffect
<1>2. Up' /\ Distinct' BY <1>0 DEF Asking, Up, Distinct
<1>3. \A m, k \in Node : Active(m)' /\ Active(k)' => m = k BY <1>1 DEF Asking
<1>4. mtx' # None => Idle' BY <1>1 DEF Asking, Idle
<1>5. ASSUME NEW m \in Node
      PROVE  /\ rx'[m] # None => rx'[m].kind = "ctrl" /\ rx'[m].op \in Asked \cup {"STATUS"}
             /\ tx'[m] # <<>> => /\ Len(tx'[m]) = 1 /\ Head(tx'[m]).kind = "ctrl"
                                 /\ Head(tx'[m]).station = sAddr'[m]
                                 /\ Head(tx'[m]).op \in {"STATUS", "NODE_TYPE"}
             /\ Calls(m)' => tx'[m] = <<>>
  <2>1. rx'[m] # None => rx'[m].kind = "ctrl" /\ rx'[m].op \in Asked \cup {"STATUS"}
    BY <1>1 DEF Asking
  <2>2. CASE tx'[m] = <<>> BY <2>1, <2>2
  <2>3. CASE m # n /\ tx'[m] = tx[m]
    BY <1>0, <1>1, <2>1, <2>3 DEF Asking
  <2>4. ASSUME NEW v, m = n, Calls(n),
               tx'[m] = <<CtrlFrame(sAddr[n], ReplyTo(rx[n].op), v)>>
        PROVE  /\ Len(tx'[m]) = 1 /\ Head(tx'[m]).kind = "ctrl"
               /\ Head(tx'[m]).station = sAddr'[m]
               /\ Head(tx'[m]).op \in {"STATUS", "NODE_TYPE"} /\ ~Calls(m)'
    <3>1. ReplyTo(rx[n].op) \in {"STATUS", "NODE_TYPE"}
      BY <2>4 DEF Calls, Asked, ReplyTo
    <3>2. ~Calls(m)' BY <1>1, <2>4
    <3> QED BY <1>0, <2>4, <3>1, <3>2 DEF CtrlFrame
  <2> QED BY <2>1, <2>2, <2>3, <2>4, RepliesEffect
<1>6. clash' = {}
  <2>1. \A x, y \in Talkers' : x = y
    BY <1>3, <1>4 DEF Talkers, Idle, Active
  <2> QED BY <2>1, NoNewClash DEF Asking
<1> QED BY <1>1, <1>2, <1>3, <1>4, <1>5, <1>6 DEF Asking

\* What Conducted says of the table holds on while neither it nor a number changes.
LEMMA TableStands ==
  ASSUME UNCHANGED <<sAddr, mpc, poll, nodes>>
  PROVE  /\ (Distinct' <=> Distinct) /\ (Polling' <=> Polling) /\ (Booting' <=> Booting)
         /\ (Ascending' <=> Ascending)
         /\ \A k : Found(k)' <=> Found(k)
BY DEF Distinct, Polling, Booting, Ascending, Found, M!Known

\* A node that answers keeps discovery conducted.
LEMMA NodeRunsConducted ==
  ASSUME DiscoveryInv, NEW n \in Node, NodeRuns(n)
  PROVE  Conducted'
<1>0. TypeOK /\ NetTypeOK' /\ Manners /\ Conducted
  BY NodeRunsType DEF DiscoveryInv, NetTypeOK
<1>1. UNCHANGED <<mpc, poll, mtx, mrx, nodes>> /\ Overlap
  BY DEF NodeRuns, master
<1> SUFFICES ASSUME Polling \/ (mpc = "assign" /\ poll = 1)
             PROVE  Conducted'
  BY <1>1 DEF Conducted, Polling, Booting
<1>2. UNCHANGED sAddr
  <2>1. Passes(n)
    <3>1. IsCtrl(n) => rx[n].op \notin Unsaid BY <1>0, Pended DEF Pending
    <3> QED BY <1>0, <3>1, NodePasses DEF Manners
  <2>2. ~Command(n, "ASSIGN_ADDR") BY <1>0, Pended DEF Command, Pending
  <2> QED BY <1>0, <2>1, <2>2, NumbersStand DEF DiscoveryInv
<1>3. /\ (Distinct' <=> Distinct) /\ (Polling' <=> Polling) /\ (Booting' <=> Booting)
      /\ (Ascending' <=> Ascending) /\ \A k : Found(k)' <=> Found(k)
  BY <1>1, <1>2, TableStands
<1>4. ASSUME Polling, Distinct PROVE (Asking /\ Discovering)'
  <2>1. Asking /\ Discovering BY <1>0, <1>4 DEF Conducted
  <2>2. Replies(n) BY <1>0, <2>1, AskingRuns
  <2>3. Asking' BY <1>0, <1>1, <2>1, <2>2, RepliesAsking
  <2>4. \A m \in Node :
          /\ Active(m)' <=> Active(m)
          /\ Calls(m)' => m # n /\ Calls(m) /\ rx'[m] = rx[m]
          /\ tx'[m] # <<>> =>
               \/ m # n /\ tx'[m] = tx[m]
               \/ /\ m = n /\ Calls(n)
                  /\ \E v : tx'[m] = <<CtrlFrame(sAddr[n], ReplyTo(rx[n].op), v)>>
    BY <1>0, <2>1, <2>2, RepliesEffect
  <2>5. Idle' <=> Idle BY <2>4 DEF Idle
  <2>6. ASSUME NEW query, NEW reply, reply = ReplyTo(query), Conversation(query, reply)
        PROVE  Conversation(query, reply)'
    <3>1. mtx' = None /\ mrx' = None => \A m \in Node :
            /\ sAddr'[m] = poll' <=> Active(m)'
            /\ Calls(m)' => rx'[m].op = query
            /\ tx'[m] # <<>> => Head(tx'[m]).op = reply
      <4> SUFFICES ASSUME mtx = None, mrx = None, NEW m \in Node
                   PROVE  /\ sAddr'[m] = poll' <=> Active(m)'
                          /\ Calls(m)' => rx'[m].op = query
                          /\ tx'[m] # <<>> => Head(tx'[m]).op = reply
        BY <1>1
      <4>1. tx'[m] # <<>> => Head(tx'[m]).op = reply
        <5>1. ASSUME NEW v, m = n, Calls(n),
                     tx'[m] = <<CtrlFrame(sAddr[n], ReplyTo(rx[n].op), v)>>
              PROVE  Head(tx'[m]).op = reply
          BY <2>6, <5>1 DEF Conversation, CtrlFrame
        <5> QED BY <2>4, <2>6, <5>1 DEF Conversation
      <4> QED BY <1>1, <1>2, <2>4, <2>6, <4>1 DEF Conversation
    <3>2. mtx' = None /\ mrx' # None =>
            /\ mrx'.kind = "ctrl" /\ mrx'.op = reply /\ mrx'.station = poll'
            /\ (\E m \in Node : sAddr'[m] = poll') /\ Idle'
      BY <1>1, <1>2, <2>5, <2>6 DEF Conversation
    <3>3. mtx' # None => mtx' = CtrlFrame(poll', query, 0) /\ mrx' = None
      BY <1>1, <2>6 DEF Conversation
    <3> QED BY <3>1, <3>2, <3>3 DEF Conversation
  <2>7. Discovering'
    BY <1>1, <1>3, <2>1, <2>5, <2>6 DEF Discovering, ReplyTo
  <2> QED BY <2>3, <2>7
<1> QED BY <1>0, <1>1, <1>3, <1>4 DEF Conducted
----------------------------------------------------------------------------
(* The answer goes out: everybody hears it, nobody takes it for a question. *)

\* Nobody is called upon, and nobody talks.
Hushed == /\ UNCHANGED <<mpc, poll, mtx, nodes, sAddr>> /\ mtx = None
          /\ \A m \in Node : tx'[m] = <<>> /\ ~Calls(m)'
          /\ Talkers' = {} /\ Idle'

\* An answer reaches all who listen and calls on none of them.
LEMMA AskingTransmits ==
  ASSUME ~Lossy, NetTypeOK, Asking, NEW n \in Node, NodeTransmits(n)
  PROVE  /\ Hushed /\ Asking' /\ Active(n) /\ tx[n] # <<>>
         /\ Arriving(Head(tx[n]), n) = Head(tx[n])
         /\ Head(tx[n]) # None /\ Head(tx[n]).kind = "ctrl" /\ Head(tx[n]).station = sAddr[n]
<1> DEFINE f == Head(tx[n])
<1>0. /\ rx \in [Node -> Heard \cup {None}] /\ tx \in [Node -> Seq(Frames)]
      /\ sAddr \in [Node -> Addr] /\ Distinct /\ Up /\ \A m \in Node : sReply[m] = None
  BY DEF NetTypeOK, TypeOK, Frames, Asking
<1>1. /\ tx[n] # <<>> /\ tx[n] \in Seq(Frames) /\ Len(tx[n]) = 1 /\ f.kind = "ctrl"
      /\ f.station = sAddr[n] /\ f.op \in {"STATUS", "NODE_TYPE"}
      /\ Active(n)
  BY <1>0 DEF NodeTransmits, Asking, Active
<1>2. f \in ReplyFrames /\ f # None /\ Tail(tx[n]) = <<>>
  <2>1. f \in Frames /\ Tail(tx[n]) \in Seq(Frames) /\ Len(Tail(tx[n])) = 0
    BY <1>1, HeadTailProperties
  <2>2. Tail(tx[n]) = <<>> BY <2>1, EmptySeq
  <2>3. f.kind = "ctrl" BY <1>1
  <2> HIDE DEF f
  <2>4. f # None BY <2>1, NoneIsNoFrame
  <2>5. f \in ReplyFrames BY <2>1, <2>3, FramesTyped DEF Frames
  <2> QED BY <2>2, <2>4, <2>5
<1> HIDE DEF f
<1>3. Arriving(f, n) = f BY DEF Arriving, Asking
<1>4. \A m \in Node : rx[m] = None BY DEF NodeTransmits, InStep
<1>5. \A m \in Node : m # n => tx[m] = <<>>
  BY <1>1 DEF Asking, Active
<1>6. mtx = None BY <1>1 DEF Asking, Idle
<1>7. UNCHANGED <<mpc, poll, mtx, nodes, st, pc, sAddr, sReply>>
  BY DEF NodeTransmits, M!Arrives, M!table, master, app
<1>8. \A m \in Node : tx'[m] = <<>>
  BY <1>0, <1>2, <1>5 DEF NodeTransmits, f
<1>9. \A m \in Node : rx'[m] # None => m # n /\ rx'[m] = CtrlFrame(sAddr[n], f.op, 0)
  <2>1. PICK who \in SUBSET (CanHear \ {n}) : Carries(f, n, who) BY DEF NodeTransmits, f
  <2>2. \A m \in Node : rx'[m] = IF m \in who THEN AtNode(Arriving(f, n)) ELSE rx[m]
    BY <2>1 DEF Carries
  <2>3. AtNode(f) = CtrlFrame(f.station, f.op, 0)
    BY <1>2, FrameHeard DEF ToMaster, Frames
  <2> QED BY <1>1, <1>3, <1>4, <2>1, <2>2, <2>3 DEF f
<1>10. \A m \in Node : ~Calls(m)'
  <2>1. \A m \in Node : m # n => sAddr[m] # sAddr[n] BY <1>0 DEF Distinct
  <2>2. sAddr[n] # Broadcast BY <1>0, NodeAssumption DEF Broadcast
  <2> QED BY <1>7, <1>9, <2>1, <2>2 DEF Calls, IsCtrl, ForMe, CtrlFrame
<1>11. Talkers' = {} /\ Idle' BY <1>6, <1>7, <1>8, <1>10 DEF Talkers, Idle, Active
<1>12. Asking'
  <2>1. clash' = {} BY <1>11, NobodyClashes DEF NodeTransmits
  <2>2. \A m \in Node :
          /\ rx'[m] # None => rx'[m].kind = "ctrl" /\ rx'[m].op \in Asked \cup {"STATUS"}
          /\ \A k \in Node : Active(m)' /\ Active(k)' => m = k
    BY <1>1, <1>9, <1>11 DEF CtrlFrame, Asked, Idle, f
  <2>3. Up' /\ Distinct' BY <1>0, <1>7 DEF Up, Distinct
  <2> QED BY <1>0, <1>6, <1>7, <1>8, <2>1, <2>2, <2>3 DEF Asking
<1> QED BY <1>1, <1>2, <1>3, <1>6, <1>7, <1>8, <1>10, <1>11, <1>12 DEF Hushed, f

\* An answer on the wire keeps discovery conducted.
LEMMA NodeTransmitsConducted ==
  ASSUME ~Lossy, DiscoveryInv, NEW n \in Node, NodeTransmits(n)
  PROVE  Conducted'
<1> DEFINE f == Head(tx[n])
<1>0. NetTypeOK /\ Conducted BY DEF DiscoveryInv
<1>1. UNCHANGED <<mpc, poll, mtx, nodes, sAddr>>
  BY DEF NodeTransmits, M!Arrives, M!table, master, app
<1>2. /\ (Distinct' <=> Distinct) /\ (Polling' <=> Polling) /\ (Booting' <=> Booting)
      /\ (Ascending' <=> Ascending) /\ \A k : Found(k)' <=> Found(k)
  BY <1>1, TableStands
<1>3. ASSUME Polling, Distinct PROVE (Asking /\ Discovering)'
  <2>1. Asking /\ Discovering BY <1>0, <1>3 DEF Conducted
  <2>2. /\ Hushed /\ Asking' /\ Active(n) /\ tx[n] # <<>> /\ Arriving(f, n) = f
        /\ f # None /\ f.kind = "ctrl" /\ f.station = sAddr[n]
    BY <1>0, <2>1, AskingTransmits
  <2> HIDE DEF f
  <2>3. ~Idle BY <2>2 DEF Idle
  <2>4. mpc \in {"await_status", "await_type"}
    BY <1>3, <2>1, <2>3 DEF Polling, Discovering
  <2>5. ASSUME NEW query, NEW reply, Conversation(query, reply)
        PROVE  Conversation(query, reply)'
    <3>1. mtx = None /\ mrx = None BY <2>2, <2>3, <2>5 DEF Conversation, Hushed
    <3>2. sAddr[n] = poll /\ f.op = reply BY <2>2, <2>5, <3>1 DEF Conversation, f
    <3>3. mrx' = f
      <4>1. Hearing BY <2>4, <3>1 DEF Hearing, M!Receiving, M!At
      <4> QED BY <2>2, <4>1 DEF NodeTransmits, M!Arrives, f
    <3> QED BY <1>1, <2>2, <2>5, <3>1, <3>2, <3>3 DEF Conversation, Hushed
  <2>6. Discovering' BY <1>1, <1>2, <2>1, <2>4, <2>5 DEF Discovering
  <2> QED BY <2>2, <2>6
<1> QED BY <1>0, <1>1, <1>2, <1>3 DEF Conducted
----------------------------------------------------------------------------
(* The question goes out: everybody hears it, the one it names will answer. *)

Posed == /\ UNCHANGED <<mpc, poll, mrx, nodes, sAddr>> /\ mtx' = None
         /\ \A m \in Node : /\ tx'[m] = <<>> /\ rx'[m] = mtx
                            /\ Calls(m)' <=> sAddr[m] = mtx.station
                            /\ Active(m)' <=> sAddr[m] = mtx.station

\* A question reaches every node and calls on the one it names.
LEMMA AskingAsks ==
  ASSUME ~Lossy, NetTypeOK, Asking, MasterTransmits,
         mtx.op \in Asked, mtx.station \in Addr
  PROVE  Posed /\ Asking'
<1>0. /\ rx \in [Node -> Heard \cup {None}] /\ tx \in [Node -> Seq(Frames)]
      /\ sAddr \in [Node -> Addr] /\ Distinct /\ Up /\ \A m \in Node : sReply[m] = None
  BY DEF NetTypeOK, TypeOK, Frames, Asking
<1>1. mtx # None /\ mtx \in MasterSays /\ mtx.kind = "ctrl"
  BY MasterSaysTyped DEF MasterTransmits, NetTypeOK, MasterTypeOK
<1>2. \A m \in Node : rx[m] = None /\ tx[m] = <<>> /\ ~Calls(m)
  BY <1>1 DEF MasterTransmits, InStep, Asking, Idle, Active
<1>3. \A m \in Node : rx'[m] = mtx
  <2>1. PICK who \in SUBSET CanHear : Carries(mtx, Master, who) BY DEF MasterTransmits
  <2>2. who = CanHear \ {Master} BY <2>1 DEF Carries
  <2>3. \A m \in Node : m \in CanHear BY <1>0, <1>2 DEF CanHear, AtReceive, At, Up
  <2>4. \A m \in Node : m \in who BY <2>2, <2>3, NetAssumption
  <2>5. Arriving(mtx, Master) = mtx BY DEF Arriving, Asking
  <2>6. AtNode(mtx) = mtx BY <1>1, FrameHeard
  <2> QED BY <2>1, <2>4, <2>5, <2>6 DEF Carries
<1>4. UNCHANGED <<st, pc, sAddr, sReply, tx, mpc, poll, mrx, nodes>> /\ mtx' = None
  BY DEF MasterTransmits, M!SentOut, M!table, app
<1>5. \A m \in Node : Calls(m)' <=> sAddr[m] = mtx.station
  <2>1. mtx.station # Broadcast BY NodeAssumption DEF Broadcast
  <2> QED BY <1>1, <1>3, <1>4, <2>1 DEF Calls, IsCtrl, ForMe
<1>6. \A m \in Node : Active(m)' <=> sAddr[m] = mtx.station
  BY <1>2, <1>4, <1>5 DEF Active
<1>7. Asking'
  <2>1. Talkers' = {} BY <1>2, <1>4 DEF Talkers
  <2>2. clash' = {} BY <2>1, NobodyClashes DEF MasterTransmits
  <2>3. \A m, k \in Node : Active(m)' /\ Active(k)' => m = k
    BY <1>0, <1>6 DEF Distinct
  <2>4. Up' /\ Distinct' BY <1>0, <1>4 DEF Up, Distinct
  <2> QED BY <1>0, <1>1, <1>2, <1>3, <1>4, <2>2, <2>3, <2>4 DEF Asking
<1> QED BY <1>2, <1>3, <1>4, <1>5, <1>6, <1>7 DEF Posed

\* A question on the wire keeps discovery conducted.
LEMMA MasterTransmitsConducted ==
  ASSUME ~Lossy, DiscoveryInv, MasterTransmits
  PROVE  Conducted'
<1>0. NetTypeOK /\ Manners /\ Conducted /\ mtx # None /\ mtx \in MasterSays
  BY DEF DiscoveryInv, NetTypeOK, MasterTypeOK, MasterTransmits
<1>1. UNCHANGED <<mpc, poll, mrx, nodes, sAddr>>
  BY DEF MasterTransmits, M!SentOut, M!table, app
<1>2. /\ (Distinct' <=> Distinct) /\ (Polling' <=> Polling) /\ (Booting' <=> Booting)
      /\ (Ascending' <=> Ascending) /\ \A k : Found(k)' <=> Found(k)
  BY <1>1, TableStands
<1>3. mpc # "discover" BY <1>0, MasterSaysTyped DEF Manners, Said
<1>4. ASSUME Polling, Distinct PROVE (Asking /\ Discovering)'
  <2>1. Asking /\ Discovering BY <1>0, <1>4 DEF Conducted
  <2>2. \E query \in Asked : mtx = CtrlFrame(poll, query, 0)
    BY <1>0, <1>3, <1>4, <2>1 DEF Polling, Discovering, Conversation, Asked
  <2>3. poll \in Addr
    <3>1. poll \in 1..MaxNodes
      BY <1>0, <1>3, <1>4 DEF Polling, NetTypeOK, MasterTypeOK
    <3> QED BY <3>1, NetAssumption, NodeAssumption
  <2>4. mtx.op \in Asked /\ mtx.station \in Addr BY <2>2, <2>3 DEF CtrlFrame
  <2>5. Posed /\ Asking' BY <1>0, <2>1, <2>4, AskingAsks
  <2>6. ASSUME NEW query, NEW reply, Conversation(query, reply)
        PROVE  Conversation(query, reply)'
    <3>1. mtx = CtrlFrame(poll, query, 0) /\ mrx = None BY <1>0, <2>6 DEF Conversation
    <3>2. mtx.station = poll /\ mtx.op = query BY <3>1 DEF CtrlFrame
    <3> QED BY <2>5, <2>6, <3>1, <3>2 DEF Conversation, Posed
  <2>7. Discovering' BY <1>1, <1>2, <1>3, <2>1, <2>6 DEF Discovering
  <2> QED BY <2>5, <2>7
<1> QED BY <1>0, <1>1, <1>2, <1>4 DEF Conducted
----------------------------------------------------------------------------
(* The master's own steps.                                                 *)

\* When the master is about to go on, the word is its own - also when it has
\* just come up.
LEMMA MasterAsks ==
  ASSUME DiscoveryInv, MasterRuns, Distinct, Polling \/ Booting
  PROVE  /\ Asking /\ Ascending /\ nodes \in Tables
         /\ mpc = "discover" => Idle /\ mrx = None /\ Found(poll)
<1>0. /\ NetTypeOK /\ Manners /\ Conducted
      /\ nodes \in Tables
  BY DEF DiscoveryInv, NetTypeOK, MasterTypeOK
<1>1. CASE Polling
  BY <1>0, <1>1 DEF Conducted, Discovering, Manners
<1>2. CASE Booting
  <2>1. Quiet /\ Up BY <1>2 DEF MasterRuns, NodesUp, Up
  <2>2. /\ Idle /\ mtx = None /\ clash = {}
        /\ \A n \in Node : ~Calls(n) /\ rx[n] = None /\ tx[n] = <<>>
    BY <1>0, <2>1, QuietIsIdle DEF Manners, Quiet
  <2>3. \A n \in Node : sReply[n] = None BY <1>0 DEF Manners, NodeManners
  <2>4. nodes = <<>> /\ poll = 1 /\ mpc = "discover" /\ mrx = None
    BY <1>0, <1>2 DEF Manners, Booting
  <2>5. Asking BY <2>1, <2>2, <2>3 DEF Asking, Idle
  <2>6. Found(poll) /\ Ascending BY <2>4 DEF Found, Ascending
  <2> QED BY <1>0, <2>2, <2>4, <2>5, <2>6
<1> QED BY <1>1, <1>2

\* A step that disturbs nobody.
Composed == /\ Asking' /\ UNCHANGED <<sAddr, rx, tx>>
            /\ \A m \in Node : (Calls(m)' <=> Calls(m)) /\ (Active(m)' <=> Active(m))
            /\ Idle' <=> Idle

\* The master speaks only when nobody else has the word.
LEMMA MasterComposed ==
  ASSUME Asking, MasterRuns, mtx = None, mtx' # None => Idle
  PROVE  Composed
<1>1. UNCHANGED <<st, pc, sAddr, sReply, rx, tx>> /\ Overlap BY MasterAlone
<1>2. \A m \in Node : Calls(m)' <=> Calls(m) BY <1>1 DEF Calls, IsCtrl, ForMe
<1>3. \A m \in Node : Active(m)' <=> Active(m) BY <1>1, <1>2 DEF Active
<1>4. Idle' <=> Idle BY <1>3 DEF Idle
<1>5. Asking'
  <2>1. \A x, y \in Talkers' : x = y
    BY <1>1 DEF Talkers, Idle, Active, Asking
  <2>2. clash' = {} BY <1>1, <2>1, NoNewClash DEF Asking
  <2>3. Up' /\ Distinct' BY <1>1 DEF Asking, Up, Distinct
  <2> QED BY <1>1, <1>2, <1>3, <1>4, <2>2, <2>3 DEF Asking
<1> QED BY <1>1, <1>2, <1>3, <1>4, <1>5 DEF Composed

\* Numbers are numbers.
LEMMA AddrNumber == \A a \in Addr : a \in Nat
<1>1. Addr \subseteq 0..254 BY NodeAssumption
<1> QED BY <1>1

LEMMA EntryNumber ==
  ASSUME NEW t \in Tables, NEW i \in DOMAIN t
  PROVE  t[i].addr \in Nat /\ i \in Nat
<1>1. t[i] \in M!Entry BY EntryOf
<1>2. t[i].addr \in Addr BY <1>1 DEF M!Entry
<1>3. i \in Nat BY DEF Tables
<1> QED BY <1>2, <1>3, AddrNumber

\* Numbers are the nodes' own.
LEMMA AskedAgain == ASSUME MasterRuns PROVE Distinct' <=> Distinct
BY MasterAlone DEF Distinct

\* The next number is asked for.
LEMMA DiscoverConducted ==
  ASSUME DiscoveryInv, MasterRuns, M!Discover
  PROVE  Conducted'
<1>1. /\ mpc = "discover" /\ mtx = None /\ poll <= MaxNodes /\ mpc' = "await_status"
      /\ mtx' = CtrlFrame(poll, "DISCOVER", 0) /\ UNCHANGED <<poll, mrx, nodes>>
  BY SameLink DEF M!Discover, M!At, M!table
<1>2. ASSUME Distinct PROVE (Asking /\ Discovering /\ Ascending)'
  <2>1. Asking /\ Idle /\ mrx = None /\ Found(poll) /\ Ascending
    BY <1>1, <1>2, MasterAsks DEF Polling
  <2>2. Composed BY <1>1, <2>1, MasterComposed
  <2>3. Found(poll)' /\ Ascending'
    BY <1>1, <2>1, <2>2 DEF Found, Ascending, Composed, M!Known
  <2>4. mtx' # None
    <3>1. mtx' \in MasterSays
      BY <1>1, NetAssumption, NodeAssumption
      DEF MasterSays, DiscoveryInv, NetTypeOK, MasterTypeOK
    <3> QED BY <3>1, NoneIsNoFrame
  <2>5. Conversation("DISCOVER", "STATUS")' BY <1>1, <2>1, <2>4 DEF Conversation
  <2> QED BY <1>1, <2>2, <2>3, <2>5 DEF Discovering, Composed
<1> QED BY <1>1, <1>2, AskedAgain DEF Conducted

\* The box with number poll has answered: it becomes the last entry.
LEMMA Enlisted ==
  ASSUME nodes \in Tables, Found(poll), Ascending, poll \in 1..MaxNodes,
         \E n \in Node : sAddr[n] = poll, NEW len,
         nodes' = Append(nodes, M!NewEntry(poll, len)), UNCHANGED <<sAddr, poll>>
  PROVE  Found(poll + 1)' /\ Ascending'
<1> DEFINE e == M!NewEntry(poll, len)
<1>0. nodes \in Seq(M!Entry) /\ Len(nodes) \in Nat /\ Len(nodes) < poll /\ poll \in Nat
  BY NetAssumption DEF Tables, Found
<1>1. e.addr = poll BY DEF M!NewEntry
<1> HIDE DEF e
<1>2. /\ DOMAIN nodes' = 1..(Len(nodes) + 1) /\ Len(nodes') = Len(nodes) + 1
      /\ nodes'[Len(nodes) + 1] = e /\ \A i \in 1..Len(nodes) : nodes'[i] = nodes[i]
      /\ DOMAIN nodes = 1..Len(nodes)
  BY <1>0 DEF e
<1>3. \A i \in 1..Len(nodes) : /\ nodes[i].addr < poll /\ nodes[i].addr \in Nat
                               /\ \E n \in Node : sAddr[n] = nodes[i].addr
  BY <1>2, EntryNumber DEF Found
<1>4. \A i \in DOMAIN nodes' : /\ nodes'[i].addr < poll + 1
                               /\ \E n \in Node : sAddr'[n] = nodes'[i].addr
  <2> SUFFICES ASSUME NEW i \in DOMAIN nodes'
               PROVE  /\ nodes'[i].addr < poll + 1
                      /\ \E n \in Node : sAddr'[n] = nodes'[i].addr
    OBVIOUS
  <2>1. CASE i = Len(nodes) + 1 BY <1>0, <1>1, <1>2, <2>1
  <2>2. CASE i \in 1..Len(nodes) BY <1>0, <1>2, <1>3, <2>2
  <2> QED BY <1>0, <1>2, <2>1, <2>2
<1>5. \A i, j \in DOMAIN nodes' : i < j => nodes'[i].addr < nodes'[j].addr
  <2> SUFFICES ASSUME NEW i \in DOMAIN nodes', NEW j \in DOMAIN nodes', i < j
               PROVE  nodes'[i].addr < nodes'[j].addr
    OBVIOUS
  <2>1. i \in 1..Len(nodes) BY <1>0, <1>2
  <2>2. CASE j = Len(nodes) + 1 BY <1>1, <1>2, <1>3, <2>1, <2>2
  <2>3. CASE j \in 1..Len(nodes) BY <1>2, <2>1, <2>3 DEF Ascending
  <2> QED BY <1>0, <1>2, <2>2, <2>3
<1>6. ASSUME NEW n \in Node, sAddr[n] \in 1..poll PROVE M!Known(nodes', sAddr[n])
  <2>1. CASE sAddr[n] = poll BY <1>0, <1>1, <1>2, <2>1 DEF M!Known
  <2>2. CASE sAddr[n] \in 1..(poll - 1)
    <3>1. PICK i \in DOMAIN nodes : nodes[i].addr = sAddr[n]
      BY <2>2 DEF Found, M!Known
    <3>2. i \in DOMAIN nodes' /\ nodes'[i] = nodes[i] BY <1>0, <1>2
    <3> QED BY <3>1, <3>2 DEF M!Known
  <2> QED BY <1>0, <1>6, <2>1, <2>2
<1>7. Len(nodes') < poll + 1 BY <1>0, <1>2
<1>8. (poll + 1) - 1 = poll BY <1>0
<1> QED BY <1>4, <1>5, <1>6, <1>7, <1>8 DEF Found, Ascending

\* An answer, or the timeout: no box has that number.
LEMMA AwaitStatusConducted ==
  ASSUME DiscoveryInv, MasterRuns, M!AwaitStatus
  PROVE  Conducted'
<1>1. mpc = "await_status" /\ mtx = None /\ mrx' = None
  BY DEF M!AwaitStatus, M!At
<1>2. UNCHANGED sAddr BY MasterAlone
<1>3. mpc' # "assign" BY DEF M!AwaitStatus
<1>4. ASSUME Distinct PROVE (Asking /\ Discovering /\ Ascending)'
  <2>1. /\ Asking /\ Found(poll) /\ Conversation("DISCOVER", "STATUS") /\ Ascending
        /\ nodes \in Tables /\ poll \in 1..MaxNodes /\ MaxNodes \in Nat
        /\ \A n \in Node : sAddr[n] \in Nat
    <3>1. sAddr \in [Node -> Addr] BY DEF DiscoveryInv, NetTypeOK, TypeOK
    <3>2. \A n \in Node : sAddr[n] \in Nat BY <3>1, AddrNumber
    <3>3. Polling BY <1>1 DEF Polling, Booting
    <3> QED
      BY <1>1, <1>4, <3>2, <3>3, MasterAsks, NetAssumption
      DEF DiscoveryInv, NetTypeOK, MasterTypeOK, Conducted, Discovering
  <2>2. CASE mrx = None
    <3>1. Idle BY <1>1, <2>2, QuietIsIdle DEF MasterRuns, InTime
    <3>2. mpc' = "discover" /\ poll' = poll + 1 /\ UNCHANGED <<mtx, nodes>>
      BY <2>2 DEF M!AwaitStatus, M!Answer, M!table
    <3>3. Composed BY <1>1, <2>1, <3>2, MasterComposed
    <3>4. \A n \in Node : sAddr[n] # poll BY <1>1, <2>1, <2>2, <3>1 DEF Conversation, Idle
    <3>5. Found(poll)'
      <4>1. Len(nodes') < poll' BY <2>1, <3>2 DEF Found, Tables
      <4>2. ASSUME NEW i \in DOMAIN nodes
            PROVE  nodes[i].addr < poll + 1 /\ \E n \in Node : sAddr[n] = nodes[i].addr
        <5>1. nodes[i].addr < poll /\ \E n \in Node : sAddr[n] = nodes[i].addr
          BY <2>1 DEF Found
        <5>2. nodes[i].addr \in Nat BY <2>1, <5>1
        <5> QED BY <2>1, <5>1, <5>2
      <4>3. \A n \in Node : sAddr[n] \in 1..((poll + 1) - 1) => sAddr[n] \in 1..(poll - 1)
        BY <2>1, <3>4
      <4>4. \A n \in Node : sAddr'[n] \in 1..(poll' - 1) => M!Known(nodes', sAddr'[n])
        BY <1>2, <2>1, <3>2, <4>3 DEF Found, M!Known
      <4> QED BY <1>2, <3>2, <4>1, <4>2, <4>4 DEF Found
    <3>6. Discovering' BY <3>1, <3>2, <3>3, <3>5 DEF Discovering, Composed
    <3>7. Ascending' BY <2>1, <3>2 DEF Ascending
    <3> QED BY <3>3, <3>6, <3>7 DEF Composed
  <2>3. CASE mrx # None
    <3>1. /\ mrx.kind = "ctrl" /\ mrx.op = "STATUS" /\ mrx.station = poll
          /\ (\E n \in Node : sAddr[n] = poll) /\ Idle
      BY <1>1, <2>1, <2>3 DEF Conversation
    <3>2. /\ nodes' = M!Controlled(nodes, mrx) /\ mpc' = "await_type" /\ poll' = poll
          /\ mtx' = CtrlFrame(poll, "NODE_TYPE", 0)
      BY <2>3, <3>1, SameLink DEF M!AwaitStatus, M!Answer, M!OnCtrl
    <3>3. nodes' = Append(nodes, M!NewEntry(poll, mrx.val))
      <4>1. mrx.val \in {PayloadLen(s) : s \in SensorMap}
        <5>1. mrx \in ReplyFrames
          BY <2>3, <3>1, FramesTyped DEF DiscoveryInv, NetTypeOK, MasterTypeOK, ToMaster, Frames
        <5> QED BY <3>1, <5>1, FramesTyped
      <4>2. ~M!Known(nodes, poll) /\ Len(nodes) < MaxNodes /\ poll \in Addr
        BY <2>1, NetAssumption, NodeAssumption DEF Found, M!Known, Tables
      <4>3. M!Controlled(nodes, mrx) = M!Registered(nodes, poll, mrx.val)
        BY <3>1 DEF M!Controlled
      <4> QED BY <2>1, <3>2, <4>1, <4>2, <4>3, RegisteredTable
    <3>4. Found(poll + 1)' /\ Ascending'
      BY <1>2, <2>1, <3>1, <3>2, <3>3, Enlisted
    <3>5. Composed BY <1>1, <2>1, <3>1, MasterComposed
    <3>6. Conversation("NODE_TYPE", "NODE_TYPE")'
      <4>1. mtx' \in MasterSays
        BY <2>1, <3>2, NetAssumption, NodeAssumption DEF MasterSays
      <4> QED BY <1>1, <3>2, <4>1, NoneIsNoFrame DEF Conversation
    <3>7. Discovering' BY <3>2, <3>4, <3>6 DEF Discovering, Found
    <3> QED BY <3>4, <3>5, <3>7 DEF Composed
  <2> QED BY <2>2, <2>3
<1> QED BY <1>3, <1>4, AskedAgain DEF Conducted

\* Known or not, the type is no news to the table.
LEMMA AwaitTypeConducted ==
  ASSUME DiscoveryInv, MasterRuns, M!AwaitType
  PROVE  Conducted'
<1>1. mpc = "await_type" /\ mtx = None /\ mrx' = None /\ mpc' = "discover"
      /\ poll' = poll + 1 /\ UNCHANGED mtx
  BY DEF M!AwaitType, M!At
<1>2. UNCHANGED sAddr BY MasterAlone
<1>3. ASSUME Distinct PROVE (Asking /\ Discovering /\ Ascending)'
  <2>1. /\ Asking /\ Found(poll + 1) /\ Conversation("NODE_TYPE", "NODE_TYPE") /\ Ascending
        /\ nodes \in Tables
    BY <1>1, <1>3, MasterAsks
    DEF DiscoveryInv, Conducted, Discovering, Polling, Booting
  <2>2. InPlace(nodes, nodes') /\ Idle
    <3>1. CASE mrx = None
      <4>1. Quiet BY <1>1, <3>1 DEF MasterRuns, InTime
      <4> QED BY <2>1, <3>1, <4>1, QuietIsIdle, SameTable DEF M!AwaitType, M!Answer, M!table
    <3>2. CASE mrx # None
      <4>1. Idle /\ mrx.op = "NODE_TYPE" BY <1>1, <2>1, <3>2 DEF Conversation
      <4> QED BY <2>1, <4>1, SameTable, AnsweredTable DEF M!AwaitType, M!OnCtrl, M!table
    <3> QED BY <3>1, <3>2
  <2>3. Composed BY <1>1, <2>1, MasterComposed
  <2>4. /\ Len(nodes') = Len(nodes) /\ DOMAIN nodes' = DOMAIN nodes
        /\ \A i \in DOMAIN nodes : nodes'[i].addr = nodes[i].addr
    BY <2>1, <2>2 DEF InPlace, Tables
  <2>5. Ascending' BY <2>1, <2>4 DEF Ascending
  <2>6. Found(poll)' BY <1>1, <1>2, <2>1, <2>4 DEF Found, M!Known
  <2>7. Discovering' BY <1>1, <2>2, <2>3, <2>6 DEF Discovering, Composed
  <2> QED BY <2>3, <2>5, <2>7 DEF Composed
<1> QED BY <1>1, <1>3, AskedAgain DEF Conducted

\* All numbers have been asked for: every box is in the table.
LEMMA DiscoveredConducted ==
  ASSUME DiscoveryInv, MasterRuns, M!Discovered
  PROVE  Conducted'
<1>1. /\ mpc = "discover" /\ mtx = None /\ poll > MaxNodes /\ mpc' = "assign" /\ poll' = 1
      /\ UNCHANGED <<mtx, mrx, nodes>>
  BY DEF M!Discovered, M!At, M!bus, M!table
<1>2. poll = MaxNodes + 1
  BY <1>1, NetAssumption DEF DiscoveryInv, NetTypeOK, MasterTypeOK
<1>3. UNCHANGED sAddr BY MasterAlone
<1>4. Distinct => Found(poll) /\ Ascending BY <1>1, MasterAsks DEF Polling
<1>5. Distinct => Found(MaxNodes + 1)' /\ Ascending'
  BY <1>1, <1>2, <1>3, <1>4 DEF Found, Ascending, M!Known
<1> QED BY <1>1, <1>5, AskedAgain DEF Conducted, Polling

\* Any step of the master keeps discovery conducted.
LEMMA MasterRunsConducted ==
  ASSUME DiscoveryInv, MasterRuns
  PROVE  Conducted'
<1>1. M!Working BY DEF MasterRuns
<1>2. ASSUME ~(M!Discover \/ M!AwaitStatus \/ M!AwaitType \/ M!Discovered)
      PROVE  Conducted'
  <2>1. mpc \notin {"discover", "await_status", "await_type"}
    BY <1>1, <1>2
    DEF M!Working, M!Assign, M!Assigned, M!ClockStart, M!SendSync, M!StartRun, M!Top, M!Ticked,
        M!RecvData, M!RecvCtrl, M!RecvNothing, M!SilentSlot, M!Received, M!At
  <2>2. ~Polling /\ ~Booting BY <2>1 DEF Polling, Booting
  <2>3. ~Polling' /\ ~(mpc' = "assign" /\ poll' = 1)
    BY <1>1, <2>2, MasterSpeaks DEF DiscoveryInv
  <2> QED BY <2>3 DEF Conducted
<1> QED
  BY <1>2, DiscoverConducted, AwaitStatusConducted, AwaitTypeConducted, DiscoveredConducted

\* Steps that have nothing to do with the bus.
LEMMA ConductedUntouched ==
  ASSUME UNCHANGED <<st, pc, sAddr, sReply, rx, tx, mpc, poll, mtx, mrx, nodes, clash>>
  PROVE  Conducted' <=> Conducted
<1>1. /\ (Distinct' <=> Distinct) /\ (Polling' <=> Polling) /\ (Up' <=> Up)
      /\ (Ascending' <=> Ascending) /\ \A k : Found(k)' <=> Found(k)
  BY TableStands DEF Up
<1>2. /\ \A n \in Node : (Calls(n)' <=> Calls(n)) /\ (Active(n)' <=> Active(n))
      /\ Idle' <=> Idle
  BY DEF Calls, Active, Idle, IsCtrl, ForMe
<1>3. Asking' <=> Asking BY <1>1, <1>2 DEF Asking
<1>4. \A q, r : Conversation(q, r)' <=> Conversation(q, r) BY <1>2 DEF Conversation
<1>5. Discovering' <=> Discovering BY <1>1, <1>2, <1>4 DEF Discovering
<1> QED BY <1>1, <1>3, <1>5 DEF Conducted

\* Every step of the segment keeps discovery conducted.
LEMMA NetStepConducted ==
  ASSUME ~Lossy
  PROVE  DiscoveryInv /\ [NetNext]_netvars => Conducted'
<1> SUFFICES ASSUME DiscoveryInv, [NetNext]_netvars PROVE Conducted' OBVIOUS
<1>0. Conducted BY DEF DiscoveryInv
<1>1. ASSUME NEW n \in Node, NodeSamples(n) PROVE Conducted'
  BY <1>0, <1>1, ConductedUntouched DEF NodeSamples, DrdyIsr, master, app
<1>2. CASE SecondPasses
  BY <1>0, <1>2, ConductedUntouched DEF SecondPasses, M!RtcTick, M!bus, M!table, vars, app
<1>3. CASE UNCHANGED netvars
  BY <1>0, <1>3, ConductedUntouched DEF netvars, vars, master, app
<1>4. CASE MasterRestarts
  <2>1. mpc' = "discover" /\ poll' = 1 BY <1>4 DEF MasterRestarts, M!PowerUp
  <2> QED BY <2>1 DEF Conducted, Polling, Booting
<1> QED
  BY <1>1, <1>2, <1>3, <1>4, NodeTransmitsConducted, NodeRunsConducted,
     MasterTransmitsConducted, MasterRunsConducted
  DEF NetNext

LEMMA SegmentDiscovery ==
  ASSUME ~Lossy
  PROVE  NetSpec => []DiscoveryInv
<1>1. NetInit => DiscoveryInv
  <2>1. NetInit => Conducted
    BY DEF NetInit, M!Init, Conducted, Polling, Booting
  <2> QED BY <2>1, NetInitType, NetInitManners DEF DiscoveryInv
<1>2. DiscoveryInv /\ [NetNext]_netvars => DiscoveryInv'
  BY NetStepType, NetStepManners, NetStepConducted DEF DiscoveryInv
<1> QED BY <1>1, <1>2, PTL DEF NetSpec

(* On a bus that loses no frame the master's discovery is arbitrated, into  *)
(* whatever state of the nodes it restarts: from its first question on no   *)
(* two stations talk at once, as long as no two boxes share a number.       *)
THEOREM SegmentArbitrates ==
  ASSUME ~Lossy
  PROVE  NetSpec => []DiscoveryArbitrated
<1>1. DiscoveryInv => DiscoveryArbitrated
  <2> SUFFICES ASSUME Conducted, Polling, Distinct PROVE Cardinality(Talkers) <= 1
    BY DEF DiscoveryInv, DiscoveryArbitrated
  <2>1. Asking BY DEF Conducted
  <2>2. \A x, y \in Talkers : x = y BY <2>1 DEF Asking, Idle, Active, Talkers
  <2> QED BY <2>2, AtMostOne
<1> QED BY SegmentDiscovery, <1>1, PTL

(* And it is complete: when the slots are about to be handed out, the table *)
(* lists every box with a number a master asks for, once, and nothing else. *)
THEOREM SegmentDiscovers ==
  ASSUME ~Lossy
  PROVE  NetSpec => []DiscoveryComplete
<1>1. DiscoveryInv => DiscoveryComplete
  <2> SUFFICES ASSUME DiscoveryInv, mpc = "assign", poll = 1, Distinct
               PROVE  /\ \A i \in DOMAIN nodes : \E n \in Node : sAddr[n] = nodes[i].addr
                      /\ \A i, j \in DOMAIN nodes : nodes[i].addr = nodes[j].addr => i = j
                      /\ \A n \in Node : sAddr[n] \in 1..MaxNodes => M!Known(nodes, sAddr[n])
    BY DEF DiscoveryComplete
  <2>1. Found(MaxNodes + 1) /\ Ascending /\ nodes \in Tables
    BY DEF DiscoveryInv, Conducted, NetTypeOK, MasterTypeOK
  <2>2. ASSUME NEW i \in DOMAIN nodes, NEW j \in DOMAIN nodes, nodes[i].addr = nodes[j].addr
        PROVE  i = j
    <3>1. nodes[i].addr \in Nat /\ i \in Nat /\ j \in Nat BY <2>1, EntryNumber
    <3>2. ~(i < j) /\ ~(j < i) BY <2>1, <2>2, <3>1 DEF Ascending
    <3> QED BY <3>1, <3>2
  <2>3. (MaxNodes + 1) - 1 = MaxNodes BY NetAssumption
  <2> QED BY <2>1, <2>2, <2>3 DEF Found
<1> QED BY SegmentDiscovery, <1>1, PTL
=============================================================================
