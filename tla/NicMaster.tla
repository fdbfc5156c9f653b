----------------------------- MODULE NicMaster -----------------------------
(***************************************************************************)
(* nic-master: the topology table of a segment.  Every function of the     *)
(* library that changes the table is an action here; TableSpec lets a      *)
(* caller use them in any order, MasterApp is the caller this repository   *)
(* has.                                                                    *)
(***************************************************************************)
EXTENDS NicLink, Sequences

CONSTANTS
  Station,   \* addresses a frame may come from, hardware numbers and slots
  Lens,      \* DATA payload lengths a STATUS may announce
  QueryOp,   \* opcodes whose reply is stored in the table
  CritOp,    \* critical commands, those a node acknowledges
  MaxNodes,  \* NIC_MASTER_MAX_NODES
  IndexMod,  \* 2^16 in the code: the width of index and exp_index
  NoOp       \* no command pending

ASSUME MasterAssumption ==
  /\ Station \subseteq 0..254
  /\ Lens \subseteq Nat
  /\ MaxNodes \in Nat \ {0}
  /\ 1..MaxNodes \subseteq Station
  /\ IndexMod \in Nat \ {0, 1}

ReplyOp == {"STATUS", "ACK", "ERROR"} \cup QueryOp

VARIABLES
  nodes,     \* nic_master_t.nodes[0..count-1]
  tokenIdx   \* nic_master_t.token_idx

table == <<nodes, tokenIdx>>

\* "told" stands for type, version, volt_dv, ...: which of them are known.
Entry == [addr : Station, len : Lens, synced : BOOLEAN, exp : 0..(IndexMod - 1),
          pending : CritOp \cup {NoOp}, told : SUBSET QueryOp]

TableInit == nodes = <<>> /\ tokenIdx = 0                  \* nic_master_init
----------------------------------------------------------------------------
(* The functions, as what they do to a table t.                            *)

Known(t, a) == \E i \in DOMAIN t : t[i].addr = a

\* find_node returns the first match.
FindNode(t, a) == CHOOSE i \in DOMAIN t :
                    t[i].addr = a /\ \A j \in 1..(i - 1) : t[j].addr # a

NewEntry(a, len) == [addr |-> a, len |-> len, synced |-> FALSE, exp |-> 0,
                     pending |-> NoOp, told |-> {}]

\* Mutant of Registered: the table is not searched first.
BugRegisteredTwice(t, a, len) ==
  IF Len(t) >= MaxNodes THEN t ELSE Append(t, NewEntry(a, len))
\* Mutant of Registered: a full table is not noticed.
BugRegisteredFull(t, a, len) ==
  IF Known(t, a) THEN [t EXCEPT ![FindNode(t, a)].len = len]
  ELSE Append(t, NewEntry(a, len))

\* Mutant of Registered: in a full table the newcomer takes the last place.
BugRegisteredLast(t, a, len) ==
  IF Known(t, a)           THEN [t EXCEPT ![FindNode(t, a)].len = len]
  ELSE IF Len(t) >= MaxNodes THEN [t EXCEPT ![MaxNodes] = NewEntry(a, len)]
  ELSE Append(t, NewEntry(a, len))

\* nic_master_add_node: refresh the entry, or add one while there is room.
Registered(t, a, len) ==
  IF Known(t, a)           THEN [t EXCEPT ![FindNode(t, a)].len = len]
  ELSE IF Len(t) >= MaxNodes THEN t
  ELSE Append(t, NewEntry(a, len))

\* What nic_master_ingest returns for a DATA frame f.
IngestResult(t, f) ==
  IF Known(t, f.station) THEN DataDecode(f, t[FindNode(t, f.station)].len)
                         ELSE "UNKNOWN"

\* Mutant of HeardFrame: an older index drags the expectation back.
BugHeardFrame(e, f) == [e EXCEPT !.synced = TRUE, !.exp = (f.index + 1) % IndexMod]

\* Mutant of HeardFrame: the expectation counts the frames.
BugHeardStep(e, f) == [e EXCEPT !.synced = TRUE, !.exp = (e.exp + 1) % IndexMod]

\* An accepted frame: its sender is locked, and a newer index is caught up with.
HeardFrame(e, f) ==
  [e EXCEPT !.synced = TRUE,
            !.exp = IF f.index >= e.exp THEN (f.index + 1) % IndexMod ELSE e.exp]

Ingested(t, f) ==
  IF IngestResult(t, f) = "OK"
  THEN LET i == FindNode(t, f.station) IN [t EXCEPT ![i] = HeardFrame(t[i], f)]
  ELSE t

\* nic_master_on_ctrl for one entry: ACK, ERROR, or the answer to a query.
Answered(e, c) ==
  CASE c.op = "ACK"        -> [e EXCEPT !.pending = IF @ = c.val THEN NoOp ELSE @]
    [] c.op = "ERROR"      -> [e EXCEPT !.synced = FALSE]
    [] c.op \in QueryOp    -> [e EXCEPT !.told = @ \cup {c.op}]
    [] OTHER               -> e

Controlled(t, c) ==
  IF c.op = "STATUS" THEN Registered(t, c.station, c.val)
  ELSE IF Known(t, c.station)
  THEN LET i == FindNode(t, c.station) IN [t EXCEPT ![i] = Answered(t[i], c)]
  ELSE t

\* Mutant of Rebased: the TICK is sent, the expectations stay.
BugRebased(t) == t

\* nic_master_on_tick: every expectation re-bases to 0.
Rebased(t) == [i \in DOMAIN t |-> [t[i] EXCEPT !.exp = 0]]

\* nic_master_node_lost.
Lost(t, a) == IF Known(t, a) THEN [t EXCEPT ![FindNode(t, a)].synced = FALSE] ELSE t

\* nic_master_all_lost.
AllLost(t) == t # <<>> /\ \A i \in DOMAIN t : ~t[i].synced

\* nic_master_expect_ack and nic_master_pending.
Expecting(t, a, op) == IF Known(t, a) THEN [t EXCEPT ![FindNode(t, a)].pending = op]
                                      ELSE t
----------------------------------------------------------------------------
(* Any caller.                                                             *)

AddNode(a, len)  == nodes' = Registered(nodes, a, len) /\ UNCHANGED tokenIdx
Ingest(f)        == nodes' = Ingested(nodes, f) /\ UNCHANGED tokenIdx
OnCtrl(c)        == nodes' = Controlled(nodes, c) /\ UNCHANGED tokenIdx
OnTick           == nodes' = Rebased(nodes) /\ UNCHANGED tokenIdx
NodeLost(a)      == nodes' = Lost(nodes, a) /\ UNCHANGED tokenIdx
ExpectAck(a, op) == nodes' = Expecting(nodes, a, op) /\ UNCHANGED tokenIdx

\* token_idx counts from 0 and may stand past the end only of an empty table.
Cursor == IF tokenIdx >= Len(nodes) THEN 0 ELSE tokenIdx
CursorAfter == (Cursor + 1) % Len(nodes)

\* nic_master_next_token: no application of this repository calls it, or
\* nic_master_expect_ack; only the library's tests do.
NextToken == /\ nodes # <<>>
             /\ tokenIdx' = CursorAfter
             /\ UNCHANGED nodes

\* Frames as a caller may pass them in.
CtrlVal(op) == CASE op = "STATUS" -> Lens
                 [] op = "ACK"    -> CritOp
                 [] OTHER         -> {0}
Reply == UNION {{CtrlFrame(a, op, v) : a \in Station, v \in CtrlVal(op)} : op \in ReplyOp}
Data  == {DataFrame(a, i, len) : a \in Station, i \in 0..(IndexMod - 1), len \in Lens}

TableNext ==
  \/ \E a \in Station, len \in Lens : AddNode(a, len)
  \/ \E f \in Data : Ingest(f) \/ \E a \in Station : Ingest(Damaged(f, a))
  \/ \E c \in Reply : OnCtrl(c)
  \/ OnTick \/ NextToken
  \/ \E a \in Station : NodeLost(a)
  \/ \E a \in Station, op \in CritOp : ExpectAck(a, op)

TableSpec == TableInit /\ [][TableNext]_table
----------------------------------------------------------------------------
(* Properties.                                                             *)

TableTypeOK == /\ nodes \in Seq(Entry) /\ Len(nodes) <= MaxNodes
               /\ tokenIdx \in 0..(MaxNodes - 1)

\* find_node stops at the first match: a second entry for a station would take
\* its slot in the ring and never see a frame.
Distinct(t)        == \A i, j \in DOMAIN t : t[i].addr = t[j].addr => i = j
OneEntryPerStation == Distinct(nodes)

\* An entry never leaves the table, changes place or changes its address: slot
\* numbers and the LoRa alive mask refer to places.
PlacesAreKept ==
  [][/\ Len(nodes') >= Len(nodes)
     /\ \A i \in DOMAIN nodes : nodes'[i].addr = nodes[i].addr]_table

\* Once a frame of this second moved the expectation of its sender on, only the
\* TICK takes it back: late, duplicate or resent frames do not (nic_master.c:86),
\* nor does any frame of another station or any other call.  The one exception is
\* the wrap of the index: what follows the last index is index 0.
LastIndexFrom(a) ==
  \E f \in Data : /\ f.station = a /\ f.index = IndexMod - 1
                  /\ Ingest(f)
ExpectationOnlyAdvances ==
  [][\A i \in DOMAIN nodes :
       \/ nodes'[i].exp >= nodes[i].exp
       \/ OnTick
       \/ nodes'[i].exp = 0 /\ LastIndexFrom(nodes[i].addr)]_table
=============================================================================
