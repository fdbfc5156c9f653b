-------------------------- MODULE NicMasterProofs --------------------------
EXTENDS NicMaster, SequenceTheorems, TLAPS

(* What the functions of the library do to a table.  An update in place    *)
(* keeps the table's length and every address; only a registration appends, *)
(* and only a station the table does not hold.                             *)

Table == {t \in Seq(Entry) : Len(t) <= MaxNodes}

InPlace(t, u) == /\ u \in Table /\ DOMAIN u = DOMAIN t
                 /\ \A i \in DOMAIN t : u[i].addr = t[i].addr

LEMMA InPlaceKeepsDistinct ==
  ASSUME NEW t, NEW u, Distinct(t), InPlace(t, u)
  PROVE  Distinct(u)
BY DEF Distinct, InPlace

\* Replacing one entry, wherever find_node pointed, is an update in place.
LEMMA Replaced ==
  ASSUME NEW t \in Table, NEW i, NEW e,
         i \in DOMAIN t => e \in Entry /\ e.addr = t[i].addr
  PROVE  InPlace(t, [t EXCEPT ![i] = e])
<1> DEFINE u == [t EXCEPT ![i] = e]
<1>1. t \in Seq(Entry) /\ Len(t) <= MaxNodes BY DEF Table
<1>2. DOMAIN u = DOMAIN t /\ Len(u) = Len(t) BY <1>1
<1>3. \A j \in DOMAIN t : u[j] = IF j = i THEN e ELSE t[j] BY <1>1
<1>4. CASE i \in DOMAIN t
  BY <1>1, <1>2, <1>3, <1>4, ExceptSeq DEF InPlace, Table
<1>5. CASE i \notin DOMAIN t
  <2>1. u = t BY <1>1, <1>5
  <2> QED BY <1>1, <2>1 DEF InPlace, Table
<1> QED BY <1>4, <1>5

LEMMA FoundEntry ==
  ASSUME NEW t \in Table, NEW i \in DOMAIN t
  PROVE  t[i] \in Entry
BY DEF Table

LEMMA RegisteredTable ==
  ASSUME NEW t \in Table, NEW a \in Station, NEW len \in Lens
  PROVE  /\ Registered(t, a, len) \in Table
         /\ Distinct(t) => Distinct(Registered(t, a, len))
<1>0. t \in Seq(Entry) /\ Len(t) <= MaxNodes BY DEF Table
<1>1. CASE Known(t, a)
  <2> DEFINE i == FindNode(t, a)
             e == [t[i] EXCEPT !.len = len]
  <2>1. i \in DOMAIN t => e \in Entry /\ e.addr = t[i].addr
    BY FoundEntry DEF Entry
  <2> HIDE DEF i
  <2>2. InPlace(t, [t EXCEPT ![i] = e]) BY <2>1, Replaced
  <2>3. Registered(t, a, len) = [t EXCEPT ![i] = e]
    BY <1>0, <1>1 DEF Registered, i
  <2> QED BY <2>2, <2>3, InPlaceKeepsDistinct DEF InPlace
<1>2. CASE ~Known(t, a) /\ Len(t) >= MaxNodes
  BY <1>2 DEF Registered
<1>3. CASE ~Known(t, a) /\ ~(Len(t) >= MaxNodes)
  <2> DEFINE e == NewEntry(a, len)
             u == Append(t, e)
  <2>1. e \in Entry /\ e.addr = a BY MasterAssumption DEF NewEntry, Entry
  <2> HIDE DEF e
  <2>2. /\ u \in Seq(Entry) /\ Len(u) = Len(t) + 1
        /\ u[Len(t) + 1] = e /\ \A i \in 1..Len(t) : u[i] = t[i]
    BY <1>0, <2>1
  <2>3. u \in Table BY <1>0, <1>3, <2>2, MasterAssumption DEF Table
  <2>4. \A i \in 1..Len(t) : t[i].addr # a BY <1>0, <1>3 DEF Known
  <2>5. Distinct(t) => Distinct(u)
    BY <1>0, <2>1, <2>2, <2>4 DEF Distinct
  <2> QED BY <1>3, <2>3, <2>5 DEF Registered, e
<1> QED BY <1>1, <1>2, <1>3

LEMMA IngestedTable ==
  ASSUME NEW t \in Table, NEW f, f.index \in 0..(IndexMod - 1)
  PROVE  InPlace(t, Ingested(t, f))
<1>1. CASE IngestResult(t, f) = "OK"
  <2> DEFINE i == FindNode(t, f.station)
             e == HeardFrame(t[i], f)
  <2>1. (f.index + 1) % IndexMod \in 0..(IndexMod - 1)
    BY MasterAssumption
  <2>2. i \in DOMAIN t => e \in Entry /\ e.addr = t[i].addr
    <3> SUFFICES ASSUME i \in DOMAIN t PROVE e \in Entry /\ e.addr = t[i].addr
      OBVIOUS
    <3>1. t[i] \in Entry BY FoundEntry
    <3> HIDE DEF i
    <3> QED BY <2>1, <3>1 DEF Entry, HeardFrame
  <2> HIDE DEF i
  <2>3. InPlace(t, [t EXCEPT ![i] = e]) BY <2>2, Replaced
  <2> QED BY <1>1, <2>3 DEF Ingested, i
<1>2. CASE IngestResult(t, f) # "OK"
  BY <1>2 DEF Ingested, InPlace
<1> QED BY <1>1, <1>2

LEMMA RebasedTable ==
  ASSUME NEW t \in Table
  PROVE  InPlace(t, Rebased(t))
<1>0. t \in Seq(Entry) /\ Len(t) <= MaxNodes BY DEF Table
<1>1. \A i \in DOMAIN t : /\ Rebased(t)[i] \in Entry
                          /\ Rebased(t)[i].addr = t[i].addr
  <2> SUFFICES ASSUME NEW i \in DOMAIN t
               PROVE  Rebased(t)[i] \in Entry /\ Rebased(t)[i].addr = t[i].addr
    OBVIOUS
  <2>1. 0 \in 0..(IndexMod - 1) BY MasterAssumption
  <2> QED BY <2>1, FoundEntry DEF Rebased, Entry
<1>2. DOMAIN Rebased(t) = 1..Len(t) BY <1>0 DEF Rebased
<1>3. Rebased(t) \in Seq(Entry) /\ Len(Rebased(t)) = Len(t)
  <2>1. Len(t) \in Nat BY <1>0
  <2>2. Rebased(t) = [i \in 1..Len(t) |-> Rebased(t)[i]] BY <1>0 DEF Rebased
  <2> QED BY <1>0, <1>1, <1>2, <2>1, <2>2
<1> QED BY <1>0, <1>1, <1>2, <1>3 DEF InPlace, Table

LEMMA LostTable ==
  ASSUME NEW t \in Table, NEW a
  PROVE  InPlace(t, Lost(t, a))
<1> DEFINE i == FindNode(t, a)
           e == [t[i] EXCEPT !.synced = FALSE]
<1>1. i \in DOMAIN t => e \in Entry /\ e.addr = t[i].addr
  <2> SUFFICES ASSUME i \in DOMAIN t
               PROVE  e \in Entry /\ e.addr = t[i].addr
    OBVIOUS
  <2> DEFINE x == t[i]
  <2>1. x \in Entry BY FoundEntry
  <2> HIDE DEF x
  <2>2. [x EXCEPT !.synced = FALSE] \in Entry /\ [x EXCEPT !.synced = FALSE].addr = x.addr
    BY <2>1 DEF Entry
  <2> QED BY <2>2 DEF x
<1> HIDE DEF i
<1>2. InPlace(t, [t EXCEPT ![i] = e]) BY <1>1, Replaced
<1>3. [t EXCEPT ![i].synced = FALSE] = [t EXCEPT ![i] = e] BY DEF Table
<1> QED BY <1>2, <1>3 DEF Lost, InPlace, i

LEMMA ExpectingTable ==
  ASSUME NEW t \in Table, NEW a, NEW op \in CritOp
  PROVE  InPlace(t, Expecting(t, a, op))
<1> DEFINE i == FindNode(t, a)
           e == [t[i] EXCEPT !.pending = op]
<1>1. i \in DOMAIN t => e \in Entry /\ e.addr = t[i].addr
  BY FoundEntry DEF Entry
<1> HIDE DEF i
<1>2. InPlace(t, [t EXCEPT ![i] = e]) BY <1>1, Replaced
<1>3. [t EXCEPT ![i].pending = op] = [t EXCEPT ![i] = e] BY DEF Table
<1> QED BY <1>2, <1>3 DEF Expecting, InPlace, i

LEMMA ControlledTable ==
  ASSUME NEW t \in Table, NEW c \in Reply
  PROVE  /\ Controlled(t, c) \in Table
         /\ Distinct(t) => Distinct(Controlled(t, c))
<1>1. PICK op \in ReplyOp : \E a \in Station, v \in CtrlVal(op) : c = CtrlFrame(a, op, v)
  BY DEF Reply
<1>2. PICK a \in Station, v \in CtrlVal(op) : c = CtrlFrame(a, op, v)
  BY <1>1
<1>3. c.op = op /\ c.station = a /\ c.val = v BY <1>2 DEF CtrlFrame
<1>4. CASE c.op = "STATUS"
  <2>1. v \in Lens BY <1>3, <1>4 DEF CtrlVal
  <2> QED BY <1>3, <1>4, <2>1, RegisteredTable DEF Controlled
<1>5. CASE c.op # "STATUS"
  <2> DEFINE i == FindNode(t, c.station)
             e == Answered(t[i], c)
  <2>1. i \in DOMAIN t => e \in Entry /\ e.addr = t[i].addr
    <3> SUFFICES ASSUME i \in DOMAIN t PROVE e \in Entry /\ e.addr = t[i].addr
      OBVIOUS
    <3>1. t[i] \in Entry BY FoundEntry
    <3> HIDE DEF i
    <3>2. CASE c.op = "ACK"     BY <3>1, <3>2 DEF Answered, Entry
    <3>3. CASE c.op = "ERROR"   BY <3>1, <3>3 DEF Answered, Entry
    <3>4. CASE c.op \notin {"ACK", "ERROR"} /\ c.op \in QueryOp
      BY <3>1, <3>4 DEF Answered, Entry
    <3>5. CASE c.op \notin {"ACK", "ERROR"} /\ c.op \notin QueryOp
      BY <3>1, <3>5 DEF Answered
    <3> QED BY <3>2, <3>3, <3>4, <3>5
  <2> HIDE DEF i
  <2>2. InPlace(t, [t EXCEPT ![i] = e]) BY <2>1, Replaced
  <2>3. Controlled(t, c) \in {t, [t EXCEPT ![i] = e]}
    BY <1>5 DEF Controlled, i
  <2> QED BY <2>2, <2>3, InPlaceKeepsDistinct DEF InPlace
<1> QED BY <1>4, <1>5
----------------------------------------------------------------------------
(* The table in the hands of any caller.                                   *)

LEMMA FrameIndex ==
  ASSUME NEW f \in Data
  PROVE  /\ f.index \in 0..(IndexMod - 1)
         /\ \A a \in Station : Damaged(f, a).index \in 0..(IndexMod - 1)
BY DEF Data, DataFrame, Damaged

LEMMA NextTable ==
  ASSUME nodes \in Table, TableNext
  PROVE  /\ nodes' \in Table
         /\ Distinct(nodes) => Distinct(nodes')
<1>1. ASSUME InPlace(nodes, nodes')
      PROVE  nodes' \in Table /\ (Distinct(nodes) => Distinct(nodes'))
  BY <1>1, InPlaceKeepsDistinct DEF InPlace
<1>2. ASSUME NEW a \in Station, NEW len \in Lens, AddNode(a, len)
      PROVE  nodes' \in Table /\ (Distinct(nodes) => Distinct(nodes'))
  BY <1>2, RegisteredTable DEF AddNode
<1>3. ASSUME NEW f \in Data, Ingest(f) \/ \E a \in Station : Ingest(Damaged(f, a))
      PROVE  InPlace(nodes, nodes')
  <2>1. PICK g : g.index \in 0..(IndexMod - 1) /\ Ingest(g) BY <1>3, FrameIndex
  <2> QED BY <2>1, IngestedTable DEF Ingest
<1>4. ASSUME NEW c \in Reply, OnCtrl(c)
      PROVE  nodes' \in Table /\ (Distinct(nodes) => Distinct(nodes'))
  BY <1>4, ControlledTable DEF OnCtrl
<1>5. CASE OnTick
  BY <1>1, <1>5, RebasedTable DEF OnTick
<1>6. CASE NextToken
  BY <1>6 DEF NextToken
<1>7. ASSUME NEW a \in Station, NodeLost(a) PROVE InPlace(nodes, nodes')
  BY <1>7, LostTable DEF NodeLost
<1>8. ASSUME NEW a \in Station, NEW op \in CritOp, ExpectAck(a, op)
      PROVE  InPlace(nodes, nodes')
  BY <1>8, ExpectingTable DEF ExpectAck
<1> QED BY <1>1, <1>2, <1>3, <1>4, <1>5, <1>6, <1>7, <1>8 DEF TableNext

LEMMA EmptyTable == TableInit => TableTypeOK /\ OneEntryPerStation
BY MasterAssumption DEF TableInit, TableTypeOK, OneEntryPerStation, Distinct

LEMMA CursorType ==
  ASSUME TableTypeOK, TableNext
  PROVE  tokenIdx' \in 0..(MaxNodes - 1)
<1>1. CASE NextToken
  <2>1. Len(nodes) \in Nat /\ Len(nodes) > 0 /\ Len(nodes) <= MaxNodes
    BY <1>1 DEF NextToken, TableTypeOK
  <2>2. Cursor \in Nat BY <2>1, MasterAssumption DEF Cursor, TableTypeOK
  <2>3. (Cursor + 1) % Len(nodes) \in 0..(Len(nodes) - 1) BY <2>1, <2>2
  <2> QED BY <1>1, <2>1, <2>3, MasterAssumption DEF NextToken, CursorAfter
<1>2. CASE UNCHANGED tokenIdx
  BY <1>2 DEF TableTypeOK
<1> QED BY <1>1, <1>2 DEF TableNext, AddNode, Ingest, OnCtrl, OnTick, NodeLost, ExpectAck

(* The table never outgrows its array, and every field of it keeps to its  *)
(* type, for any number of nodes and any width of the index.               *)
THEOREM TableCorrect == TableSpec => []TableTypeOK
<1>1. TableTypeOK /\ [TableNext]_table => TableTypeOK'
  <2>1. ASSUME TableTypeOK, TableNext PROVE TableTypeOK'
    BY <2>1, NextTable, CursorType DEF TableTypeOK, Table
  <2>2. ASSUME TableTypeOK, UNCHANGED table PROVE TableTypeOK'
    BY <2>2 DEF TableTypeOK, table
  <2> QED BY <2>1, <2>2
<1> QED BY EmptyTable, <1>1, PTL DEF TableSpec

(* Whoever calls the library, in whatever order: no station ever has two   *)
(* entries, so the first match of find_node is the only one.               *)
THEOREM StationsAreDistinct == TableSpec => []OneEntryPerStation
<1>1. TableTypeOK /\ OneEntryPerStation /\ [TableNext]_table => OneEntryPerStation'
  <2>1. ASSUME TableTypeOK, OneEntryPerStation, TableNext PROVE OneEntryPerStation'
    BY <2>1, NextTable DEF OneEntryPerStation, TableTypeOK, Table
  <2>2. ASSUME OneEntryPerStation, UNCHANGED table PROVE OneEntryPerStation'
    BY <2>2 DEF OneEntryPerStation, Distinct, table
  <2> QED BY <2>1, <2>2
<1> QED BY EmptyTable, TableCorrect, <1>1, PTL DEF TableSpec
----------------------------------------------------------------------------
(* What a step of any caller may do to the places and the expectations of  *)
(* the entries there are.                                                  *)

Follows(e, x) == e.addr = x.addr /\ e.exp >= x.exp
Kept(t, u) == Len(u) >= Len(t) /\ \A i \in DOMAIN t : Follows(u[i], t[i])

LEMMA EntryFollows ==
  ASSUME NEW x \in Entry
  PROVE  Follows(x, x)
BY MasterAssumption DEF Entry, Follows

LEMMA SameKept ==
  ASSUME NEW t \in Table
  PROVE  Kept(t, t)
BY FoundEntry, EntryFollows DEF Kept, Table

LEMMA ReplacedKept ==
  ASSUME NEW t \in Table, NEW i, NEW e, i \in DOMAIN t => Follows(e, t[i])
  PROVE  Kept(t, [t EXCEPT ![i] = e])
<1> DEFINE u == [t EXCEPT ![i] = e]
<1>1. t \in Seq(Entry) BY DEF Table
<1>2. DOMAIN u = DOMAIN t /\ Len(u) = Len(t) /\ Len(t) \in Nat BY <1>1
<1>3. \A j \in DOMAIN t : u[j] = IF j = i THEN e ELSE t[j] BY <1>1
<1>4. \A j \in DOMAIN t : Follows(u[j], t[j])
  BY <1>3, FoundEntry, EntryFollows
<1> HIDE DEF u
<1>5. Len(u) >= Len(t) BY <1>2
<1>6. Kept(t, u) BY <1>4, <1>5 DEF Kept
<1> QED BY <1>6 DEF u

\* Up to the wrap the next index is the larger one.
LEMMA HeardFollows ==
  ASSUME NEW x \in Entry, NEW f, f.index \in 0..(IndexMod - 1), f.index # IndexMod - 1
  PROVE  Follows(HeardFrame(x, f), x)
<1> DEFINE n == f.index
           m == (n + 1) % IndexMod
<1>1. m = n + 1
  <2>1. n + 1 \in 0..(IndexMod - 1) BY MasterAssumption
  <2> HIDE DEF n
  <2> QED BY <2>1, MasterAssumption
<1>2. /\ HeardFrame(x, f).addr = x.addr
      /\ HeardFrame(x, f).exp = IF n >= x.exp THEN m ELSE x.exp
  BY DEF Entry, HeardFrame
<1>3. x.exp \in Nat BY MasterAssumption DEF Entry
<1> HIDE DEF m
<1> QED BY <1>1, <1>2, <1>3, MasterAssumption DEF Follows

LEMMA RegisteredKept ==
  ASSUME NEW t \in Table, NEW a \in Station, NEW len \in Lens
  PROVE  Kept(t, Registered(t, a, len))
<1>0. t \in Seq(Entry) /\ Len(t) \in Nat BY DEF Table
<1>1. CASE Known(t, a)
  <2> DEFINE i == FindNode(t, a)
             e == [t[i] EXCEPT !.len = len]
  <2>1. i \in DOMAIN t => Follows(e, t[i])
    <3> SUFFICES ASSUME i \in DOMAIN t PROVE Follows(e, t[i])
      OBVIOUS
    <3>1. t[i] \in Entry BY FoundEntry
    <3> HIDE DEF i
    <3>2. e.addr = t[i].addr /\ e.exp = t[i].exp BY <3>1 DEF Entry
    <3> QED BY <3>1, <3>2, EntryFollows DEF Follows
  <2> HIDE DEF i
  <2>2. Kept(t, [t EXCEPT ![i] = e]) BY <2>1, ReplacedKept
  <2>3. Registered(t, a, len) = [t EXCEPT ![i] = e]
    BY <1>0, <1>1 DEF Registered, i
  <2> QED BY <2>2, <2>3
<1>2. CASE ~Known(t, a) /\ Len(t) >= MaxNodes
  BY <1>2, SameKept DEF Registered
<1>3. CASE ~Known(t, a) /\ ~(Len(t) >= MaxNodes)
  <2> DEFINE e == NewEntry(a, len)
             u == Append(t, e)
  <2>1. e \in Entry BY MasterAssumption DEF NewEntry, Entry
  <2> HIDE DEF e
  <2>2. Len(u) = Len(t) + 1 /\ \A i \in DOMAIN t : u[i] = t[i]
    BY <1>0, <2>1
  <2>3. Registered(t, a, len) = u BY <1>3 DEF Registered, e
  <2> HIDE DEF u
  <2>4. Len(u) >= Len(t) BY <1>0, <2>2
  <2>5. \A i \in DOMAIN t : Follows(u[i], t[i])
    BY <2>2, FoundEntry, EntryFollows
  <2> QED BY <2>3, <2>4, <2>5 DEF Kept
<1> QED BY <1>1, <1>2, <1>3

LEMMA IngestedKept ==
  ASSUME NEW t \in Table, NEW f, f.index \in 0..(IndexMod - 1), f.index # IndexMod - 1
  PROVE  Kept(t, Ingested(t, f))
<1>1. CASE IngestResult(t, f) = "OK"
  <2> DEFINE i == FindNode(t, f.station)
             e == HeardFrame(t[i], f)
  <2>1. i \in DOMAIN t => Follows(e, t[i])
    BY FoundEntry, HeardFollows
  <2> HIDE DEF i
  <2>2. Kept(t, [t EXCEPT ![i] = e]) BY <2>1, ReplacedKept
  <2> QED BY <1>1, <2>2 DEF Ingested, i
<1>2. CASE IngestResult(t, f) # "OK"
  BY <1>2, SameKept DEF Ingested
<1> QED BY <1>1, <1>2

\* In a table without duplicates the first match is the only one.
LEMMA FoundIt ==
  ASSUME NEW t \in Table, Distinct(t), NEW a, Known(t, a)
  PROVE  FindNode(t, a) \in DOMAIN t /\ t[FindNode(t, a)].addr = a
<1>1. PICK j \in DOMAIN t : t[j].addr = a BY DEF Known
<1>2. \A k \in 1..(j - 1) : t[k].addr # a
  <2> SUFFICES ASSUME NEW k \in 1..(j - 1) PROVE t[k].addr # a
    OBVIOUS
  <2>1. k \in DOMAIN t /\ k # j BY <1>1 DEF Table
  <2> QED BY <1>1, <2>1 DEF Distinct
<1>3. \E i \in DOMAIN t : t[i].addr = a /\ \A k \in 1..(i - 1) : t[k].addr # a
  BY <1>1, <1>2
<1> QED BY <1>3 DEF FindNode

\* The last index takes an expectation back to 0, or leaves it: that of its
\* sender and no other.
LEMMA LastIndexKept ==
  ASSUME NEW t \in Table, Distinct(t), NEW f, f.index = IndexMod - 1
  PROVE  LET u == Ingested(t, f)
         IN  /\ Len(u) >= Len(t)
             /\ \A i \in DOMAIN t : \/ Follows(u[i], t[i])
                                    \/ u[i].exp = 0 /\ t[i].addr = f.station
<1> DEFINE i == FindNode(t, f.station)
           e == HeardFrame(t[i], f)
<1>1. CASE IngestResult(t, f) = "OK"
  <2>1. Known(t, f.station) BY <1>1 DEF IngestResult
  <2>2. i \in DOMAIN t /\ t[i].addr = f.station BY <2>1, FoundIt
  <2>3. t[i] \in Entry BY <2>2, FoundEntry
  <2>4. Ingested(t, f) = [t EXCEPT ![i] = e] BY <1>1 DEF Ingested
  <2> HIDE DEF i
  <2>5. e.exp = 0 \/ e.exp = t[i].exp
    <3>1. (f.index + 1) % IndexMod = 0 BY MasterAssumption
    <3> QED BY <2>3, <3>1 DEF HeardFrame, Entry
  <2>6. e.addr = t[i].addr BY <2>3 DEF HeardFrame, Entry
  <2> HIDE DEF e
  <2>7. e.exp = t[i].exp => Follows(e, t[i])
    BY <2>3, <2>6, EntryFollows DEF Follows
  <2> DEFINE u == [t EXCEPT ![i] = e]
  <2>8. Len(u) = Len(t) /\ Len(t) \in Nat BY DEF Table
  <2>9. \A k \in DOMAIN t : u[k] = IF k = i THEN e ELSE t[k] BY DEF Table
  <2>10. \A k \in DOMAIN t : \/ Follows(u[k], t[k])
                             \/ u[k].exp = 0 /\ t[k].addr = f.station
    BY <2>2, <2>5, <2>7, <2>9, FoundEntry, EntryFollows
  <2> HIDE DEF u
  <2>11. Len(u) >= Len(t) BY <2>8
  <2>12. Ingested(t, f) = u BY <2>4 DEF u
  <2> QED BY <2>10, <2>11, <2>12
<1>2. CASE IngestResult(t, f) # "OK"
  BY <1>2, SameKept DEF Ingested, Kept
<1> QED BY <1>1, <1>2

LEMMA ControlledKept ==
  ASSUME NEW t \in Table, NEW c \in Reply
  PROVE  Kept(t, Controlled(t, c))
<1>1. PICK op \in ReplyOp : \E a \in Station, v \in CtrlVal(op) : c = CtrlFrame(a, op, v)
  BY DEF Reply
<1>2. PICK a \in Station, v \in CtrlVal(op) : c = CtrlFrame(a, op, v)
  BY <1>1
<1>3. c.op = op /\ c.station = a /\ c.val = v BY <1>2 DEF CtrlFrame
<1>4. CASE c.op = "STATUS"
  <2>1. v \in Lens BY <1>3, <1>4 DEF CtrlVal
  <2> QED BY <1>3, <1>4, <2>1, RegisteredKept DEF Controlled
<1>5. CASE c.op # "STATUS"
  <2> DEFINE i == FindNode(t, c.station)
             e == Answered(t[i], c)
  <2>1. i \in DOMAIN t => Follows(e, t[i])
    <3> SUFFICES ASSUME i \in DOMAIN t PROVE Follows(e, t[i])
      OBVIOUS
    <3>1. t[i] \in Entry BY FoundEntry
    <3> HIDE DEF i
    <3>2. e.addr = t[i].addr /\ e.exp = t[i].exp
      <4>1. CASE c.op = "ACK"     BY <3>1, <4>1 DEF Answered, Entry
      <4>2. CASE c.op = "ERROR"   BY <3>1, <4>2 DEF Answered, Entry
      <4>3. CASE c.op \notin {"ACK", "ERROR"} /\ c.op \in QueryOp
        BY <3>1, <4>3 DEF Answered, Entry
      <4>4. CASE c.op \notin {"ACK", "ERROR"} /\ c.op \notin QueryOp
        BY <4>4 DEF Answered
      <4> QED BY <4>1, <4>2, <4>3, <4>4
    <3> HIDE DEF e
    <3> QED BY <3>1, <3>2, EntryFollows DEF Follows
  <2> HIDE DEF i
  <2>2. Kept(t, [t EXCEPT ![i] = e]) BY <2>1, ReplacedKept
  <2>3. Controlled(t, c) \in {t, [t EXCEPT ![i] = e]}
    BY <1>5 DEF Controlled, i
  <2> QED BY <2>2, <2>3, SameKept
<1> QED BY <1>4, <1>5

\* A flag of an entry does not touch its place or its expectation.
LEMMA LostKept ==
  ASSUME NEW t \in Table, NEW a
  PROVE  Kept(t, Lost(t, a))
<1> DEFINE i == FindNode(t, a)
           e == [t[i] EXCEPT !.synced = FALSE]
<1>1. i \in DOMAIN t => Follows(e, t[i])
  <2> SUFFICES ASSUME i \in DOMAIN t PROVE Follows(e, t[i])
    OBVIOUS
  <2>1. t[i] \in Entry BY FoundEntry
  <2> HIDE DEF i
  <2>2. e.addr = t[i].addr /\ e.exp = t[i].exp BY <2>1 DEF Entry
  <2> QED BY <2>1, <2>2, EntryFollows DEF Follows
<1> HIDE DEF i
<1>2. Kept(t, [t EXCEPT ![i] = e]) BY <1>1, ReplacedKept
<1>3. [t EXCEPT ![i].synced = FALSE] = [t EXCEPT ![i] = e] BY DEF Table
<1> QED BY <1>2, <1>3, SameKept DEF Lost, i

LEMMA ExpectingKept ==
  ASSUME NEW t \in Table, NEW a, NEW op \in CritOp
  PROVE  Kept(t, Expecting(t, a, op))
<1> DEFINE i == FindNode(t, a)
           e == [t[i] EXCEPT !.pending = op]
<1>1. i \in DOMAIN t => Follows(e, t[i])
  <2> SUFFICES ASSUME i \in DOMAIN t PROVE Follows(e, t[i])
    OBVIOUS
  <2>1. t[i] \in Entry BY FoundEntry
  <2> HIDE DEF i
  <2>2. e.addr = t[i].addr /\ e.exp = t[i].exp BY <2>1 DEF Entry
  <2> QED BY <2>1, <2>2, EntryFollows DEF Follows
<1> HIDE DEF i
<1>2. Kept(t, [t EXCEPT ![i] = e]) BY <1>1, ReplacedKept
<1>3. [t EXCEPT ![i].pending = op] = [t EXCEPT ![i] = e] BY DEF Table
<1> QED BY <1>2, <1>3, SameKept DEF Expecting, i

\* What a step may do to the entry in place i.
Moves(i) == \/ Follows(nodes'[i], nodes[i])
            \/ OnTick
            \/ nodes'[i].exp = 0 /\ LastIndexFrom(nodes[i].addr)

LEMMA StepKeeps ==
  ASSUME TableTypeOK, OneEntryPerStation, [TableNext]_table
  PROVE  \A i \in DOMAIN nodes : Moves(i)
<1>0. nodes \in Table /\ Distinct(nodes)
  BY DEF TableTypeOK, Table, OneEntryPerStation
<1>s. ASSUME Kept(nodes, nodes') PROVE \A i \in DOMAIN nodes : Moves(i)
  BY <1>s DEF Kept, Moves
<1>1. ASSUME NEW a \in Station, NEW len \in Lens, AddNode(a, len)
      PROVE  Kept(nodes, nodes')
  BY <1>0, <1>1, RegisteredKept DEF AddNode
<1>2. ASSUME NEW f \in Data, Ingest(f)
      PROVE  \A i \in DOMAIN nodes : Moves(i)
  <2>1. CASE f.index # IndexMod - 1
    BY <1>0, <1>2, <1>s, <2>1, FrameIndex, IngestedKept DEF Ingest
  <2>2. CASE f.index = IndexMod - 1
    <3>1. LastIndexFrom(f.station) BY <1>2, <2>2 DEF LastIndexFrom
    <3>2. \A i \in DOMAIN nodes : \/ Follows(nodes'[i], nodes[i])
                                  \/ nodes'[i].exp = 0 /\ nodes[i].addr = f.station
      BY <1>0, <1>2, <2>2, LastIndexKept DEF Ingest
    <3>3. \A i \in DOMAIN nodes : nodes[i].addr = f.station => LastIndexFrom(nodes[i].addr)
      BY <3>1
    <3> QED BY <3>2, <3>3 DEF Moves
  <2> QED BY <2>1, <2>2
<1>3. ASSUME NEW f \in Data, NEW a \in Station, Ingest(Damaged(f, a))
      PROVE  Kept(nodes, nodes')
  <2>1. ~Damaged(f, a).intact BY DEF Data, DataFrame, Damaged
  <2>2. IngestResult(nodes, Damaged(f, a)) # "OK"
    BY <2>1 DEF IngestResult, DataDecode
  <2>3. nodes' = nodes BY <1>3, <2>2 DEF Ingest, Ingested
  <2> QED BY <1>0, <2>3, SameKept
<1>4. ASSUME NEW c \in Reply, OnCtrl(c) PROVE Kept(nodes, nodes')
  BY <1>0, <1>4, ControlledKept DEF OnCtrl
<1>5. CASE OnTick
  BY <1>5 DEF Moves
<1>6. CASE NextToken \/ UNCHANGED table
  <2>1. nodes' = nodes BY <1>6 DEF NextToken, table
  <2>2. Kept(nodes, nodes') BY <1>0, <2>1, SameKept
  <2> QED BY <1>s, <2>2
<1>7. ASSUME NEW a \in Station, NodeLost(a) PROVE Kept(nodes, nodes')
  BY <1>0, <1>7, LostKept DEF NodeLost
<1>8. ASSUME NEW a \in Station, NEW op \in CritOp, ExpectAck(a, op)
      PROVE  Kept(nodes, nodes')
  BY <1>0, <1>8, ExpectingKept DEF ExpectAck
<1> QED BY <1>s, <1>1, <1>2, <1>3, <1>4, <1>5, <1>6, <1>7, <1>8 DEF TableNext

LEMMA StepKeepsPlaces ==
  ASSUME TableTypeOK, [TableNext]_table
  PROVE  /\ Len(nodes') >= Len(nodes)
         /\ \A i \in DOMAIN nodes : nodes'[i].addr = nodes[i].addr
<1> DEFINE Places == /\ Len(nodes') >= Len(nodes)
                     /\ \A i \in DOMAIN nodes : nodes'[i].addr = nodes[i].addr
<1>0. nodes \in Table BY DEF TableTypeOK, Table
<1>k. ASSUME Kept(nodes, nodes') PROVE Places
  BY <1>k DEF Kept, Follows
<1>p. ASSUME InPlace(nodes, nodes') PROVE Places
  BY <1>0, <1>p DEF InPlace, Table
<1>1. ASSUME NEW a \in Station, NEW len \in Lens, AddNode(a, len) PROVE Places
  BY <1>0, <1>1, <1>k, RegisteredKept DEF AddNode
<1>2. ASSUME NEW f \in Data, Ingest(f) \/ \E a \in Station : Ingest(Damaged(f, a))
      PROVE  Places
  <2>1. PICK g : g.index \in 0..(IndexMod - 1) /\ Ingest(g) BY <1>2, FrameIndex
  <2> QED BY <1>0, <1>p, <2>1, IngestedTable DEF Ingest
<1>3. ASSUME NEW c \in Reply, OnCtrl(c) PROVE Places
  BY <1>0, <1>3, <1>k, ControlledKept DEF OnCtrl
<1>4. CASE OnTick
  BY <1>0, <1>4, <1>p, RebasedTable DEF OnTick
<1>5. CASE NextToken \/ UNCHANGED table
  BY <1>0, <1>5, <1>k, SameKept DEF NextToken, table
<1>6. ASSUME NEW a \in Station, NodeLost(a) PROVE Places
  BY <1>0, <1>6, <1>p, LostTable DEF NodeLost
<1>7. ASSUME NEW a \in Station, NEW op \in CritOp, ExpectAck(a, op) PROVE Places
  BY <1>0, <1>7, <1>p, ExpectingTable DEF ExpectAck
<1> QED BY <1>1, <1>2, <1>3, <1>4, <1>5, <1>6, <1>7 DEF TableNext

(* Whatever the caller does, an entry keeps its place and its address.     *)
THEOREM PlacesTheorem == TableSpec => PlacesAreKept
<1>1. TableTypeOK /\ [TableNext]_table
        => [/\ Len(nodes') >= Len(nodes)
            /\ \A i \in DOMAIN nodes : nodes'[i].addr = nodes[i].addr]_table
  BY StepKeepsPlaces
<1> QED BY <1>1, TableCorrect, PTL DEF TableSpec, PlacesAreKept

(* No frame, however late or often repeated, takes an expectation back     *)
(* but the last index of its own sender, for any width of the index.       *)
THEOREM ExpectationTheorem == TableSpec => ExpectationOnlyAdvances
<1>1. TableTypeOK /\ OneEntryPerStation /\ [TableNext]_table
        => [\A i \in DOMAIN nodes :
              \/ nodes'[i].exp >= nodes[i].exp
              \/ OnTick
              \/ nodes'[i].exp = 0 /\ LastIndexFrom(nodes[i].addr)]_table
  BY StepKeeps DEF Moves, Follows
<1> QED BY <1>1, TableCorrect, StationsAreDistinct, PTL
        DEF TableSpec, ExpectationOnlyAdvances
=============================================================================
