------------------------- MODULE SampleStreamProofs -------------------------
(***************************************************************************)
(* The samples of a node, from DRDY to the master's record, for any number *)
(* of samples, seconds and restarts, on a bus that may lose and damage.    *)
(***************************************************************************)
EXTENDS SampleStream, NetworkProofs, WellFoundedInduction

(* Sequences that grow at the end.                                         *)

Elements(s) == {s[i] : i \in DOMAIN s}
IsList(s)   == s \in Seq(Elements(s))

LEMMA ListOf == ASSUME NEW T, NEW s \in Seq(T) PROVE IsList(s)
<1>1. s \in [1..Len(s) -> T] /\ Len(s) \in Nat /\ DOMAIN s = 1..Len(s) OBVIOUS
<1>2. s \in [1..Len(s) -> Elements(s)] BY <1>1 DEF Elements
<1> QED BY <1>1, <1>2, SeqDef DEF IsList

LEMMA Appended ==
  ASSUME NEW s, IsList(s), NEW e
  PROVE  /\ IsList(Append(s, e))
         /\ Len(s) \in Nat /\ DOMAIN s = 1..Len(s)
         /\ Len(Append(s, e)) = Len(s) + 1 /\ DOMAIN Append(s, e) = 1..(Len(s) + 1)
         /\ Append(s, e)[Len(s) + 1] = e
         /\ \A i \in 1..Len(s) : Append(s, e)[i] = s[i]
<1> DEFINE T == Elements(s) \cup {e}
<1>1. s \in Seq(T)
  <2>1. s \in [1..Len(s) -> Elements(s)] /\ Len(s) \in Nat BY DEF IsList
  <2>2. s \in [1..Len(s) -> T] BY <2>1
  <2> QED BY <2>1, <2>2, SeqDef
<1>2. e \in T OBVIOUS
<1> HIDE DEF T
<1>3. Append(s, e) \in Seq(T) BY <1>1, <1>2
<1>4. IsList(Append(s, e)) BY <1>3, ListOf
<1>5. /\ Len(s) \in Nat /\ DOMAIN s = 1..Len(s)
      /\ Len(Append(s, e)) = Len(s) + 1 /\ DOMAIN Append(s, e) = 1..(Len(s) + 1)
      /\ Append(s, e)[Len(s) + 1] = e
  BY <1>1, <1>2
<1>6. \A i \in 1..Len(s) : Append(s, e)[i] = s[i] BY <1>1, <1>2
<1> QED BY <1>4, <1>5, <1>6

\* A list of records seen as the list of something made from each.
LEMMA Seen ==
  ASSUME NEW n \in Nat, NEW f, NEW g, NEW x,
         DOMAIN f = 1..n, f = [i \in 1..n |-> f[i]],
         DOMAIN g = 1..(n + 1), g = [i \in 1..(n + 1) |-> g[i]],
         \A i \in 1..n : g[i] = f[i], g[n + 1] = x
  PROVE  g = Append(f, x)
<1> DEFINE T == {f[i] : i \in 1..n} \cup {x}
<1>1. f \in [1..n -> T] OBVIOUS
<1>2. f \in Seq(T) BY <1>1, SeqDef
<1>3. x \in T OBVIOUS
<1> HIDE DEF T
<1>4. Len(f) = n BY <1>1, <1>2
<1>5. /\ Append(f, x) \in Seq(T) /\ DOMAIN Append(f, x) = 1..(n + 1)
      /\ \A i \in 1..(n + 1) : Append(f, x)[i] = IF i = n + 1 THEN x ELSE f[i]
  BY <1>2, <1>3, <1>4
<1>6. Append(f, x) = [i \in 1..(n + 1) |-> Append(f, x)[i]] BY <1>5
<1>7. \A i \in 1..(n + 1) : Append(f, x)[i] = g[i]
  <2>1. \A i \in 1..(n + 1) : i # n + 1 => i \in 1..n OBVIOUS
  <2> QED BY <1>5, <2>1
<1> QED BY <1>6, <1>7
----------------------------------------------------------------------------
(* What a pass of the node's loop does to the samples: it takes one into    *)
(* the buffer, starts over at a TICK, and sends nothing but the buffer.     *)

\* The DATA frames among s are the buffered sample.
Buffered(s, n) == \A i \in DOMAIN s : s[i].kind = "data" => s[i] = sDataFrame[n]

LEMMA BufferedBoth ==
  ASSUME NEW n, NEW r \in Seq(Frames), NEW s \in Seq(Frames), Buffered(r, n), Buffered(s, n)
  PROVE  Buffered(r \o s, n)
<1> SUFFICES ASSUME NEW i \in DOMAIN (r \o s), (r \o s)[i].kind = "data"
             PROVE  (r \o s)[i] = sDataFrame[n]
  BY DEF Buffered
<1>1. CASE i \in 1..Len(r)
  <2>1. (r \o s)[i] = r[i] /\ i \in DOMAIN r BY <1>1
  <2> QED BY <2>1 DEF Buffered
<1>2. CASE i \notin 1..Len(r)
  <2>1. (r \o s)[i] = s[i - Len(r)] /\ i - Len(r) \in DOMAIN s BY <1>2
  <2> QED BY <2>1 DEF Buffered
<1> QED BY <1>1, <1>2

LEMMA BufferedReply ==
  ASSUME NEW n, NEW a \in Addr, NEW r \in Reply \cup {None}
  PROVE  SendReply(a, r) \in Seq(Frames) /\ Buffered(SendReply(a, r), n)
<1>1. CASE r = None BY <1>1 DEF SendReply, Buffered
<1>2. CASE r # None
  <2> DEFINE f == CtrlFrame(a, r.op, r.val)
  <2>1. f \in Frames BY <1>2 DEF Frames, ReplyFrames
  <2>2. f.kind # "data" BY DEF CtrlFrame
  <2>3. SendReply(a, r) = <<f>> BY <1>2 DEF SendReply
  <2> HIDE DEF f
  <2> QED BY <2>1, <2>2, <2>3 DEF Buffered
<1> QED BY <1>1, <1>2

LEMMA BufferedData ==
  ASSUME TypeOK, NEW n \in Node
  PROVE  SendData(n) \in Seq(Frames) /\ Buffered(SendData(n), n)
<1>1. sDataFrame[n] \in Frames \cup {None} BY DEF TypeOK, Frames
<1>2. CASE sDataFrame[n] = None BY <1>2 DEF SendData, Buffered
<1>3. CASE sDataFrame[n] # None
  <2> DEFINE f == sDataFrame[n]
  <2>1. SendData(n) = <<f>> BY <1>3 DEF SendData
  <2>2. f \in Frames BY <1>1, <1>3
  <2> HIDE DEF f
  <2>3. <<f>> \in Seq(Frames) /\ \A i \in DOMAIN <<f>> : <<f>>[i] = f BY <2>2
  <2> QED BY <2>1, <2>3 DEF Buffered, f
<1> QED BY <1>2, <1>3

LEMMA BufferedSlot ==
  ASSUME TypeOK, NEW n \in Node
  PROVE  SlotFrames(n) \in Seq(Frames) /\ Buffered(SlotFrames(n), n)
BY BufferedData, BufferedReply DEF SlotFrames, TypeOK

TakesSample(n) == At(n, "drdy") /\ drdy[n] /\ HasSeismicSource(sMap[n])
HearsTick(n)   == AtReceive(n) /\ Command(n, "TICK")

Stamps(n) ==
  /\ TakesSample(n) => /\ sDataFrame'[n].index = sIndex[n] /\ ~drdy'[n]
                       /\ sIndex'[n] = (sIndex[n] + 1) % IndexMod
                       /\ tx'[n] = <<>>
  /\ ~TakesSample(n) => sDataFrame'[n] = sDataFrame[n] /\ drdy'[n] = drdy[n]
  /\ HearsTick(n) => sIndex'[n] = 0 /\ rx'[n] = None
  /\ ~TakesSample(n) /\ ~HearsTick(n) => sIndex'[n] = sIndex[n]
  /\ rx'[n] \in {rx[n], None}
  /\ Buffered(tx'[n], n)

LEMMA StampsHandled ==
  ASSUME TypeOK, NEW n \in Node, NEW a \in Addr, NEW i, NEW r \in Reply \cup {None},
         NEW out \in Seq(Frames), Buffered(out, n), NEW ev, Handled(n, a, i, r, out, ev),
         i = IF HearsTick(n) THEN 0 ELSE sIndex[n]
  PROVE  Stamps(n)
<1>0. /\ rx \in [Node -> Heard \cup {None}] /\ tx \in [Node -> Seq(Frames)]
      /\ sIndex \in [Node -> 0..(IndexMod - 1)]
  BY DEF TypeOK, Frames
<1>1. ~TakesSample(n) BY DEF Handled, AtReceive, TakesSample, At
<1>2. /\ UNCHANGED <<sDataFrame, drdy>> /\ rx'[n] = None /\ sIndex'[n] = i
  BY <1>0 DEF Handled
<1>3. Buffered(tx'[n], n)
  <2>1. tx'[n] = out \/ tx'[n] = out \o SendReply(a, r) BY <1>0 DEF Handled
  <2>2. Buffered(out \o SendReply(a, r), n) BY BufferedReply, BufferedBoth
  <2> QED BY <2>1, <2>2
<1> QED BY <1>1, <1>2, <1>3 DEF Stamps

LEMMA ReceiveStamps ==
  ASSUME TypeOK, NEW n \in Node, Receive(n)
  PROVE  Stamps(n)
<1>0. /\ sAddr[n] \in Addr /\ sReply[n] \in Reply \cup {None} /\ rx[n] \in Heard \cup {None}
      /\ <<>> \in Seq(Frames) /\ Buffered(<<>>, n)
  BY DEF TypeOK, Buffered
<1>1. QueryOp \cap ProtocolOp = {} /\ CfgOp \cap ProtocolOp = {}
  BY NodeAssumption
<1>2. ASSUME ~HearsTick(n), NEW a \in Addr, NEW r \in Reply \cup {None},
             NEW out \in Seq(Frames), Buffered(out, n), NEW ev,
             Handled(n, a, sIndex[n], r, out, ev)
      PROVE  Stamps(n)
  BY <1>2, StampsHandled
<1>3. CASE OnDiscover(n)
  <2>1. [op |-> "STATUS", val |-> PayloadLen(sMap[n])] \in Reply BY DEF Reply, TypeOK
  <2>2. ~HearsTick(n) BY <1>3 DEF OnDiscover, HearsTick, Command
  <2> QED BY <1>0, <1>2, <1>3, <2>1, <2>2 DEF OnDiscover, Answers
<1>4. CASE OnQuery(n)
  <2>1. PICK op \in QueryOp : Command(n, op) /\ Answers(n, op, 0) BY <1>4 DEF OnQuery
  <2>2. [op |-> op, val |-> 0] \in Reply BY DEF Reply
  <2>3. ~HearsTick(n) BY <1>1, <2>1 DEF HearsTick, Command, ProtocolOp
  <2> QED BY <1>0, <1>2, <2>1, <2>2, <2>3 DEF Answers
<1>5. CASE OnCfg(n)
  <2>1. PICK op \in CfgOp : Command(n, op) /\ Answers(n, "ACK", op) BY <1>5 DEF OnCfg
  <2>2. [op |-> "ACK", val |-> op] \in Reply BY DEF Reply
  <2>3. ~HearsTick(n) BY <1>1, <2>1 DEF HearsTick, Command, ProtocolOp
  <2> QED BY <1>0, <1>2, <2>1, <2>2, <2>3 DEF Answers
<1>6. CASE OnAssign(n)
  <2>1. [op |-> "ACK", val |-> "ASSIGN_ADDR"] \in Reply BY DEF Reply
  <2>2. rx[n].val \in Addr /\ ~HearsTick(n)
    <3>1. rx[n] \in Heard /\ rx[n].op = "ASSIGN_ADDR" /\ rx[n].kind = "ctrl"
      BY <1>0, <1>6 DEF OnAssign, Command, IsCtrl
    <3>2. PICK op \in Op :
            \E b \in Addr \cup {Broadcast}, v \in Val(op) : rx[n] = CtrlFrame(b, op, v)
      BY <3>1 DEF Heard, Undecodable
    <3>3. op = "ASSIGN_ADDR" /\ Val(op) = Slot BY <3>1, <3>2 DEF Val, CtrlFrame
    <3>4. rx[n].val \in Slot BY <3>2, <3>3 DEF CtrlFrame
    <3> QED BY <3>1, <3>4, NodeAssumption DEF HearsTick, Command
  <2> QED BY <1>0, <1>2, <1>6, <2>1, <2>2 DEF OnAssign
<1>7. CASE OnCalibrate(n) \/ OnSync(n) \/ OnHardReset(n)
  <2>1. ~HearsTick(n)
    BY <1>7 DEF OnCalibrate, OnSync, OnHardReset, HearsTick, Command
  <2> QED BY <1>0, <1>2, <1>7, <2>1 DEF OnCalibrate, OnSync, OnHardReset, Raises
<1>8. CASE OnTick(n)
  <2>1. HearsTick(n) BY <1>8 DEF OnTick, HearsTick, Handled
  <2> QED BY <1>0, <1>8, <2>1, StampsHandled DEF OnTick
<1>9. CASE OnResend(n)
  <2>1. ~HearsTick(n) BY <1>9 DEF OnResend, HearsTick, Command
  <2> QED BY <1>0, <1>2, <1>9, <2>1, BufferedData DEF OnResend
<1>10. CASE OnToken(n)
  <2> DEFINE err == CtrlFrame(sAddr[n], "ERROR", "CLOCK_LOST")
             out == IF st[n] = "SYNCED" THEN SlotFrames(n) ELSE <<err>>
  <2>1. <<err>> \in Seq(Frames) /\ Buffered(<<err>>, n)
    <3> DEFINE r == [op |-> "ERROR", val |-> "CLOCK_LOST"]
    <3>1. r \in Reply BY DEF Reply
    <3>2. SendReply(sAddr[n], r) = <<err>> BY <3>1, NoneAssumption DEF SendReply
    <3> HIDE DEF r
    <3> QED BY <1>0, <3>1, <3>2, BufferedReply
  <2>2. out \in Seq(Frames) /\ Buffered(out, n) BY <2>1, BufferedSlot
  <2>3. ~HearsTick(n) BY <1>10 DEF OnToken, HearsTick, Command
  <2>4. Handled(n, sAddr[n], sIndex[n], None, out, "NO_EVENT") BY <1>10 DEF OnToken
  <2> HIDE DEF out
  <2> QED BY <1>0, <1>2, <2>2, <2>3, <2>4
<1>11. CASE OnOther(n)
  <2>1. ~HearsTick(n) BY <1>11 DEF OnOther, HearsTick, Command
  <2> QED BY <1>0, <1>2, <1>11, <2>1 DEF OnOther, Raises
<1>12. CASE NoCtrl(n)
  <2>1. /\ ~HearsTick(n) /\ ~TakesSample(n)
    BY <1>12 DEF NoCtrl, HearsTick, Command, IsCtrl, TakesSample, AtReceive, At
  <2>2. UNCHANGED <<sIndex, sDataFrame, drdy, tx>> /\ rx' = [rx EXCEPT ![n] = None]
        /\ tx[n] = <<>>
    BY <1>12 DEF NoCtrl, app, AtReceive, At
  <2>3. rx \in [Node -> Heard \cup {None}] BY DEF TypeOK
  <2> QED BY <1>0, <2>1, <2>2, <2>3 DEF Stamps
<1> QED
  BY <1>3, <1>4, <1>5, <1>6, <1>7, <1>8, <1>9, <1>10, <1>11, <1>12 DEF Receive

LEMMA LoopStamps ==
  ASSUME TypeOK, NEW n \in Node, Loop(n), tx[n] = <<>>
  PROVE  Stamps(n)
<1>0. /\ sIndex \in [Node -> 0..(IndexMod - 1)] /\ drdy \in [Node -> BOOLEAN]
      /\ sDataFrame \in [Node -> DataFrames \cup {None}] /\ tx \in [Node -> Seq(Frames)]
  BY DEF TypeOK, Frames
<1>1. CASE SampleToBuffer(n)
  <2>1. TakesSample(n) /\ ~HearsTick(n) /\ UNCHANGED <<rx, tx>>
    BY <1>1 DEF SampleToBuffer, TakesSample, HearsTick, AtReceive, At
  <2>2. sDataFrame'[n] = DataFrame(sAddr[n], sIndex[n], PayloadLen(sMap[n]))
        /\ sIndex'[n] = (sIndex[n] + 1) % IndexMod /\ ~drdy'[n]
    BY <1>0, <1>1 DEF SampleToBuffer
  <2>3. sDataFrame'[n].index = sIndex[n] BY <2>2 DEF DataFrame
  <2> QED BY <2>1, <2>2, <2>3 DEF Stamps, Buffered
<1>2. CASE SendSlot(n)
  <2>1. ~TakesSample(n) /\ ~HearsTick(n) /\ UNCHANGED <<rx, sIndex, sDataFrame, drdy>>
    BY <1>2 DEF SendSlot, TakesSample, HearsTick, AtReceive, At
  <2>2. tx'[n] = SlotFrames(n) BY <1>0, <1>2 DEF SendSlot
  <2> QED BY <2>1, <2>2, BufferedSlot DEF Stamps
<1>3. CASE Receive(n) BY <1>3, ReceiveStamps
<1>4. ASSUME ~TakesSample(n), ~HearsTick(n), UNCHANGED <<sIndex, sDataFrame, drdy, rx, tx>>
      PROVE  Stamps(n)
  BY <1>4 DEF Stamps, Buffered
<1>5. CASE Boot(n) \/ Detect(n) \/ InitSensors(n) \/ LeaveFault(n)
  BY <1>4, <1>5
  DEF Boot, Detect, InitSensors, LeaveFault, TakesSample, HearsTick, AtReceive, At, app
<1>6. CASE TakeClockLost(n) \/ ClockStillThere(n) \/ NoSample(n) \/ SlotNotDue(n) \/ Calibrate(n)
  BY <1>4, <1>6
  DEF TakeClockLost, ClockStillThere, NoSample, SlotNotDue, Calibrate, TakesSample, HearsTick,
      AtReceive, At, app
<1>7. CASE SwitchToHse(n) \/ Recover(n)
  BY <1>4, <1>7
  DEF SwitchToHse, Recover, Uart2DisableIrq, Uart2Deinit, RemapRxToHse, SelectHse, PllLocked,
      PllTimeout, RemapHseToRx, Uart2Reinit, SelectRc, Poke, TakesSample, HearsTick, AtReceive,
      At, app
<1>8. ~Transmitted(n) BY DEF Transmitted
<1> QED BY <1>1, <1>2, <1>3, <1>5, <1>6, <1>7, <1>8 DEF Loop
----------------------------------------------------------------------------
(* The inductive invariant.                                                 *)

\* Sample k was taken under index x.
Under(k, x) == k \in DOMAIN taken /\ taken[k].index = x

Counted ==
  /\ IsList(taken) /\ ticks \in Nat /\ lastTick \in 0..ticks /\ epoch \in 0..lastTick
  /\ \A i \in DOMAIN taken : /\ taken[i].index \in 0..(IndexMod - 1)
                             /\ taken[i].tick \in 0..epoch

\* The next sample starts over or counts on; the buffer holds the newest.
Numbered ==
  /\ taken = <<>> => sIndex[Streamer] = 0
  /\ taken # <<>> => sIndex[Streamer] \in {0, (taken[Len(taken)].index + 1) % IndexMod}
  /\ sDataFrame[Streamer] # None => Under(Len(taken), sDataFrame[Streamer].index)

\* What is under way is what the history says it is.
Carried ==
  /\ onWire \in 0..Len(taken) /\ arrived \in 0..onWire
  /\ \A i \in DOMAIN tx[Streamer] :
       tx[Streamer][i].kind = "data" => Under(onWire, tx[Streamer][i].index)
  /\ mrx # None /\ mrx.kind = "data" /\ mrx.intact => Under(arrived, mrx.index)

Recorded ==
  /\ IsList(record)
  /\ \A i \in DOMAIN record : /\ record[i].sample \in 1..arrived
                              /\ Under(record[i].sample, record[i].index)

IsTick(f) == f # None /\ f.kind = "ctrl" /\ f.op = "TICK"

\* A TICK is handled in the second it was sent in, or not at all.
TicksInTime ==
  /\ epoch = lastTick => ~IsTick(rx[Streamer]) /\ ~IsTick(mtx)
  /\ IsTick(rx[Streamer]) => ~IsTick(mtx)
  /\ IsTick(rx[Streamer]) /\ M!Running /\ mpc # "ticked" => rtc = lastSec
  /\ IsTick(mtx) => mpc = "ticked"
  /\ mpc = "ticked" => now = rtc /\ rtc # lastSec

\* The samples of the running second are below the index of the next.
BelowNext ==
  epoch = ticks =>
    /\ \A i \in DOMAIN taken : taken[i].tick = ticks => taken[i].index < sIndex[Streamer]
    /\ drdy[Streamer] => sIndex[Streamer] + 1 < IndexMod

\* An expectation was set by a record of the running second, or by its TICK.
Expected == {nodes[i].exp : i \in DOMAIN nodes}
After(k) == {(record[i].index + 1) % IndexMod : i \in Of(k)}
FromRecords ==
  /\ M!Running /\ mpc # "ticked" => Expected \subseteq {0} \cup After(ticks)
  /\ ~M!Running => Expected \subseteq {0}

StreamInv == /\ NetTypeOK /\ Counted /\ Numbered /\ Carried /\ Recorded
             /\ TicksInTime /\ BelowNext /\ FromRecords
----------------------------------------------------------------------------
(* Small facts the steps share.                                             *)

LEMMA TheStreamer == Streamer \in Node /\ \A n \in Node : n = Streamer
BY StreamAssumption

LEMMA SmallMod == ASSUME NEW m \in Nat \ {0}, NEW x \in Nat, x < m PROVE x % m = x
OBVIOUS

\* What a frame that was hit becomes can be told from a sample.
LEMMA GarbledShows ==
  ASSUME NEW f \in Frames, Garbled(f).kind = "data"
  PROVE  ~Garbled(f).intact
<1>1. f \in DataFrames /\ f.kind = "data"
  BY FramesTyped DEF Frames, Garbled, Undecodable
<1>2. PICK a \in Addr, i \in 0..(IndexMod - 1), s \in SensorMap :
        f = DataFrame(a, i, PayloadLen(s))
  BY <1>1 DEF DataFrames
<1>3. Garbled(f) = [kind |-> "data", station |-> a, index |-> i, len |-> PayloadLen(s),
                    intact |-> FALSE]
  BY <1>1, <1>2 DEF Garbled, Damaged, DataFrame
<1> QED BY <1>3

\* A list has a last element exactly when it is not empty.
LEMMA ListIs ==
  ASSUME NEW s, IsList(s)
  PROVE  /\ Len(s) \in Nat /\ DOMAIN s = 1..Len(s)
         /\ s = <<>> <=> Len(s) = 0
BY DEF IsList

----------------------------------------------------------------------------
(* The steps.                                                               *)

\* A pass of the node's loop.
LEMMA NodeStepsInv ==
  ASSUME StreamInv, NetTypeOK', NodeSteps
  PROVE  StreamInv'
<1> DEFINE S == Streamer
           Later(k, x) == k \in DOMAIN taken' /\ taken'[k].index = x
<1>0. /\ NetTypeOK /\ Counted /\ Numbered /\ Carried /\ Recorded
      /\ TicksInTime /\ BelowNext /\ FromRecords
  BY DEF StreamInv
<1>1. Stamps(S) /\ tx[S] = <<>>
  BY <1>0, TheStreamer, LoopStamps DEF NodeSteps, NodeRuns, NetTypeOK
<1>2. UNCHANGED <<mpc, mtx, mrx, rtc, now, lastSec, nodes, ticks, lastTick, arrived, record>>
  BY DEF NodeSteps, NodeRuns, master
<1>3. /\ Sampled <=> TakesSample(S)
      /\ HeardTick <=> HearsTick(S)
  BY DEF Sampled, TakesSample, HeardTick, HearsTick
<1>4. ~(Sampled /\ HeardTick)
  BY DEF Sampled, HeardTick, AtReceive, At
<1>5. /\ taken' = IF Sampled THEN Append(taken, [tick |-> epoch, index |-> sIndex[S]]) ELSE taken
      /\ epoch' = IF HeardTick THEN lastTick ELSE epoch
      /\ onWire' = IF Sends THEN Len(taken) ELSE onWire
  BY DEF NodeSteps
<1>6. /\ IndexMod \in Nat \ {0, 1} /\ sIndex[S] \in 0..(IndexMod - 1)
      /\ sDataFrame[S] \in DataFrames \cup {None} /\ tx'[S] \in Seq(Frames)
  BY <1>0, TheStreamer, NodeAssumption DEF NetTypeOK, TypeOK, Frames
<1>7. /\ IsList(taken') /\ Len(taken) \in Nat /\ DOMAIN taken = 1..Len(taken)
      /\ DOMAIN taken' = 1..Len(taken')
      /\ ~Sampled => taken' = taken
      /\ Sampled => /\ Len(taken') = Len(taken) + 1
                    /\ taken'[Len(taken) + 1] = [tick |-> epoch, index |-> sIndex[S]]
      /\ \A i \in DOMAIN taken : i \in DOMAIN taken' /\ taken'[i] = taken[i]
  <2>1. IsList(taken) BY <1>0 DEF Counted
  <2>2. CASE Sampled BY <1>5, <2>1, <2>2, Appended
  <2>3. CASE ~Sampled BY <1>5, <2>1, <2>3, ListIs
  <2> QED BY <2>2, <2>3
<1>8. ASSUME NEW i \in DOMAIN taken'
      PROVE  i \in DOMAIN taken \/ (Sampled /\ i = Len(taken) + 1)
  <2>1. CASE Sampled
    <3>1. i \in 1..(Len(taken) + 1) BY <1>7, <2>1
    <3> QED BY <1>7, <2>1, <3>1
  <2>2. CASE ~Sampled BY <1>7, <2>2
  <2> QED BY <2>1, <2>2
<1>9. ASSUME NEW k, NEW x, Under(k, x) PROVE Later(k, x)
  BY <1>7, <1>9 DEF Under
<1>10. Counted'
  <2>1. epoch' \in 0..lastTick /\ epoch' >= epoch /\ epoch \in Nat BY <1>0, <1>5 DEF Counted
  <2>2. ASSUME NEW i \in DOMAIN taken'
        PROVE  taken'[i].index \in 0..(IndexMod - 1) /\ taken'[i].tick \in 0..epoch'
    <3>1. CASE i \in DOMAIN taken
      <4>1. taken[i].index \in 0..(IndexMod - 1) /\ taken[i].tick \in 0..epoch
        BY <1>0, <3>1 DEF Counted
      <4>2. taken'[i] = taken[i] BY <1>7, <3>1
      <4> QED BY <2>1, <4>1, <4>2
    <3>2. CASE Sampled /\ i = Len(taken) + 1 BY <1>6, <1>7, <2>1, <3>2
    <3> QED BY <1>8, <3>1, <3>2
  <2> QED BY <1>0, <1>2, <1>7, <2>1, <2>2 DEF Counted
<1>11. Numbered'
  <2>1. CASE Sampled
    <3>1. /\ sDataFrame'[S].index = sIndex[S] /\ sIndex'[S] = (sIndex[S] + 1) % IndexMod
      BY <1>1, <1>3, <2>1 DEF Stamps
    <3>2. Len(taken') \in DOMAIN taken' /\ taken'[Len(taken')].index = sIndex[S]
      BY <1>7, <2>1
    <3> QED BY <3>1, <3>2 DEF Numbered, Under
  <2>2. CASE ~Sampled
    <3>1. taken' = taken /\ sDataFrame'[S] = sDataFrame[S]
          /\ sIndex'[S] \in {sIndex[S], 0}
      BY <1>1, <1>3, <1>7, <2>2 DEF Stamps
    <3> QED BY <1>0, <3>1 DEF Numbered, Under
  <2> QED BY <2>1, <2>2
<1>12. Carried'
  <2>1. onWire' \in 0..Len(taken') /\ arrived' \in 0..onWire'
    <3>1. Len(taken) \in Nat /\ Len(taken') \in {Len(taken), Len(taken) + 1} BY <1>7
    <3>2. onWire \in 0..Len(taken) /\ arrived \in 0..onWire BY <1>0 DEF Carried
    <3>3. onWire' = Len(taken) \/ onWire' = onWire BY <1>5
    <3>4. arrived' = arrived BY <1>2
    <3> QED BY <3>1, <3>2, <3>3, <3>4
  <2>2. ASSUME NEW i \in DOMAIN tx'[S], tx'[S][i].kind = "data"
        PROVE  Later(onWire', tx'[S][i].index)
    <3>1. Sends /\ tx'[S][i] = sDataFrame[S] BY <1>1, <2>2 DEF Sends, Stamps, Buffered
    <3>2. ~Sampled BY <1>1, <1>3, <2>2 DEF Stamps
    <3>3. sDataFrame[S] # None
      <4>1. tx'[S][i] \in Frames BY <1>6
      <4> QED BY <3>1, <4>1, NoneIsNoFrame
    <3>4. Under(Len(taken), sDataFrame[S].index) BY <1>0, <3>3 DEF Numbered
    <3>5. onWire' = Len(taken) BY <1>5, <3>1
    <3>6. Later(Len(taken), sDataFrame[S].index) BY <1>9, <3>4
    <3> QED BY <3>1, <3>5, <3>6
  <2>3. mrx' # None /\ mrx'.kind = "data" /\ mrx'.intact => Later(arrived', mrx'.index)
    <3> SUFFICES ASSUME mrx # None, mrx.kind = "data", mrx.intact
                 PROVE  Later(arrived, mrx.index)
      BY <1>2
    <3>1. Under(arrived, mrx.index) BY <1>0 DEF Carried
    <3> QED BY <1>9, <3>1
  <2> QED BY <1>2, <2>1, <2>2, <2>3 DEF Carried, Under
<1>13. Recorded'
  <2>1. ASSUME NEW i \in DOMAIN record
        PROVE  record[i].sample \in 1..arrived /\ Later(record[i].sample, record[i].index)
    <3>1. record[i].sample \in 1..arrived /\ Under(record[i].sample, record[i].index)
      BY <1>0 DEF Recorded
    <3> QED BY <1>9, <3>1
  <2> QED BY <1>0, <1>2, <2>1 DEF Recorded, Under
<1>14. TicksInTime'
  <2>1. rx'[S] \in {rx[S], None} /\ ~IsTick(None) BY <1>1 DEF Stamps, IsTick
  <2>2. HeardTick => IsTick(rx[S]) /\ rx'[S] = None
    BY <1>1, <1>3 DEF Stamps, HeardTick, Command, IsCtrl, IsTick
  <2>3. epoch' = lastTick => ~IsTick(rx'[S]) /\ ~IsTick(mtx)
    BY <1>0, <1>5, <2>1, <2>2 DEF TicksInTime
  <2>4. IsTick(rx'[S]) => IsTick(rx[S]) BY <2>1
  <2> QED BY <1>0, <1>2, <2>3, <2>4 DEF TicksInTime, IsTick, M!Running
<1>15. BelowNext'
  <2> SUFFICES ASSUME epoch' = ticks
               PROVE  /\ \A i \in DOMAIN taken' :
                           taken'[i].tick = ticks => taken'[i].index < sIndex'[S]
                      /\ drdy'[S] => sIndex'[S] + 1 < IndexMod
    BY <1>2 DEF BelowNext
  <2>1. CASE HeardTick
    <3>1. IsTick(rx[S]) BY <2>1 DEF HeardTick, Command, IsCtrl, IsTick
    <3>2. epoch # lastTick BY <1>0, <3>1 DEF TicksInTime
    <3>3. \A i \in DOMAIN taken : /\ taken[i].tick \in 0..epoch /\ epoch \in 0..lastTick
                                  /\ lastTick \in 0..ticks /\ ticks \in Nat
      BY <1>0 DEF Counted
    <3>4. sIndex'[S] = 0 /\ taken' = taken BY <1>1, <1>3, <1>4, <1>7, <2>1 DEF Stamps
    <3> QED BY <1>6, <3>2, <3>3, <3>4
  <2>2. CASE Sampled
    <3>1. epoch = ticks /\ drdy[S] BY <1>4, <1>5, <2>2 DEF Sampled
    <3>2. sIndex[S] + 1 < IndexMod BY <1>0, <3>1 DEF BelowNext
    <3>3. sIndex'[S] = sIndex[S] + 1 /\ ~drdy'[S]
      <4>1. sIndex'[S] = (sIndex[S] + 1) % IndexMod /\ ~drdy'[S]
        BY <1>1, <1>3, <2>2 DEF Stamps
      <4>2. sIndex[S] + 1 \in Nat BY <1>6
      <4> QED BY <1>6, <3>2, <4>1, <4>2, SmallMod
    <3>4. \A i \in DOMAIN taken : taken[i].tick = ticks => taken[i].index < sIndex[S]
      BY <1>0, <3>1 DEF BelowNext
    <3>5. \A i \in DOMAIN taken : taken[i].index \in 0..(IndexMod - 1) BY <1>0 DEF Counted
    <3>6. ASSUME NEW i \in DOMAIN taken', taken'[i].tick = ticks
          PROVE  taken'[i].index < sIndex'[S]
      <4>1. CASE i \in DOMAIN taken
        <5>1. taken'[i] = taken[i] BY <1>7, <4>1
        <5>2. taken[i].index < sIndex[S] /\ taken[i].index \in 0..(IndexMod - 1)
          BY <3>4, <3>5, <3>6, <4>1, <5>1
        <5> QED BY <1>6, <3>3, <5>1, <5>2
      <4>2. CASE i = Len(taken) + 1 BY <1>6, <1>7, <2>2, <3>3, <4>2
      <4> QED BY <1>8, <4>1, <4>2
    <3> QED BY <3>3, <3>6
  <2>3. CASE ~HeardTick /\ ~Sampled
    <3>1. epoch = ticks /\ taken' = taken BY <1>5, <1>7, <2>3
    <3>2. sIndex'[S] = sIndex[S] /\ drdy'[S] = drdy[S] BY <1>1, <1>3, <2>3 DEF Stamps
    <3> QED BY <1>0, <3>1, <3>2 DEF BelowNext
  <2> QED BY <2>1, <2>2, <2>3
<1>16. FromRecords'
  BY <1>0, <1>2 DEF FromRecords, Expected, After, Of, M!Running
<1> QED
  BY <1>10, <1>11, <1>12, <1>13, <1>14, <1>15, <1>16 DEF StreamInv

\* What a step that leaves the node's samples alone needs not be asked.
LEMMA SamplesUntouched ==
  ASSUME StreamInv, UNCHANGED <<taken, epoch, sIndex, sDataFrame>>,
         ticks' \in Nat, ticks' >= ticks, lastTick' \in {lastTick, ticks'}
  PROVE  Counted' /\ Numbered'
<1>1. Counted /\ Numbered BY DEF StreamInv
<1>2. lastTick' \in 0..ticks' /\ epoch \in 0..lastTick' /\ \A x \in 0..epoch : x \in Nat
  BY <1>1 DEF Counted
<1> QED BY <1>1, <1>2 DEF Counted, Numbered, Under

\* A frame of the node leaves its transmitter.
LEMMA NodeSendsInv ==
  ASSUME StreamInv, NetTypeOK', NodeSends
  PROVE  StreamInv'
<1> DEFINE S == Streamer
           f == Head(tx[S])
<1>0. /\ NetTypeOK /\ Counted /\ Numbered /\ Carried /\ Recorded
      /\ TicksInTime /\ BelowNext /\ FromRecords
  BY DEF StreamInv
<1>1. UNCHANGED <<sIndex, sDataFrame, drdy, ticks, lastTick, epoch, taken, onWire, record>>
  BY DEF NodeSends, NodeTransmits, app
<1>2. /\ tx[S] \in Seq(Frames) /\ tx[S] # <<>> /\ tx'[S] = Tail(tx[S])
  BY <1>0, TheStreamer DEF NodeSends, NodeTransmits, NetTypeOK, TypeOK, Frames
<1>3. /\ f \in Frames /\ 1 \in DOMAIN tx[S] /\ f = tx[S][1]
      /\ \A i \in DOMAIN tx'[S] : i + 1 \in DOMAIN tx[S] /\ tx'[S][i] = tx[S][i + 1]
  BY <1>2
<1>4. rx'[S] = rx[S]
  BY <1>0, TheStreamer DEF NodeSends, NodeTransmits, Carries, NetTypeOK, TypeOK
<1>5. UNCHANGED <<mpc, mtx, rtc, now, lastSec, nodes>>
  BY DEF NodeSends, NodeTransmits, M!Arrives, M!secs, M!table, master
<1>6. \/ mrx = None /\ mrx' \in {Arriving(f, S), Garbled(f)}
      \/ mrx' = mrx
  BY DEF NodeSends, NodeTransmits, M!Arrives, master
<1>7. arrived' = IF mrx' \notin {None, mrx} THEN onWire ELSE arrived
  BY DEF NodeSends
<1>8. Under(onWire, f.index) \/ f.kind # "data"
  BY <1>0, <1>3 DEF Carried
<1> HIDE DEF f
<1>9. Carried'
  <2>1. onWire \in 0..Len(taken) /\ arrived' \in 0..onWire
    <3>1. onWire \in 0..Len(taken) /\ arrived \in 0..onWire /\ Len(taken) \in Nat
      BY <1>0, ListIs DEF Carried, Counted
    <3> QED BY <1>7, <3>1
  <2>2. ASSUME NEW i \in DOMAIN tx'[S], tx'[S][i].kind = "data"
        PROVE  Under(onWire, tx'[S][i].index)
    BY <1>0, <1>3, <2>2 DEF Carried
  <2>3. ASSUME mrx' # None, mrx'.kind = "data", mrx'.intact
        PROVE  Under(arrived', mrx'.index)
    <3>1. CASE mrx' = mrx BY <1>0, <1>7, <2>3, <3>1 DEF Carried
    <3>2. CASE mrx = None /\ mrx' \in {Arriving(f, S), Garbled(f)}
      <4>1. mrx' = f BY <1>3, <2>3, <3>2, GarbledShows DEF Arriving
      <4>2. arrived' = onWire BY <1>7, <2>3, <3>2
      <4> QED BY <1>8, <2>3, <4>1, <4>2
    <3> QED BY <1>6, <3>1, <3>2
  <2> QED BY <1>1, <2>1, <2>2, <2>3 DEF Carried, Under
<1>10. Counted' /\ Numbered'
  <2>1. ticks \in Nat BY <1>0 DEF Counted
  <2> QED BY <1>1, <2>1, SamplesUntouched
<1>11. Recorded'
  <2>1. arrived' \in Nat /\ arrived' >= arrived /\ arrived \in Nat
    <3>1. onWire \in Nat /\ arrived \in 0..onWire
      BY <1>0, ListIs DEF Carried, Counted
    <3> QED BY <1>7, <3>1
  <2>2. ASSUME NEW i \in DOMAIN record
        PROVE  record[i].sample \in 1..arrived' /\ Under(record[i].sample, record[i].index)
    <3>1. record[i].sample \in 1..arrived /\ Under(record[i].sample, record[i].index)
      BY <1>0 DEF Recorded
    <3> QED BY <2>1, <3>1
  <2> QED BY <1>0, <1>1, <2>2 DEF Recorded, Under
<1>12. TicksInTime' BY <1>0, <1>1, <1>4, <1>5 DEF TicksInTime, IsTick, M!Running
<1>13. BelowNext' BY <1>0, <1>1 DEF BelowNext
<1>14. FromRecords' BY <1>0, <1>1, <1>5 DEF FromRecords, Expected, After, Of, M!Running
<1> QED BY <1>9, <1>10, <1>11, <1>12, <1>13, <1>14 DEF StreamInv

\* DRDY, and a second of the master's clock.
LEMMA WorldInv ==
  ASSUME StreamInv, NetTypeOK', SensorReady \/ Second
  PROVE  StreamInv'
<1>0. /\ NetTypeOK /\ Counted /\ Numbered /\ Carried /\ Recorded
      /\ TicksInTime /\ BelowNext /\ FromRecords
  BY DEF StreamInv
<1>1. /\ UNCHANGED <<sIndex, sDataFrame, rx, tx, mpc, mtx, mrx, now, lastSec, nodes>>
      /\ UNCHANGED <<ticks, lastTick, epoch, taken, onWire, arrived, record>>
  BY DEF SensorReady, NodeSamples, DrdyIsr, Second, SecondPasses, M!RtcTick, M!bus, M!table,
         app, vars, master, history
<1>2. Counted' /\ Numbered'
  <2>1. ticks \in Nat BY <1>0 DEF Counted
  <2> QED BY <1>1, <2>1, SamplesUntouched
<1>3. Carried' /\ Recorded' BY <1>0, <1>1 DEF Carried, Recorded, Under
<1>4. FromRecords' BY <1>0, <1>1 DEF FromRecords, Expected, After, Of, M!Running
<1>5. CASE SensorReady
  <2>1. rtc' = rtc /\ RateKept BY <1>5 DEF SensorReady, NodeSamples, master
  <2>2. TicksInTime' BY <1>0, <1>1, <2>1 DEF TicksInTime, IsTick, M!Running
  <2>3. BelowNext' BY <1>0, <1>1, <2>1 DEF BelowNext, RateKept
  <2> QED BY <1>2, <1>3, <1>4, <2>2, <2>3 DEF StreamInv
<1>6. CASE Second
  <2>1. rx[Streamer] = None /\ (M!Running => lastSec = rtc) /\ drdy' = drdy
    BY <1>6 DEF Second, SecondPasses, M!RtcTick, vars
  <2>2. mpc # "ticked" BY <1>0, <2>1 DEF TicksInTime, M!Running
  <2>3. TicksInTime' BY <1>0, <1>1, <2>1, <2>2 DEF TicksInTime, IsTick, M!Running
  <2>4. BelowNext' BY <1>0, <1>1, <2>1 DEF BelowNext
  <2> QED BY <1>2, <1>3, <1>4, <2>3, <2>4 DEF StreamInv
<1> QED BY <1>5, <1>6

\* A frame of the master leaves its transmitter.
LEMMA MasterTransmitsInv ==
  ASSUME StreamInv, NetTypeOK', MasterTransmits, UNCHANGED history
  PROVE  StreamInv'
<1> DEFINE S == Streamer
           heard == AtNode(Arriving(mtx, Master))
<1>0. /\ NetTypeOK /\ Counted /\ Numbered /\ Carried /\ Recorded
      /\ TicksInTime /\ BelowNext /\ FromRecords
  BY DEF StreamInv
<1>1. /\ UNCHANGED <<sIndex, sDataFrame, drdy, tx, mpc, mrx, rtc, now, lastSec, nodes>>
      /\ UNCHANGED <<ticks, lastTick, epoch, taken, onWire, arrived, record>>
      /\ mtx # None /\ mtx' = None
  BY DEF MasterTransmits, M!SentOut, M!secs, M!table, app, history
<1>2. Counted' /\ Numbered'
  <2>1. ticks \in Nat BY <1>0 DEF Counted
  <2> QED BY <1>1, <2>1, SamplesUntouched
<1>3. Carried' /\ Recorded' BY <1>0, <1>1 DEF Carried, Recorded, Under
<1>4. FromRecords' BY <1>0, <1>1 DEF FromRecords, Expected, After, Of, M!Running
<1>5. BelowNext' BY <1>0, <1>1 DEF BelowNext
<1>6. rx'[S] \in {rx[S], heard}
  BY <1>0, TheStreamer DEF MasterTransmits, Carries, NetTypeOK, TypeOK
<1>7. IsTick(heard) => IsTick(mtx)
  <2>1. mtx \in MasterSays BY <1>0, <1>1 DEF NetTypeOK, MasterTypeOK
  <2>2. Arriving(mtx, Master) \in {mtx, Undecodable}
    BY <2>1, MasterSaysTyped DEF Arriving, Garbled
  <2>3. AtNode(mtx) = mtx /\ AtNode(Undecodable) = Undecodable
    BY <2>1, FrameHeard DEF AtNode, Undecodable
  <2>4. ~IsTick(Undecodable) BY DEF IsTick, Undecodable
  <2> QED BY <2>2, <2>3, <2>4
<1> HIDE DEF heard
<1>8. ~IsTick(None) BY DEF IsTick
<1>9. IsTick(rx'[S]) => IsTick(rx[S]) \/ IsTick(mtx) BY <1>6, <1>7
<1>10. TicksInTime'
  BY <1>0, <1>1, <1>8, <1>9 DEF TicksInTime, IsTick, M!Running
<1> QED BY <1>2, <1>3, <1>4, <1>5, <1>10 DEF StreamInv

\* The master resets; what it sent before counts for no second any more.
LEMMA RestartInv ==
  ASSUME StreamInv, NetTypeOK', Restart
  PROVE  StreamInv'
<1>0. /\ NetTypeOK /\ Counted /\ Numbered /\ Carried /\ Recorded
      /\ TicksInTime /\ BelowNext /\ FromRecords
  BY DEF StreamInv
<1>1. /\ UNCHANGED <<sIndex, sDataFrame, rx, tx, lastTick, epoch, taken, onWire, arrived, record>>
      /\ mpc' = "discover" /\ mtx' = None /\ mrx' = None /\ nodes' = <<>>
      /\ ticks' = ticks + 1
  BY DEF Restart, MasterRestarts, M!PowerUp, app
<1>2. ticks \in Nat /\ lastTick \in 0..ticks /\ epoch \in 0..lastTick BY <1>0 DEF Counted
<1>3. Counted' /\ Numbered' BY <1>1, <1>2, SamplesUntouched
<1>4. Carried' /\ Recorded' BY <1>0, <1>1 DEF Carried, Recorded, Under
<1>5. epoch' # ticks' BY <1>1, <1>2
<1>6. BelowNext' BY <1>5 DEF BelowNext
<1>7. TicksInTime' BY <1>0, <1>1 DEF TicksInTime, IsTick, M!Running
<1>8. FromRecords' BY <1>1 DEF FromRecords, Expected, M!Running
<1> QED BY <1>3, <1>4, <1>6, <1>7, <1>8 DEF StreamInv
----------------------------------------------------------------------------
(* The master's own steps: when it asks for a TICK, and what moves an       *)
(* expectation.                                                             *)

LEMMA WorkingTicks ==
  ASSUME M!Working, mpc = "ticked" => now = rtc
  PROVE  /\ rtc' = rtc
         /\ M!Running => M!Running'
         /\ mpc' = "ticked" => /\ mpc = "top" /\ rtc # lastSec
                               /\ now' = rtc /\ lastSec' = lastSec
         /\ IsTick(mtx') => mpc' = "ticked"
         /\ mpc = "top" /\ rtc # lastSec => mpc' = "ticked"
         /\ mpc' # "ticked" /\ M!Running' =>
              \/ lastSec' = rtc
              \/ M!Running /\ mpc # "ticked" /\ lastSec' = lastSec
         /\ mrx' \in {mrx, None}
<1>0. \A a, op, v : IsTick(CtrlFrame(a, op, v)) => op = "TICK"
  BY DEF IsTick, CtrlFrame
<1>1. ~IsTick(None) BY DEF IsTick
<1> USE DEF M!Running, M!At
<1>2. CASE M!Discover \/ M!SendSync
  BY <1>0, <1>2, SameLink DEF M!Discover, M!SendSync, M!secs
<1>3. CASE M!AwaitStatus \/ M!AwaitType
  BY <1>0, <1>1, <1>3, SameLink DEF M!AwaitStatus, M!AwaitType, M!secs
<1>4. CASE M!Discovered \/ M!Assigned \/ M!ClockStart \/ M!StartRun
  BY <1>1, <1>4 DEF M!Discovered, M!Assigned, M!ClockStart, M!StartRun, M!secs, M!bus
<1>5. CASE M!Assign
  BY <1>0, <1>5, SameLink DEF M!Assign, M!secs
<1>6. CASE M!Top
  BY <1>1, <1>6 DEF M!Top
<1>7. CASE M!Ticked
  BY <1>1, <1>7 DEF M!Ticked, M!bus
<1>8. CASE M!RecvData \/ M!RecvCtrl \/ M!RecvNothing
  BY <1>0, <1>1, <1>8, SameLink
  DEF M!RecvData, M!RecvCtrl, M!RecvNothing, M!Received, M!secs
<1>9. CASE M!SilentSlot
  BY <1>1, <1>9 DEF M!SilentSlot, M!secs, M!bus
<1> QED BY <1>2, <1>3, <1>4, <1>5, <1>6, <1>7, <1>8, <1>9 DEF M!Working

\* The expectations of a table.
Expects(t) == {t[i].exp : i \in DOMAIN t}

LEMMA ExpectsReplaced ==
  ASSUME NEW t \in Tables, NEW i, NEW e, NEW X, i \in DOMAIN t => e.exp \in Expects(t) \cup X
  PROVE  Expects([t EXCEPT ![i] = e]) \subseteq Expects(t) \cup X
<1> DEFINE u == [t EXCEPT ![i] = e]
<1>1. t \in [1..Len(t) -> M!Entry] BY DEF Tables
<1>2. DOMAIN u = DOMAIN t /\ \A j \in DOMAIN t : u[j] = IF j = i THEN e ELSE t[j]
  BY <1>1
<1> HIDE DEF u
<1> QED BY <1>2 DEF Expects

LEMMA ExpectsAppended ==
  ASSUME NEW t \in Tables, NEW e
  PROVE  Expects(Append(t, e)) \subseteq Expects(t) \cup {e.exp}
<1>1. t \in Seq(M!Entry) BY DEF Tables
<1>2. IsList(t) BY <1>1, ListOf
<1> DEFINE u == Append(t, e)
<1>3. /\ Len(t) \in Nat /\ DOMAIN t = 1..Len(t) /\ DOMAIN u = 1..(Len(t) + 1)
      /\ u[Len(t) + 1] = e
      /\ \A i \in 1..Len(t) : u[i] = t[i]
  BY <1>2, Appended
<1> HIDE DEF u
<1>4. ASSUME NEW i \in DOMAIN u PROVE u[i].exp \in Expects(t) \cup {e.exp}
  <2>1. CASE i \in 1..Len(t)
    <3>1. u[i] = t[i] /\ i \in DOMAIN t BY <1>3, <2>1
    <3> QED BY <3>1 DEF Expects
  <2>2. CASE i = Len(t) + 1 BY <1>3, <2>2
  <2> QED BY <1>3, <2>1, <2>2
<1> QED BY <1>4 DEF Expects

LEMMA ExpectsControlled ==
  ASSUME NEW t \in Tables, NEW c
  PROVE  Expects(M!Controlled(t, c)) \subseteq Expects(t) \cup {0}
<1>1. ASSUME NEW i \in DOMAIN t
      PROVE  /\ [t[i] EXCEPT !.len = c.val].exp \in Expects(t)
             /\ M!Answered(t[i], c).exp \in Expects(t)
  <2>1. t[i] \in M!Entry /\ t[i].exp \in Expects(t) BY EntryOf DEF Expects
  <2> QED BY <2>1 DEF M!Entry, M!Answered
<1>2. CASE c.op = "STATUS" /\ M!Known(t, c.station)
  <2> DEFINE i == M!FindNode(t, c.station)
             e == [t[i] EXCEPT !.len = c.val]
  <2>1. M!Controlled(t, c) = [t EXCEPT ![i] = e]
    BY <1>2 DEF M!Controlled, M!Registered
  <2>2. i \in DOMAIN t => e.exp \in Expects(t) \cup {} BY <1>1
  <2> HIDE DEF i, e
  <2> QED BY <2>1, <2>2, ExpectsReplaced
<1>3. CASE c.op = "STATUS" /\ ~M!Known(t, c.station)
  <2> DEFINE e == M!NewEntry(c.station, c.val)
  <2>1. e.exp = 0 BY DEF M!NewEntry
  <2>2. M!Controlled(t, c) = t \/ M!Controlled(t, c) = Append(t, e)
    BY <1>3 DEF M!Controlled, M!Registered
  <2> HIDE DEF e
  <2>3. Expects(Append(t, e)) \subseteq Expects(t) \cup {0} BY <2>1, ExpectsAppended
  <2> QED BY <2>2, <2>3
<1>4. CASE c.op # "STATUS"
  <2> DEFINE i == M!FindNode(t, c.station)
             e == M!Answered(t[i], c)
  <2>1. M!Controlled(t, c) = t \/ M!Controlled(t, c) = [t EXCEPT ![i] = e]
    BY <1>4 DEF M!Controlled
  <2>2. i \in DOMAIN t => e.exp \in Expects(t) \cup {} BY <1>1
  <2> HIDE DEF i, e
  <2>3. Expects([t EXCEPT ![i] = e]) \subseteq Expects(t) BY <2>2, ExpectsReplaced
  <2> QED BY <2>1, <2>3
<1> QED BY <1>2, <1>3, <1>4

LEMMA ExpectsIngested ==
  ASSUME NEW t \in Tables, NEW f
  PROVE  /\ M!IngestResult(t, f) # "OK" => M!Ingested(t, f) = t
         /\ Expects(M!Ingested(t, f)) \subseteq Expects(t) \cup {(f.index + 1) % IndexMod}
<1> DEFINE i == M!FindNode(t, f.station)
           e == M!HeardFrame(t[i], f)
           X == {(f.index + 1) % IndexMod}
<1>1. i \in DOMAIN t => e.exp \in Expects(t) \cup X
  <2> SUFFICES ASSUME i \in DOMAIN t PROVE e.exp \in Expects(t) \cup X OBVIOUS
  <2>1. t[i] \in M!Entry /\ t[i].exp \in Expects(t) BY EntryOf DEF Expects
  <2>2. e.exp = IF f.index >= t[i].exp THEN (f.index + 1) % IndexMod ELSE t[i].exp
    BY <2>1 DEF M!Entry, M!HeardFrame
  <2> QED BY <2>1, <2>2
<1>2. /\ M!IngestResult(t, f) # "OK" => M!Ingested(t, f) = t
      /\ M!Ingested(t, f) = t \/ M!Ingested(t, f) = [t EXCEPT ![i] = e]
  BY DEF M!Ingested
<1> HIDE DEF i, e, X
<1>3. Expects([t EXCEPT ![i] = e]) \subseteq Expects(t) \cup X BY <1>1, ExpectsReplaced
<1> QED BY <1>2, <1>3 DEF X

LEMMA ExpectsLost ==
  ASSUME NEW t \in Tables, NEW a
  PROVE  Expects(M!Lost(t, a)) \subseteq Expects(t)
<1> DEFINE i == M!FindNode(t, a)
           e == [t[i] EXCEPT !.synced = FALSE]
<1>1. i \in DOMAIN t => e.exp \in Expects(t) \cup {}
  <2> SUFFICES ASSUME i \in DOMAIN t PROVE e.exp \in Expects(t) OBVIOUS
  <2>1. t[i] \in M!Entry /\ t[i].exp \in Expects(t) BY EntryOf DEF Expects
  <2> QED BY <2>1 DEF M!Entry
<1>2. M!Lost(t, a) = t \/ M!Lost(t, a) = [t EXCEPT ![i] = e] BY DEF M!Lost
<1> HIDE DEF i, e
<1> QED BY <1>1, <1>2, ExpectsReplaced

LEMMA ExpectsSlotted ==
  ASSUME NEW t \in Tables, NEW i \in DOMAIN t
  PROVE  Expects(M!SlotTable(t, i)) \subseteq Expects(t)
<1> DEFINE e == [t[i] EXCEPT !.addr = i]
<1>1. e.exp \in Expects(t) \cup {}
  <2>1. t[i] \in M!Entry /\ t[i].exp \in Expects(t) BY EntryOf DEF Expects
  <2> QED BY <2>1 DEF M!Entry
<1>2. M!SlotTable(t, i) = [t EXCEPT ![i] = e] BY DEF M!SlotTable
<1> HIDE DEF e
<1> QED BY <1>1, <1>2, ExpectsReplaced

LEMMA ExpectsRebased == ASSUME NEW t \in Tables PROVE Expects(M!Rebased(t)) \subseteq {0}
<1> DEFINE u == M!Rebased(t)
<1>1. ASSUME NEW i \in DOMAIN t PROVE [t[i] EXCEPT !.exp = 0].exp = 0
  <2>1. t[i] \in M!Entry BY EntryOf
  <2> QED BY <2>1 DEF M!Entry
<1>2. DOMAIN u = DOMAIN t /\ \A i \in DOMAIN t : u[i] = [t[i] EXCEPT !.exp = 0]
  BY DEF M!Rebased
<1> HIDE DEF u
<1>3. \A i \in DOMAIN u : u[i].exp = 0 BY <1>1, <1>2
<1>4. Expects(u) \subseteq {0} BY <1>3 DEF Expects
<1> QED BY <1>4 DEF u

\* The TICK takes every expectation back, a stored sample moves one on, and
\* nothing else does.
LEMMA WorkingExpects ==
  ASSUME MasterTypeOK, M!Working
  PROVE  /\ mpc = "ticked" => Expects(nodes') \subseteq {0}
         /\ Stores => Expects(nodes') \subseteq Expects(nodes) \cup {(mrx.index + 1) % IndexMod}
         /\ ~Stores => Expects(nodes') \subseteq Expects(nodes) \cup {0}
<1>0. nodes \in Tables BY DEF MasterTypeOK
<1>1. CASE /\ mpc \notin {"ticked", "recv"}
           /\ Expects(nodes') \subseteq Expects(nodes) \cup {0}
  BY <1>1 DEF Stores
<1> USE DEF M!At
<1>2. CASE M!Discover \/ M!SendSync \/ M!Top
  BY <1>1, <1>2 DEF M!Discover, M!SendSync, M!Top, M!table
<1>3. CASE M!AwaitStatus \/ M!AwaitType
  <2>1. nodes' = nodes \/ nodes' = M!Controlled(nodes, mrx)
    BY <1>3 DEF M!AwaitStatus, M!AwaitType, M!OnCtrl, M!table
  <2>2. Expects(nodes') \subseteq Expects(nodes) \cup {0} BY <1>0, <2>1, ExpectsControlled
  <2> QED BY <1>1, <1>3, <2>2 DEF M!AwaitStatus, M!AwaitType
<1>4. CASE M!Discovered \/ M!Assigned \/ M!ClockStart \/ M!StartRun
  BY <1>1, <1>4 DEF M!Discovered, M!Assigned, M!ClockStart, M!StartRun, M!table
<1>5. CASE M!Assign
  <2>1. poll \in DOMAIN nodes BY <1>0, <1>5 DEF M!Assign, MasterTypeOK, Tables
  <2>2. Expects(nodes') \subseteq Expects(nodes)
    BY <1>0, <1>5, <2>1, ExpectsSlotted DEF M!Assign
  <2> QED BY <1>1, <1>5, <2>2 DEF M!Assign
<1>6. CASE M!Ticked
  <2>1. Expects(nodes') \subseteq {0} BY <1>0, <1>6, ExpectsRebased DEF M!Ticked, M!OnTick
  <2> QED BY <1>6, <2>1 DEF M!Ticked, Stores
<1>7. CASE M!RecvData
  <2>1. /\ mpc = "recv" /\ nodes' = M!Ingested(nodes, mrx)
        /\ mrx # None /\ mrx.kind = "data"
    BY <1>7 DEF M!RecvData, M!Received, M!Ingest
  <2> QED BY <1>0, <2>1, ExpectsIngested DEF Stores
<1>8. CASE M!RecvCtrl \/ M!RecvNothing
  <2>1. nodes' = nodes \/ nodes' = M!Controlled(nodes, mrx)
    BY <1>8 DEF M!RecvCtrl, M!RecvNothing, M!OnCtrl, M!table
  <2>2. mpc = "recv" /\ ~Stores
    BY <1>8 DEF M!RecvCtrl, M!RecvNothing, M!Received, Stores
  <2> QED BY <1>0, <2>1, <2>2, ExpectsControlled
<1>9. CASE M!SilentSlot
  <2>1. Expects(nodes') \subseteq Expects(nodes)
    BY <1>0, <1>9, ExpectsLost DEF M!SilentSlot, M!NodeLost, M!table
  <2> QED BY <1>1, <1>9, <2>1 DEF M!SilentSlot
<1> QED BY <1>2, <1>3, <1>4, <1>5, <1>6, <1>7, <1>8, <1>9 DEF M!Working

\* A step of the master's application.
LEMMA MasterStepsInv ==
  ASSUME StreamInv, NetTypeOK', MasterSteps
  PROVE  StreamInv'
<1> DEFINE S == Streamer
           second == NewSecond
<1>0. /\ NetTypeOK /\ Counted /\ Numbered /\ Carried /\ Recorded
      /\ TicksInTime /\ BelowNext /\ FromRecords
      /\ M!Working
  BY DEF StreamInv, MasterSteps, MasterRuns
<1>1. /\ UNCHANGED <<sIndex, sDataFrame, drdy, rx, tx>>
      /\ UNCHANGED <<epoch, taken, onWire, arrived>>
  BY DEF MasterSteps, MasterRuns, vars, app
<1>2. /\ rtc' = rtc
      /\ M!Running => M!Running'
      /\ mpc' = "ticked" => second /\ now' = rtc /\ lastSec' = lastSec
      /\ IsTick(mtx') => mpc' = "ticked"
      /\ second => mpc' = "ticked"
      /\ mpc' # "ticked" /\ M!Running' =>
           \/ lastSec' = rtc
           \/ M!Running /\ mpc # "ticked" /\ lastSec' = lastSec
      /\ mrx' \in {mrx, None}
  BY <1>0, WorkingTicks DEF TicksInTime, NewSecond
<1>3. /\ ticks' = IF second THEN ticks + 1 ELSE ticks
      /\ lastTick' = IF second THEN ticks + 1 ELSE lastTick
  BY DEF MasterSteps
<1>4. ticks \in Nat /\ lastTick \in 0..ticks /\ epoch \in 0..lastTick BY <1>0 DEF Counted
<1>5. /\ ticks' \in Nat /\ ticks' >= ticks
      /\ epoch' = ticks' => epoch = ticks /\ ~second /\ ticks' = ticks
      /\ epoch' = lastTick' => epoch = lastTick /\ ~second
      /\ lastTick' \in {lastTick, ticks'}
  BY <1>1, <1>3, <1>4
<1>6. second => M!Running /\ mpc # "ticked" BY DEF M!Running, NewSecond
<1> HIDE DEF second
<1>7. Counted' /\ Numbered' BY <1>1, <1>5, SamplesUntouched
<1>8. Carried' BY <1>0, <1>1, <1>2 DEF Carried, Under
<1>9. BelowNext' BY <1>0, <1>1, <1>5 DEF BelowNext
<1>10. TicksInTime'
  <2>1. epoch' = lastTick' => ~IsTick(rx'[S]) /\ ~IsTick(mtx')
    BY <1>0, <1>1, <1>2, <1>5 DEF TicksInTime
  <2>2. IsTick(rx'[S]) => ~IsTick(mtx')
    <3> SUFFICES ASSUME IsTick(rx[S]), IsTick(mtx') PROVE FALSE BY <1>1
    <3>1. second BY <1>2
    <3> QED BY <1>0, <1>6, <3>1 DEF TicksInTime, second, NewSecond
  <2>3. IsTick(rx'[S]) /\ M!Running' /\ mpc' # "ticked" => rtc' = lastSec'
    BY <1>0, <1>1, <1>2 DEF TicksInTime
  <2>4. mpc' = "ticked" => now' = rtc' /\ rtc' # lastSec' BY <1>2 DEF second, NewSecond
  <2> QED BY <1>2, <2>1, <2>2, <2>3, <2>4 DEF TicksInTime, IsTick, M!Running
<1>11. IsList(record) /\ IsList(taken) BY <1>0 DEF Recorded, Counted
<1>12. /\ Stores => record' = Append(record, [sample |-> arrived, index |-> mrx.index,
                                              tick |-> ticks, gap |-> Gap])
       /\ ~Stores => record' = record
  BY DEF MasterSteps
<1>13. Stores => Under(arrived, mrx.index)
  <2> SUFFICES ASSUME Stores PROVE Under(arrived, mrx.index) OBVIOUS
  <2>1. mrx.intact BY DEF Stores, M!IngestResult, M!DataDecode
  <2> QED BY <1>0, <2>1 DEF Carried, Stores
<1>14. /\ IsList(record') /\ \A i \in DOMAIN record : i \in DOMAIN record' /\ record'[i] = record[i]
       /\ ~Stores => record' = record
       /\ Stores => /\ Len(record) + 1 \in DOMAIN record'
                    /\ record'[Len(record) + 1].sample = arrived
                    /\ record'[Len(record) + 1].index = mrx.index
                    /\ record'[Len(record) + 1].tick = ticks
       /\ \A i \in DOMAIN record' : i \in DOMAIN record \/ (Stores /\ i = Len(record) + 1)
  <2>1. CASE Stores
    <3> DEFINE e == [sample |-> arrived, index |-> mrx.index, tick |-> ticks, gap |-> Gap]
    <3>1. e.sample = arrived /\ e.index = mrx.index /\ e.tick = ticks OBVIOUS
    <3>2. record' = Append(record, e) BY <1>12, <2>1
    <3> HIDE DEF e
    <3>3. /\ IsList(record') /\ DOMAIN record = 1..Len(record) /\ Len(record) \in Nat
          /\ DOMAIN record' = 1..(Len(record) + 1) /\ record'[Len(record) + 1] = e
          /\ \A i \in 1..Len(record) : record'[i] = record[i]
      BY <1>11, <3>2, Appended
    <3>4. \A i \in DOMAIN record' : i \in DOMAIN record \/ i = Len(record) + 1
      BY <3>3
    <3>5. Len(record) + 1 \in DOMAIN record' BY <3>3
    <3>6. \A i \in DOMAIN record : i \in DOMAIN record' /\ record'[i] = record[i]
      BY <3>3
    <3> QED BY <2>1, <3>1, <3>3, <3>4, <3>5, <3>6
  <2>2. CASE ~Stores BY <1>11, <1>12, <2>2
  <2> QED BY <2>1, <2>2
<1>15. Recorded'
  <2>1. ASSUME NEW i \in DOMAIN record'
        PROVE  record'[i].sample \in 1..arrived /\ Under(record'[i].sample, record'[i].index)
    <3>1. CASE i \in DOMAIN record BY <1>0, <1>14, <3>1 DEF Recorded
    <3>2. CASE Stores /\ i = Len(record) + 1
      <4>1. Under(arrived, mrx.index) BY <1>13, <3>2
      <4>2. arrived \in 1..Len(taken) /\ Len(taken) \in Nat BY <1>11, <4>1, ListIs DEF Under
      <4>3. arrived \in 1..arrived BY <4>2
      <4> QED BY <1>14, <3>2, <4>1, <4>3
    <3> QED BY <1>14, <3>1, <3>2
  <2> QED BY <1>1, <1>14, <2>1 DEF Recorded, Under
<1>16. FromRecords'
  <2>1. /\ mpc = "ticked" => Expects(nodes') \subseteq {0}
        /\ Stores => Expects(nodes') \subseteq Expects(nodes) \cup {(mrx.index + 1) % IndexMod}
        /\ ~Stores => Expects(nodes') \subseteq Expects(nodes) \cup {0}
    BY <1>0, WorkingExpects DEF NetTypeOK
  <2>2. /\ M!Running /\ mpc # "ticked" => Expects(nodes) \subseteq {0} \cup After(ticks)
        /\ ~M!Running => Expects(nodes) \subseteq {0} /\ ~Stores
    BY <1>0 DEF FromRecords, Expected, Expects, Stores, M!Running
  <2>3. After(ticks) \subseteq After(ticks)'
        \/ second
    <3> SUFFICES ASSUME ~second, NEW i \in DOMAIN record, record[i].tick = ticks
                 PROVE  (record[i].index + 1) % IndexMod \in After(ticks)'
      BY DEF After, Of
    <3>1. ticks' = ticks BY <1>3
    <3>2. i \in DOMAIN record' /\ record'[i] = record[i] BY <1>14
    <3> QED BY <3>1, <3>2 DEF After, Of
  <2>4. Stores => (mrx.index + 1) % IndexMod \in After(ticks)'
    <3> SUFFICES ASSUME Stores PROVE (mrx.index + 1) % IndexMod \in After(ticks)' OBVIOUS
    <3>1. ticks' = ticks BY <1>3 DEF Stores, second, NewSecond
    <3> DEFINE j == Len(record) + 1
    <3>2. j \in DOMAIN record' /\ record'[j].index = mrx.index /\ record'[j].tick = ticks
      BY <1>14
    <3> HIDE DEF j
    <3> QED BY <3>1, <3>2 DEF After, Of
  <2>5. M!Running' /\ mpc' # "ticked" => Expects(nodes') \subseteq {0} \cup After(ticks)'
    <3> SUFFICES ASSUME mpc' # "ticked"
                 PROVE  Expects(nodes') \subseteq {0} \cup After(ticks)'
      OBVIOUS
    <3>1. ~second BY <1>2
    <3>2. CASE ~M!Running BY <2>1, <2>2, <3>2
    <3>3. CASE mpc = "ticked" BY <2>1, <3>3
    <3>4. CASE M!Running /\ mpc # "ticked" BY <2>1, <2>2, <2>3, <2>4, <3>1, <3>4
    <3> QED BY <3>2, <3>3, <3>4
  <2>6. ~M!Running' => Expects(nodes') \subseteq {0} BY <1>2, <2>1, <2>2
  <2> QED BY <2>5, <2>6 DEF FromRecords, Expected, Expects, After, Of, M!Running
<1> QED BY <1>7, <1>8, <1>9, <1>10, <1>15, <1>16 DEF StreamInv
----------------------------------------------------------------------------
(* The invariant holds.                                                     *)

\* The history is only watched: the stream is a segment.
LEMMA StreamIsSegment ==
  /\ StreamInit => NetInit
  /\ [StreamNext]_svars => [NetNext]_netvars
<1>1. StreamInit => NetInit BY DEF StreamInit
<1>2. ASSUME StreamNext PROVE NetNext
  BY <1>2, TheStreamer
  DEF StreamNext, NetNext, NodeSteps, NodeSends, SensorReady, Second, MasterSteps, Restart
<1>3. UNCHANGED svars => UNCHANGED netvars BY DEF svars
<1> QED BY <1>1, <1>2, <1>3

LEMMA StreamInitInv == StreamInit => StreamInv
<1> SUFFICES ASSUME StreamInit PROVE StreamInv OBVIOUS
<1>1. NetTypeOK BY StreamIsSegment, NetInitType
<1>2. /\ taken = <<>> /\ record = <<>> /\ ticks = 0 /\ lastTick = 0 /\ epoch = 0
      /\ onWire = 0 /\ arrived = 0
      /\ mpc = "discover" /\ mtx = None /\ mrx = None /\ nodes = <<>>
  BY DEF StreamInit, NetInit, M!Init, M!TableInit
<1>3. /\ sIndex[Streamer] = 0 /\ sDataFrame[Streamer] = None /\ ~drdy[Streamer]
      /\ rx[Streamer] = None /\ tx[Streamer] = <<>>
  BY TheStreamer DEF StreamInit, NetInit, Init
<1>4. IsList(<<>>) BY DEF IsList
<1>5. IndexMod \in Nat \ {0, 1} BY NodeAssumption
<1> QED
  BY <1>1, <1>2, <1>3, <1>4, <1>5
  DEF StreamInv, Counted, Numbered, Carried, Recorded, TicksInTime, BelowNext, FromRecords,
      Expected, IsTick, M!Running

LEMMA StreamStepInv == StreamInv /\ [StreamNext]_svars => StreamInv'
<1> SUFFICES ASSUME StreamInv, [StreamNext]_svars PROVE StreamInv' OBVIOUS
<1>1. NetTypeOK' BY StreamIsSegment, NetStepType DEF StreamInv
<1>2. CASE UNCHANGED svars
  <2>1. /\ UNCHANGED <<sIndex, sDataFrame, drdy, rx, tx, mpc, mtx, mrx, rtc, now, lastSec, nodes>>
        /\ UNCHANGED <<ticks, lastTick, epoch, taken, onWire, arrived, record>>
    BY <1>2 DEF svars, netvars, history, master, vars, app
  <2>2. Counted' /\ Numbered' BY <2>1 DEF StreamInv, Counted, Numbered, Under
  <2>3. Carried' /\ Recorded' BY <2>1 DEF StreamInv, Carried, Recorded, Under
  <2>4. TicksInTime' BY <2>1 DEF StreamInv, TicksInTime, IsTick, M!Running
  <2>5. BelowNext' /\ FromRecords'
    BY <2>1 DEF StreamInv, BelowNext, FromRecords, Expected, After, Of, M!Running
  <2> QED BY <1>1, <2>2, <2>3, <2>4, <2>5 DEF StreamInv
<1> QED
  BY <1>1, <1>2, NodeStepsInv, NodeSendsInv, WorldInv, MasterTransmitsInv, RestartInv,
     MasterStepsInv
  DEF StreamNext

LEMMA StreamInvariant == StreamSpec => []StreamInv
BY StreamInitInv, StreamStepInv, PTL DEF StreamSpec

(* In a second that node and master agree on, the master never expects an   *)
(* index the node has not reached, however many frames were lost, damaged,  *)
(* resent or sent twice, and whenever the master restarted.                 *)
THEOREM StreamNotAhead == StreamSpec => []NeverAheadOfNode
<1>1. StreamInv => NeverAheadOfNode
  <2> SUFFICES ASSUME StreamInv, epoch = ticks, M!Running, mpc # "ticked", InStepWith(ticks),
                      NEW i \in DOMAIN nodes
               PROVE  nodes[i].exp <= sIndex[Streamer]
    BY DEF NeverAheadOfNode
  <2>1. sIndex[Streamer] \in 0..(IndexMod - 1) /\ IndexMod \in Nat \ {0, 1}
    BY TheStreamer, NodeAssumption DEF StreamInv, NetTypeOK, TypeOK
  <2>2. nodes[i].exp \in {0} \cup After(ticks) BY DEF StreamInv, FromRecords, Expected
  <2>3. CASE nodes[i].exp \in After(ticks)
    <3>1. PICK r \in Of(ticks) : nodes[i].exp = (record[r].index + 1) % IndexMod
      BY <2>3 DEF After
    <3>2. /\ Under(record[r].sample, record[r].index)
          /\ taken[record[r].sample].tick = ticks
      BY <3>1 DEF StreamInv, Recorded, Of, InStepWith, SameSecond
    <3>3. record[r].index < sIndex[Streamer] /\ record[r].index \in 0..(IndexMod - 1)
      BY <3>2 DEF StreamInv, BelowNext, Counted, Under
    <3>4. record[r].index + 1 \in Nat /\ record[r].index + 1 < IndexMod BY <2>1, <3>3
    <3>5. (record[r].index + 1) % IndexMod = record[r].index + 1 BY <2>1, <3>4, SmallMod
    <3> QED BY <2>1, <3>1, <3>3, <3>5
  <2> QED BY <2>1, <2>2, <2>3
<1> QED BY <1>1, StreamInvariant, PTL
----------------------------------------------------------------------------
(* The refinement of SampleLog.                                             *)

Produced == [i \in DOMAIN taken |-> taken[i].index]
Logged   == [i \in DOMAIN record |-> [sample |-> record[i].sample, index |-> record[i].index]]

\* A list of fields is as long as the list.
LEMMA FieldsOf ==
  ASSUME NEW n \in Nat, NEW f, DOMAIN f = 1..n, f = [i \in 1..n |-> f[i]]
  PROVE  /\ Len(f) = n
         /\ f = <<>> <=> n = 0
<1> DEFINE T == {f[i] : i \in 1..n}
<1>1. f \in [1..n -> T] OBVIOUS
<1>2. f \in Seq(T) BY <1>1, SeqDef
<1> HIDE DEF T
<1>3. Len(f) = n BY <1>1, <1>2
<1> QED BY <1>2, <1>3

\* A pass of the node's loop takes a sample, or none.
LEMMA NodeStepsLog ==
  ASSUME StreamInv, NodeSteps
  PROVE  [Log!Take]_<<Produced, Logged>>
<1> DEFINE S == Streamer
           x == sIndex[S]
           e == [tick |-> epoch, index |-> x]
<1>0. IsList(taken) /\ Numbered BY DEF StreamInv, Counted
<1>1. record' = record BY DEF NodeSteps
<1>2. Logged' = Logged BY <1>1 DEF Logged
<1>3. CASE Sampled
  <2>1. taken' = Append(taken, e) /\ e.index = x BY <1>3 DEF NodeSteps
  <2> HIDE DEF e, x
  <2>2. /\ Len(taken) \in Nat /\ DOMAIN taken = 1..Len(taken)
        /\ DOMAIN taken' = 1..(Len(taken) + 1) /\ taken'[Len(taken) + 1] = e
        /\ \A i \in 1..Len(taken) : taken'[i] = taken[i]
    BY <1>0, <2>1, Appended
  <2>3. /\ DOMAIN Produced = 1..Len(taken)
        /\ Produced = [i \in 1..Len(taken) |-> Produced[i]]
        /\ DOMAIN Produced' = 1..(Len(taken) + 1)
        /\ Produced' = [i \in 1..(Len(taken) + 1) |-> Produced'[i]]
        /\ \A i \in 1..Len(taken) : Produced'[i] = Produced[i]
        /\ Produced'[Len(taken) + 1] = x
    BY <2>1, <2>2 DEF Produced
  <2>4. Produced' = Append(Produced, x) BY <2>2, <2>3, Seen
  <2>5. Len(Produced) = Len(taken) /\ (Produced = <<>> <=> Len(taken) = 0)
    BY <2>2, <2>3, FieldsOf
  <2>6. x \in {0, Log!NextIndex}
    <3>1. CASE taken = <<>> BY <1>0, <3>1 DEF Numbered, x
    <3>2. CASE taken # <<>>
      <4>1. Len(taken) # 0 BY <1>0, <3>2, ListIs
      <4>2. Produced[Len(taken)] = taken[Len(taken)].index BY <2>2, <4>1 DEF Produced
      <4>3. x \in {0, (taken[Len(taken)].index + 1) % IndexMod}
        BY <1>0, <3>2 DEF Numbered, x
      <4> QED BY <2>5, <4>1, <4>2, <4>3 DEF Log!NextIndex, Produced
    <3> QED BY <3>1, <3>2
  <2> QED BY <1>2, <2>4, <2>6 DEF Log!Take, Produced, Logged
<1>4. CASE ~Sampled
  <2>1. taken' = taken BY <1>4 DEF NodeSteps
  <2> QED BY <1>2, <2>1 DEF Produced
<1> QED BY <1>3, <1>4

\* A step of the master stores a sample, or none.
LEMMA MasterStepsLog ==
  ASSUME StreamInv, MasterSteps
  PROVE  [Log!Store]_<<Produced, Logged>>
<1>0. /\ IsList(record) /\ IsList(taken) /\ Carried /\ Recorded
  BY DEF StreamInv, Counted, Recorded
<1>1. Produced' = Produced BY DEF MasterSteps, Produced
<1>2. CASE ~Stores
  <2>1. record' = record BY <1>2 DEF MasterSteps
  <2> QED BY <1>1, <2>1 DEF Logged
<1>3. CASE Stores
  <2> DEFINE x == [sample |-> arrived, index |-> mrx.index]
             e == [sample |-> arrived, index |-> mrx.index, tick |-> ticks, gap |-> Gap]
  <2>1. record' = Append(record, e) /\ e.sample = arrived /\ e.index = mrx.index
    BY <1>3 DEF MasterSteps
  <2> HIDE DEF e
  <2>2. /\ Len(record) \in Nat /\ DOMAIN record = 1..Len(record)
        /\ DOMAIN record' = 1..(Len(record) + 1) /\ record'[Len(record) + 1] = e
        /\ \A i \in 1..Len(record) : record'[i] = record[i]
    BY <1>0, <2>1, Appended
  <2>3. /\ DOMAIN Logged = 1..Len(record)
        /\ Logged = [i \in 1..Len(record) |-> Logged[i]]
        /\ DOMAIN Logged' = 1..(Len(record) + 1)
        /\ Logged' = [i \in 1..(Len(record) + 1) |-> Logged'[i]]
        /\ \A i \in 1..Len(record) : Logged'[i] = Logged[i]
        /\ Logged'[Len(record) + 1] = x
    BY <2>1, <2>2 DEF Logged
  <2>4. Logged' = Append(Logged, x) BY <2>2, <2>3, Seen
  <2>5. Len(Logged) = Len(record) /\ (Logged = <<>> <=> Len(record) = 0)
    BY <2>2, <2>3, FieldsOf
  <2>6. Under(arrived, mrx.index)
    <3>1. mrx.intact BY <1>3 DEF Stores, M!IngestResult, M!DataDecode
    <3> QED BY <1>0, <1>3, <3>1 DEF Carried, Stores
  <2>7. /\ Len(taken) \in Nat /\ DOMAIN taken = 1..Len(taken)
        /\ arrived \in 1..Len(taken) /\ Produced[arrived] = mrx.index
    BY <1>0, <2>6, ListIs DEF Under, Produced
  <2>8. Len(Produced) = Len(taken)
    <3>1. DOMAIN Produced = 1..Len(taken) /\ Produced = [i \in 1..Len(taken) |-> Produced[i]]
      BY <2>7 DEF Produced
    <3> QED BY <2>7, <3>1, FieldsOf
  <2>9. Log!Newest \in Nat /\ Log!Newest <= arrived
    <3>1. CASE Len(record) = 0 BY <2>5, <2>7, <3>1 DEF Log!Newest, Logged
    <3>2. CASE Len(record) # 0
      <4>1. Logged[Len(record)].sample = record[Len(record)].sample
            /\ Len(record) \in DOMAIN record
        BY <2>2, <3>2 DEF Logged
      <4>2. record[Len(record)].sample \in 1..arrived BY <1>0, <4>1 DEF Recorded
      <4>3. Log!Newest = record[Len(record)].sample
        BY <2>5, <3>2, <4>1 DEF Log!Newest, Logged
      <4> QED BY <2>7, <4>2, <4>3
    <3> QED BY <3>1, <3>2
  <2>10. arrived \in Log!Newest..Len(Produced) BY <2>7, <2>8, <2>9
  <2>11. Logged' = Append(Logged, [sample |-> arrived, index |-> Produced[arrived]])
    BY <2>4, <2>7
  <2> QED BY <1>1, <2>10, <2>11 DEF Log!Store, Produced, Logged
<1> QED BY <1>2, <1>3

LEMMA StreamInitLog == StreamInit => Log!Init
<1> SUFFICES ASSUME StreamInit PROVE Log!Init OBVIOUS
<1>1. taken = <<>> /\ record = <<>> BY DEF StreamInit
<1> QED BY <1>1 DEF Log!Init

LEMMA StreamStepLog ==
  StreamInv /\ [StreamNext]_svars => [Log!Take \/ Log!Store]_<<Produced, Logged>>
<1> SUFFICES ASSUME StreamInv, [StreamNext]_svars
             PROVE  [Log!Take \/ Log!Store]_<<Produced, Logged>>
  OBVIOUS
<1>1. CASE NodeSteps BY <1>1, NodeStepsLog
<1>2. CASE MasterSteps BY <1>2, MasterStepsLog
<1>3. CASE UNCHANGED <<taken, record>> BY <1>3 DEF Produced, Logged
<1> QED
  BY <1>1, <1>2, <1>3
  DEF StreamNext, NodeSends, SensorReady, Second, Restart, history, svars

(* What the archive gets is a sample of the node under the index it was     *)
(* taken at, in the order of taking, whatever the bus loses, damages or     *)
(* repeats and whenever the master restarts.                                *)
THEOREM StreamStoredAsTaken == StreamSpec => StoredAsTaken
BY StreamInitLog, StreamStepLog, StreamInvariant, PTL
DEF StreamSpec, StoredAsTaken, Log!Spec, Produced, Logged
----------------------------------------------------------------------------
(* What a pass of the loop does to a node's address and to its part in the  *)
(* network.                                                                 *)

IsOp(f, op) == f # None /\ f.kind = "ctrl" /\ f.op = op

\* The node streams, or is on its way to.
Live(n) == st[n] = "SYNCED" \/ pc[n] \in SwitchPoint \cup SyncedPoint

HoldsData(s) == \E i \in DOMAIN s : s[i].kind = "data"

Moves(n) ==
  /\ st[n] # "BOOT" /\ ~IsOp(rx[n], "HARD_RESET") => st'[n] # "BOOT"
  /\ Live(n)' => Live(n) \/ IsOp(rx[n], "SYNC")
  /\ HoldsData(tx'[n]) => Live(n) \/ IsOp(rx[n], "RESEND_DATA")
  /\ sAddr'[n] # sAddr[n] => st[n] = "BOOT" \/ IsOp(rx[n], "ASSIGN_ADDR")
  /\ TakesSample(n) => Live(n) /\ sDataFrame'[n].station = sAddr[n]

LEMMA EndMoves ==
  ASSUME TypeOK, NEW n \in Node, NEW ev, EndIteration(n, ev)
  PROVE  /\ st[n] # "BOOT" /\ ev # "RESET_CMD" => st'[n] # "BOOT"
         /\ Live(n)' => Live(n) \/ ev = "SYNC_CMD" \/ ev = "HSE_OK"
<1>0. st[n] \in State /\ st \in [Node -> State] /\ pc \in [Node -> Point] BY DEF TypeOK
<1>1. CASE ev = "NO_EVENT"
  <2>1. st' = st /\ pc'[n] = "top" BY <1>0, <1>1 DEF EndIteration
  <2> QED BY <1>1, <2>1 DEF Live, SwitchPoint, SyncedPoint
<1>2. CASE ev # "NO_EVENT"
  <2>1. /\ st'[n] = NicNodeStep(st[n], ev).state
        /\ pc'[n] = Perform(NicNodeStep(st[n], ev).action)
    BY <1>0, <1>2 DEF EndIteration
  <2>2. /\ NicNodeStep(st[n], ev).state = "BOOT" => st[n] = "BOOT" \/ ev = "RESET_CMD"
        /\ NicNodeStep(st[n], ev).state = "SYNCED" => st[n] = "SYNCED" \/ ev = "HSE_OK"
        /\ NicNodeStep(st[n], ev).action = "SWITCH_HSE" => ev = "SYNC_CMD"
        /\ NicNodeStep(st[n], ev).action = "CALIBRATE" => st[n] = "SYNCED"
    BY <1>0 DEF NicNodeStep, Step, State
  <2>3. Perform(NicNodeStep(st[n], ev).action) \in SwitchPoint \cup SyncedPoint =>
          NicNodeStep(st[n], ev).action \in {"SWITCH_HSE", "CALIBRATE"}
    BY DEF Perform, SwitchPoint, SyncedPoint
  <2> QED BY <2>1, <2>2, <2>3 DEF Live
<1> QED BY <1>1, <1>2

LEMMA NoDataIn ==
  /\ ~HoldsData(<<>>)
  /\ \A a \in Addr, r \in Reply \cup {None} :
       SendReply(a, r) \in Seq(Frames) /\ ~HoldsData(SendReply(a, r))
<1>1. ASSUME NEW a \in Addr, NEW r \in Reply \cup {None}
      PROVE  SendReply(a, r) \in Seq(Frames) /\ ~HoldsData(SendReply(a, r))
  <2>1. CASE r = None BY <2>1 DEF SendReply, HoldsData
  <2>2. CASE r # None
    <3> DEFINE f == CtrlFrame(a, r.op, r.val)
    <3>1. f \in Frames BY <2>2 DEF Frames, ReplyFrames
    <3>2. f.kind # "data" BY DEF CtrlFrame
    <3>3. SendReply(a, r) = <<f>> BY <2>2 DEF SendReply
    <3> HIDE DEF f
    <3> QED BY <3>1, <3>2, <3>3 DEF HoldsData
  <2> QED BY <2>1, <2>2
<1> QED BY <1>1 DEF HoldsData

LEMMA NoDataBoth ==
  ASSUME NEW r \in Seq(Frames), NEW s \in Seq(Frames), ~HoldsData(r), ~HoldsData(s)
  PROVE  ~HoldsData(r \o s)
<1> SUFFICES ASSUME NEW i \in DOMAIN (r \o s) PROVE (r \o s)[i].kind # "data"
  BY DEF HoldsData
<1>1. CASE i \in 1..Len(r)
  <2>1. (r \o s)[i] = r[i] /\ i \in DOMAIN r BY <1>1
  <2> QED BY <2>1 DEF HoldsData
<1>2. CASE i \notin 1..Len(r)
  <2>1. (r \o s)[i] = s[i - Len(r)] /\ i - Len(r) \in DOMAIN s BY <1>2
  <2> QED BY <2>1 DEF HoldsData
<1> QED BY <1>1, <1>2

LEMMA HandledMoves ==
  ASSUME TypeOK, NEW n \in Node, NEW a \in Addr, NEW i, NEW r \in Reply \cup {None},
         NEW out \in Seq(Frames), NEW ev, Handled(n, a, i, r, out, ev),
         HoldsData(out) => Live(n) \/ IsOp(rx[n], "RESEND_DATA"),
         a # sAddr[n] => IsOp(rx[n], "ASSIGN_ADDR"),
         ev \in {"NO_EVENT", "SYNC_CMD", "CALIBRATE_CMD", "RESET_CMD"},
         ev = "SYNC_CMD" => IsOp(rx[n], "SYNC"),
         ev = "RESET_CMD" => IsOp(rx[n], "HARD_RESET")
  PROVE  Moves(n)
<1>0. /\ tx \in [Node -> Seq(Frames)] /\ sAddr \in [Node -> Addr]
  BY DEF TypeOK, Frames
<1>1. ~TakesSample(n) BY DEF Handled, AtReceive, TakesSample, At
<1>2. sAddr'[n] = a BY <1>0 DEF Handled
<1>3. HoldsData(tx'[n]) => HoldsData(out)
  <2>1. tx'[n] = out \/ tx'[n] = out \o SendReply(a, r) BY <1>0 DEF Handled
  <2>2. ~HoldsData(out) => ~HoldsData(out \o SendReply(a, r)) BY NoDataIn, NoDataBoth
  <2> QED BY <2>1, <2>2
<1>4. EndIteration(n, ev) BY DEF Handled
<1>5. /\ st[n] # "BOOT" /\ ev # "RESET_CMD" => st'[n] # "BOOT"
      /\ Live(n)' => Live(n) \/ ev = "SYNC_CMD"
  BY <1>4, EndMoves
<1> QED BY <1>1, <1>2, <1>3, <1>5 DEF Moves

LEMMA ReceiveMoves ==
  ASSUME TypeOK, NEW n \in Node, Receive(n)
  PROVE  Moves(n)
<1>0. /\ sAddr[n] \in Addr /\ sReply[n] \in Reply \cup {None} /\ rx[n] \in Heard \cup {None}
      /\ <<>> \in Seq(Frames) /\ ~HoldsData(<<>>)
  BY NoDataIn DEF TypeOK
<1>1. ASSUME NEW i, NEW r \in Reply \cup {None}, NEW ev, Handled(n, sAddr[n], i, r, <<>>, ev),
             ev \in {"NO_EVENT", "SYNC_CMD", "CALIBRATE_CMD", "RESET_CMD"},
             ev = "SYNC_CMD" => IsOp(rx[n], "SYNC"),
             ev = "RESET_CMD" => IsOp(rx[n], "HARD_RESET")
      PROVE  Moves(n)
  BY <1>0, <1>1, HandledMoves
<1>2. ASSUME NEW out \in Seq(Frames), NEW r \in Reply \cup {None},
             Handled(n, sAddr[n], sIndex[n], r, out, "NO_EVENT"),
             HoldsData(out) => Live(n) \/ IsOp(rx[n], "RESEND_DATA")
      PROVE  Moves(n)
  BY <1>0, <1>2, HandledMoves
<1>3. CASE OnDiscover(n)
  <2>1. [op |-> "STATUS", val |-> PayloadLen(sMap[n])] \in Reply BY DEF Reply, TypeOK
  <2> QED BY <1>0, <1>1, <1>3, <2>1 DEF OnDiscover, Answers
<1>4. CASE OnQuery(n)
  <2>1. PICK op \in QueryOp : Answers(n, op, 0) BY <1>4 DEF OnQuery
  <2>2. [op |-> op, val |-> 0] \in Reply BY DEF Reply
  <2> QED BY <1>0, <1>1, <2>1, <2>2 DEF Answers
<1>5. CASE OnCfg(n)
  <2>1. PICK op \in CfgOp : Answers(n, "ACK", op) BY <1>5 DEF OnCfg
  <2>2. [op |-> "ACK", val |-> op] \in Reply BY DEF Reply
  <2> QED BY <1>0, <1>1, <2>1, <2>2 DEF Answers
<1>6. CASE OnAssign(n)
  <2> DEFINE r == [op |-> "ACK", val |-> "ASSIGN_ADDR"]
             a == rx[n].val
  <2>1. r \in Reply BY DEF Reply
  <2>2. a \in Addr
    <3>1. rx[n] \in Heard /\ rx[n].op = "ASSIGN_ADDR" /\ rx[n].kind = "ctrl"
      BY <1>0, <1>6 DEF OnAssign, Command, IsCtrl
    <3>2. PICK op \in Op :
            \E b \in Addr \cup {Broadcast}, v \in Val(op) : rx[n] = CtrlFrame(b, op, v)
      BY <3>1 DEF Heard, Undecodable
    <3>3. op = "ASSIGN_ADDR" /\ Val(op) = Slot BY <3>1, <3>2 DEF Val, CtrlFrame
    <3>4. rx[n].val \in Slot BY <3>2, <3>3 DEF CtrlFrame
    <3> QED BY <3>4, NodeAssumption
  <2>3. IsOp(rx[n], "ASSIGN_ADDR") BY <1>6 DEF OnAssign, Command, IsCtrl, IsOp
  <2>4. Handled(n, a, sIndex[n], r, <<>>, "NO_EVENT") BY <1>6 DEF OnAssign
  <2> HIDE DEF a, r
  <2> QED BY <1>0, <2>1, <2>2, <2>3, <2>4, HandledMoves
<1>7. CASE OnCalibrate(n) \/ OnSync(n) \/ OnHardReset(n) \/ OnOther(n)
  <2>1. /\ OnSync(n) => IsOp(rx[n], "SYNC")
        /\ OnHardReset(n) => IsOp(rx[n], "HARD_RESET")
    BY DEF OnSync, OnHardReset, Command, IsCtrl, IsOp
  <2>2. CASE OnSync(n) BY <1>0, <1>1, <2>1, <2>2 DEF OnSync, Raises
  <2>3. CASE OnHardReset(n) BY <1>0, <1>1, <2>1, <2>3 DEF OnHardReset, Raises
  <2>4. CASE OnCalibrate(n) BY <1>0, <1>1, <2>4 DEF OnCalibrate, Raises
  <2>5. CASE OnOther(n) BY <1>0, <1>1, <2>5 DEF OnOther, Raises
  <2> QED BY <1>7, <2>2, <2>3, <2>4, <2>5
<1>8. CASE OnTick(n) BY <1>0, <1>1, <1>8 DEF OnTick
<1>9. CASE OnResend(n)
  <2>1. IsOp(rx[n], "RESEND_DATA") BY <1>9 DEF OnResend, Command, IsCtrl, IsOp
  <2> QED BY <1>0, <1>2, <1>9, <2>1, BufferedData DEF OnResend
<1>10. CASE OnToken(n)
  <2> DEFINE err == CtrlFrame(sAddr[n], "ERROR", "CLOCK_LOST")
             out == IF st[n] = "SYNCED" THEN SlotFrames(n) ELSE <<err>>
  <2>1. <<err>> \in Seq(Frames) /\ ~HoldsData(<<err>>)
    <3> DEFINE r == [op |-> "ERROR", val |-> "CLOCK_LOST"]
    <3>1. r \in Reply BY DEF Reply
    <3>2. SendReply(sAddr[n], r) = <<err>> BY <3>1, NoneAssumption DEF SendReply
    <3> HIDE DEF r
    <3> QED BY <1>0, <3>1, <3>2, NoDataIn
  <2>2. out \in Seq(Frames) /\ (HoldsData(out) => Live(n)) BY <2>1, BufferedSlot DEF Live
  <2>3. Handled(n, sAddr[n], sIndex[n], None, out, "NO_EVENT") BY <1>10 DEF OnToken
  <2> HIDE DEF out
  <2> QED BY <1>2, <2>2, <2>3
<1>11. CASE NoCtrl(n)
  <2>1. /\ UNCHANGED <<st, sAddr, tx>> /\ pc' = [pc EXCEPT ![n] = "top"] /\ tx[n] = <<>>
        /\ ~TakesSample(n)
    BY <1>11 DEF NoCtrl, app, AtReceive, At, TakesSample
  <2>2. pc'[n] = "top" BY <2>1 DEF TypeOK
  <2> QED BY <1>0, <2>1, <2>2 DEF Moves, Live, SwitchPoint, SyncedPoint
<1> QED BY <1>3, <1>4, <1>5, <1>6, <1>7, <1>8, <1>9, <1>10, <1>11 DEF Receive

LEMMA LoopMoves ==
  ASSUME TypeOK, NEW n \in Node, Loop(n), tx[n] = <<>>
  PROVE  Moves(n)
<1>0. /\ tx \in [Node -> Seq(Frames)] /\ pc \in [Node -> Point] /\ st \in [Node -> State]
      /\ sDataFrame \in [Node -> DataFrames \cup {None}] /\ sAddr \in [Node -> Addr]
      /\ ~HoldsData(<<>>)
  BY NoDataIn DEF TypeOK, Frames
<1>1. CASE SampleToBuffer(n)
  <2>1. UNCHANGED <<st, sAddr, tx>> /\ Live(n)
        /\ sDataFrame'[n] = DataFrame(sAddr[n], sIndex[n], PayloadLen(sMap[n]))
    BY <1>0, <1>1 DEF SampleToBuffer, Live, At, SyncedPoint
  <2>2. sDataFrame'[n].station = sAddr[n] BY <2>1 DEF DataFrame
  <2> QED BY <1>0, <2>1, <2>2 DEF Moves
<1>2. CASE SendSlot(n) \/ SlotNotDue(n) \/ NoSample(n)
  <2>1. UNCHANGED <<st, sAddr>> /\ Live(n) /\ ~TakesSample(n)
    BY <1>2 DEF SendSlot, SlotNotDue, NoSample, Live, At, SyncedPoint, TakesSample, app
  <2> QED BY <2>1 DEF Moves
<1>3. CASE Receive(n) BY <1>3, ReceiveMoves
<1>4. CASE Boot(n)
  <2>1. st[n] = "BOOT" /\ EndIteration(n, "BOOT_DONE") /\ UNCHANGED tx /\ ~TakesSample(n)
    BY <1>4 DEF Boot, At, TakesSample
  <2> QED BY <1>0, <2>1, EndMoves DEF Moves
<1>5. ASSUME NEW ev, EndIteration(n, ev), ev \notin {"RESET_CMD", "SYNC_CMD", "HSE_OK"},
             ~TakesSample(n), UNCHANGED <<sAddr, tx>>
      PROVE  Moves(n)
  BY <1>0, <1>5, EndMoves DEF Moves
<1>6. CASE Detect(n) \/ InitSensors(n) \/ LeaveFault(n) \/ TakeClockLost(n)
  BY <1>5, <1>6 DEF Detect, InitSensors, LeaveFault, TakeClockLost, TakesSample, At, app
<1>7. CASE ClockStillThere(n)
  <2>1. UNCHANGED <<st, sAddr, tx>> /\ Live(n) /\ ~TakesSample(n)
    BY <1>7 DEF ClockStillThere, Live, At, TakesSample, app
  <2> QED BY <1>0, <2>1 DEF Moves
<1>8. CASE Calibrate(n)
  <2>1. UNCHANGED <<st, sAddr, tx>> /\ Live(n) /\ ~TakesSample(n)
    BY <1>8 DEF Calibrate, Live, At, TakesSample, SyncedPoint
  <2> QED BY <1>0, <2>1 DEF Moves
<1>9. CASE PllLocked(n)
  <2>1. /\ UNCHANGED <<sAddr, tx>> /\ Live(n) /\ ~TakesSample(n)
        /\ st' = [st EXCEPT ![n] = NicNodeStep(st[n], "HSE_OK").state]
    BY <1>9 DEF PllLocked, Live, At, TakesSample, SwitchPoint, app
  <2>2. NicNodeStep(st[n], "HSE_OK").state = "BOOT" => st[n] = "BOOT"
    BY DEF NicNodeStep, Step
  <2> QED BY <1>0, <2>1, <2>2 DEF Moves
<1>10. CASE SwitchToHse(n) /\ ~PllLocked(n)
  <2>1. UNCHANGED <<st, sAddr, tx>> /\ Live(n) /\ ~TakesSample(n)
    BY <1>10 DEF SwitchToHse, Uart2DisableIrq, Uart2Deinit, RemapRxToHse, SelectHse, PllTimeout,
                Poke, Live, At, TakesSample, SwitchPoint, app
  <2> QED BY <1>0, <2>1 DEF Moves
<1>11. CASE Recover(n)
  <2>1. UNCHANGED <<st, sAddr, tx>> /\ ~TakesSample(n) /\ pc'[n] \in RecoverPoint \cup {"top"}
    BY <1>0, <1>11 DEF Recover, RemapHseToRx, Uart2Reinit, SelectRc, Poke, At, TakesSample,
                       RecoverPoint, app
  <2> QED BY <1>0, <2>1 DEF Moves, Live, SwitchPoint, SyncedPoint, RecoverPoint
<1>12. ~Transmitted(n) BY DEF Transmitted
<1> QED
  BY <1>1, <1>2, <1>3, <1>4, <1>6, <1>7, <1>8, <1>9, <1>10, <1>11, <1>12 DEF Loop
----------------------------------------------------------------------------
(* What the gaps rest on, first part: the samples of the running second,    *)
(* and a network that stays as it is while it streams.                      *)

\* What was taken before the running second.
Base == Len(taken) - sIndex[Streamer]

\* The samples of the running second are the last ones, one after the other.
Consecutive ==
  epoch = ticks =>
    /\ sIndex[Streamer] <= Len(taken)
    /\ \A s \in DOMAIN taken : /\ taken[s].tick = ticks <=> s > Base
                               /\ s > Base => taken[s].index = s - Base - 1

\* Only the master talks to the node, and it assigns and synchronises once.
FromMaster ==
  /\ ~IsOp(rx[Streamer], "HARD_RESET")
  /\ IsOp(mtx, "ASSIGN_ADDR") => mpc = "assign"
  /\ IsOp(mtx, "SYNC") => mpc = "start"

BootingClean == Booting => mtx = None /\ mrx = None

IsData(f) == f # None /\ f.kind = "data"

\* The network runs or has run: the node streams, or something tells that it did.
Streamed == \/ Live(Streamer)
            \/ IsOp(rx[Streamer], "SYNC") \/ IsOp(rx[Streamer], "RESEND_DATA")
            \/ IsOp(mtx, "RESEND_DATA")
            \/ HoldsData(tx[Streamer]) \/ IsData(mrx)
            \/ \E s \in DOMAIN taken : taken[s].tick = ticks

\* Then nobody gets a new address any more, until the master restarts.
Afoot == {"start", "top", "ticked", "recv", "silent"}
Settled ==
  Streamed /\ (lastTick = ticks \/ ~Booting) =>
    mpc \in Afoot /\ ~IsOp(rx[Streamer], "ASSIGN_ADDR") /\ st[Streamer] # "BOOT"

Settling == Consecutive /\ FromMaster /\ BootingClean /\ Settled

\* A pass of the loop takes a sample, as the last one, or none.
LEMMA TakenGrows ==
  ASSUME StreamInv, NodeSteps
  PROVE  /\ Len(taken) \in Nat /\ DOMAIN taken = 1..Len(taken)
         /\ Len(taken') \in Nat /\ DOMAIN taken' = 1..Len(taken')
         /\ ~Sampled => taken' = taken
         /\ Sampled => /\ Len(taken') = Len(taken) + 1
                       /\ taken'[Len(taken')] = [tick |-> epoch, index |-> sIndex[Streamer]]
         /\ \A i \in DOMAIN taken : i \in DOMAIN taken' /\ taken'[i] = taken[i]
         /\ \A i \in DOMAIN taken' : i \in DOMAIN taken \/ (Sampled /\ i = Len(taken'))
<1>1. IsList(taken) BY DEF StreamInv, Counted
<1>2. /\ taken' = IF Sampled THEN Append(taken, [tick |-> epoch, index |-> sIndex[Streamer]])
                             ELSE taken
  BY DEF NodeSteps
<1>3. CASE Sampled
  <2> DEFINE e == [tick |-> epoch, index |-> sIndex[Streamer]]
  <2>0. taken' = Append(taken, e) BY <1>2, <1>3
  <2> HIDE DEF e
  <2>1. /\ Len(taken) \in Nat /\ DOMAIN taken = 1..Len(taken)
        /\ Len(taken') = Len(taken) + 1 /\ DOMAIN taken' = 1..(Len(taken) + 1)
        /\ taken'[Len(taken) + 1] = e
        /\ \A i \in 1..Len(taken) : taken'[i] = taken[i]
    BY <1>1, <2>0, Appended
  <2>2. \A i \in 1..(Len(taken) + 1) : i \in 1..Len(taken) \/ i = Len(taken) + 1 BY <2>1
  <2>3. Len(taken') \in Nat /\ taken'[Len(taken')] = e BY <2>1
  <2>4. Sampled => /\ Len(taken') = Len(taken) + 1
                   /\ taken'[Len(taken')] = [tick |-> epoch, index |-> sIndex[Streamer]]
    BY <2>1, <2>3 DEF e
  <2>5. Len(taken') \in Nat /\ DOMAIN taken' = 1..Len(taken') BY <2>1
  <2>6. \A i \in DOMAIN taken : i \in DOMAIN taken' /\ taken'[i] = taken[i] BY <2>1
  <2>7. \A i \in DOMAIN taken' : i \in DOMAIN taken \/ (Sampled /\ i = Len(taken'))
    BY <1>3, <2>1, <2>2
  <2> QED BY <1>3, <2>1, <2>4, <2>5, <2>6, <2>7
<1>4. CASE ~Sampled
  <2>1. taken' = taken BY <1>2, <1>4
  <2>2. Len(taken) \in Nat /\ DOMAIN taken = 1..Len(taken) BY <1>1, ListIs
  <2>3. Len(taken') = Len(taken) /\ DOMAIN taken' = DOMAIN taken BY <2>1
  <2>4. \A i \in DOMAIN taken : taken'[i] = taken[i] BY <2>1
  <2> QED BY <1>4, <2>1, <2>2, <2>3, <2>4
<1> QED BY <1>3, <1>4

LEMMA NodeStepsSettle ==
  ASSUME StreamInv, Settling, NodeSteps
  PROVE  Settling'
<1> DEFINE S == Streamer
<1>0. /\ NetTypeOK /\ Counted /\ TicksInTime /\ BelowNext
      /\ Consecutive /\ FromMaster /\ BootingClean /\ Settled
  BY DEF StreamInv, Settling
<1>1. TypeOK /\ S \in Node /\ Loop(S) /\ tx[S] = <<>>
  BY <1>0, TheStreamer DEF NodeSteps, NodeRuns, NetTypeOK
<1>2. Stamps(S) /\ Moves(S) BY <1>1, LoopStamps, LoopMoves
<1>3. UNCHANGED <<mpc, poll, mtx, mrx, ticks, lastTick>>
  BY DEF NodeSteps, NodeRuns, master
<1>4. /\ Sampled <=> TakesSample(S)
      /\ HeardTick <=> HearsTick(S)
      /\ ~(Sampled /\ HeardTick)
  BY DEF Sampled, TakesSample, HeardTick, HearsTick, AtReceive, At
<1>5. Consecutive'
  <2> SUFFICES ASSUME epoch' = ticks'
               PROVE  /\ sIndex'[S] <= Len(taken')
                      /\ \A s \in DOMAIN taken' :
                           /\ taken'[s].tick = ticks' <=> s > Base'
                           /\ s > Base' => taken'[s].index = s - Base' - 1
    BY DEF Consecutive
  <2>1. /\ sIndex[S] \in 0..(IndexMod - 1) /\ IndexMod \in Nat \ {0, 1}
        /\ epoch' = IF HeardTick THEN lastTick ELSE epoch
    BY <1>1, NodeAssumption DEF TypeOK, NodeSteps
  <2>2. /\ ticks \in Nat /\ epoch \in 0..lastTick /\ lastTick \in 0..ticks
        /\ \A i \in DOMAIN taken : taken[i].tick \in 0..epoch
    BY <1>0 DEF Counted
  <2>3. CASE HeardTick
    <3>1. sIndex'[S] = 0 /\ taken' = taken BY <1>2, <1>4, <2>3, TakenGrows DEF Stamps
    <3>2. IsTick(rx[S]) BY <2>3 DEF HeardTick, Command, IsCtrl, IsTick
    <3>3. epoch < lastTick /\ lastTick = ticks BY <1>0, <1>3, <2>1, <2>2, <2>3, <3>2 DEF TicksInTime
    <3>4. \A i \in DOMAIN taken : taken[i].tick # ticks BY <2>2, <3>3
    <3>5. Base' = Len(taken)
      <4>1. Len(taken) \in Nat BY TakenGrows
      <4> QED BY <3>1, <4>1 DEF Base
    <3> QED BY <1>3, <3>1, <3>4, <3>5, TakenGrows
  <2>4. CASE Sampled
    <3>1. epoch = ticks /\ ~HeardTick BY <1>3, <1>4, <2>1, <2>4
    <3>2. sIndex'[S] = (sIndex[S] + 1) % IndexMod /\ drdy[S]
      BY <1>2, <1>4, <2>4 DEF Stamps, Sampled
    <3>3. sIndex[S] + 1 < IndexMod BY <1>0, <3>1, <3>2 DEF BelowNext
    <3>4. sIndex[S] + 1 \in Nat BY <2>1
    <3>5. sIndex'[S] = sIndex[S] + 1 BY <2>1, <3>2, <3>3, <3>4, SmallMod
    <3>6. /\ Len(taken) \in Nat /\ Len(taken') = Len(taken) + 1
          /\ taken'[Len(taken')].tick = epoch /\ taken'[Len(taken')].index = sIndex[S]
      <4>1. taken'[Len(taken')] = [tick |-> epoch, index |-> sIndex[S]] BY <2>4, TakenGrows
      <4>2. Len(taken) \in Nat /\ Len(taken') = Len(taken) + 1 BY <2>4, TakenGrows
      <4> QED BY <4>1, <4>2
    <3>7. Base' = Base /\ Base \in Int /\ Len(taken') > Base
          /\ Len(taken') - Base - 1 = sIndex[S]
      BY <2>1, <3>5, <3>6 DEF Base
    <3>8. sIndex'[S] <= Len(taken') BY <1>0, <2>1, <3>1, <3>5, <3>6 DEF Consecutive
    <3>9. ASSUME NEW s \in DOMAIN taken'
          PROVE  /\ taken'[s].tick = ticks' <=> s > Base'
                 /\ s > Base' => taken'[s].index = s - Base' - 1
      <4>1. CASE s \in DOMAIN taken
        <5>1. taken'[s] = taken[s] BY <4>1, TakenGrows
        <5> QED BY <1>0, <1>3, <3>1, <3>7, <4>1, <5>1 DEF Consecutive
      <4>2. CASE s = Len(taken') BY <1>3, <3>1, <3>6, <3>7, <4>2
      <4> QED BY <3>9, <4>1, <4>2, TakenGrows
    <3> QED BY <3>8, <3>9
  <2>5. CASE ~HeardTick /\ ~Sampled
    <3>1. sIndex'[S] = sIndex[S] /\ taken' = taken BY <1>2, <1>4, <2>5, TakenGrows DEF Stamps
    <3>2. epoch = ticks BY <1>3, <2>1, <2>5
    <3> QED BY <1>0, <1>3, <3>1, <3>2 DEF Consecutive, Base
  <2> QED BY <2>3, <2>4, <2>5
<1>6. rx'[S] \in {rx[S], None} BY <1>2 DEF Stamps
<1>7. FromMaster' /\ BootingClean'
  BY <1>0, <1>3, <1>6 DEF FromMaster, BootingClean, Booting, IsOp
<1>8. Settled'
  <2> SUFFICES ASSUME Streamed', lastTick = ticks \/ ~Booting
               PROVE  mpc \in Afoot /\ ~IsOp(rx'[S], "ASSIGN_ADDR") /\ st'[S] # "BOOT"
    BY <1>3 DEF Settled, Booting, Afoot
  <2>1. Streamed
    <3>1. (\E s \in DOMAIN taken' : taken'[s].tick = ticks) =>
            Sampled \/ \E s \in DOMAIN taken : taken[s].tick = ticks
      BY TakenGrows
    <3>2. Live(S)' => Live(S) \/ IsOp(rx[S], "SYNC") BY <1>2 DEF Moves
    <3>3. HoldsData(tx'[S]) => Live(S) \/ IsOp(rx[S], "RESEND_DATA") BY <1>2 DEF Moves
    <3>4. Sampled => Live(S) BY <1>2, <1>4 DEF Moves
    <3>5. \A op \in {"SYNC", "RESEND_DATA"} : IsOp(rx'[S], op) => IsOp(rx[S], op)
      BY <1>6 DEF IsOp
    <3> QED BY <1>3, <3>1, <3>2, <3>3, <3>4, <3>5 DEF Streamed, IsOp, IsData
  <2>2. mpc \in Afoot /\ ~IsOp(rx[S], "ASSIGN_ADDR") /\ st[S] # "BOOT"
    BY <1>0, <2>1 DEF Settled
  <2>3. ~IsOp(rx'[S], "ASSIGN_ADDR") BY <1>6, <2>2 DEF IsOp
  <2>4. st'[S] # "BOOT" BY <1>0, <1>2, <2>2 DEF Moves, FromMaster
  <2> QED BY <2>2, <2>3, <2>4
<1> QED BY <1>5, <1>7, <1>8 DEF Settling

\* Steps that take nothing and leave the second alone.
LEMMA StillConsecutive ==
  ASSUME Counted, Consecutive, UNCHANGED <<sIndex, epoch, taken>>,
         ticks' = ticks \/ ticks' = ticks + 1
  PROVE  Consecutive'
<1>1. ticks \in Nat /\ lastTick \in 0..ticks /\ epoch \in 0..lastTick BY DEF Counted
<1>2. CASE ticks' = ticks BY <1>2 DEF Consecutive, Base
<1>3. CASE ticks' = ticks + 1
  <2>1. epoch' # ticks' BY <1>1, <1>3
  <2> QED BY <2>1 DEF Consecutive
<1> QED BY <1>2, <1>3

\* A DATA frame that comes in left the node's transmitter.
LEMMA NodeSendsSettle ==
  ASSUME StreamInv, Settling, NodeSends
  PROVE  Settling'
<1> DEFINE S == Streamer
           f == Head(tx[S])
<1>0. /\ NetTypeOK /\ Counted /\ Consecutive /\ FromMaster /\ BootingClean /\ Settled
  BY DEF StreamInv, Settling
<1>1. /\ UNCHANGED <<st, pc, sIndex, epoch, taken, ticks, lastTick>>
      /\ UNCHANGED <<mpc, poll, mtx>>
  BY DEF NodeSends, NodeTransmits, app, M!Arrives, master
<1>2. /\ tx[S] \in Seq(Frames) /\ tx[S] # <<>> /\ tx'[S] = Tail(tx[S])
  BY <1>0, TheStreamer DEF NodeSends, NodeTransmits, NetTypeOK, TypeOK, Frames
<1>3. /\ f \in Frames /\ 1 \in DOMAIN tx[S] /\ f = tx[S][1]
      /\ \A i \in DOMAIN tx'[S] : i + 1 \in DOMAIN tx[S] /\ tx'[S][i] = tx[S][i + 1]
  BY <1>2
<1>4. rx'[S] = rx[S]
  BY <1>0, TheStreamer DEF NodeSends, NodeTransmits, Carries, NetTypeOK, TypeOK
<1>5. \/ mrx = None /\ ~Booting /\ mrx' \in {Arriving(f, S), Garbled(f)}
      \/ mrx' = mrx
  BY DEF NodeSends, NodeTransmits, Hearing, M!Receiving, M!At, M!Arrives, Booting, master
<1>6. HoldsData(tx'[S]) => HoldsData(tx[S]) BY <1>3 DEF HoldsData
<1>7. IsData(mrx') => IsData(mrx) \/ HoldsData(tx[S])
  <2>1. f.kind = "data" \/ f.kind = "ctrl" BY <1>3, FramesTyped DEF Frames
  <2>2. f.kind # "data" => ~IsData(f) /\ ~IsData(Garbled(f))
    BY <2>1 DEF IsData, Garbled, Undecodable
  <2>3. f.kind # "data" => ~IsData(Arriving(f, S)) BY <2>2 DEF Arriving
  <2>4. f.kind = "data" => HoldsData(tx[S]) BY <1>3 DEF HoldsData
  <2> QED BY <1>5, <2>2, <2>3, <2>4
<1>8. Consecutive' BY <1>0, <1>1, StillConsecutive
<1>9. FromMaster' /\ BootingClean'
  BY <1>0, <1>1, <1>4, <1>5 DEF FromMaster, BootingClean, Booting
<1>10. Settled'
  <2>1. Streamed' => Streamed BY <1>1, <1>4, <1>6, <1>7 DEF Streamed, Live
  <2> QED BY <1>0, <1>1, <1>4, <2>1 DEF Settled, Booting, Afoot
<1> QED BY <1>8, <1>9, <1>10 DEF Settling

LEMMA WorldSettles ==
  ASSUME StreamInv, Settling, SensorReady \/ Second \/ UNCHANGED svars
  PROVE  Settling'
<1>0. Counted /\ Consecutive /\ FromMaster /\ BootingClean /\ Settled
  BY DEF StreamInv, Settling
<1>1. /\ UNCHANGED <<st, pc, sIndex, rx, tx, mpc, poll, mtx, mrx>>
      /\ UNCHANGED <<ticks, lastTick, epoch, taken>>
  BY DEF SensorReady, NodeSamples, DrdyIsr, Second, SecondPasses, M!RtcTick, M!bus,
         app, vars, master, history, netvars, svars
<1>2. Consecutive' BY <1>0, <1>1, StillConsecutive
<1>3. FromMaster' /\ BootingClean' BY <1>0, <1>1 DEF FromMaster, BootingClean, Booting
<1>4. Streamed' => Streamed BY <1>1 DEF Streamed, Live
<1>5. Settled' BY <1>0, <1>1, <1>4 DEF Settled, Booting, Afoot
<1> QED BY <1>2, <1>3, <1>5 DEF Settling

\* A command is heard as it was sent, or not at all.
LEMMA HeardAsSent ==
  ASSUME NEW f \in MasterSays
  PROVE  AtNode(Arriving(f, Master)) \in {f, Undecodable}
<1>1. Arriving(f, Master) \in {f, Undecodable} BY MasterSaysTyped DEF Arriving, Garbled
<1>2. AtNode(f) = f /\ AtNode(Undecodable) = Undecodable BY FrameHeard DEF AtNode, Undecodable
<1> QED BY <1>1, <1>2

LEMMA MasterTransmitsSettle ==
  ASSUME StreamInv, Settling, MasterTransmits, UNCHANGED history
  PROVE  Settling'
<1> DEFINE S == Streamer
<1>0. /\ NetTypeOK /\ Counted /\ Consecutive /\ FromMaster /\ BootingClean /\ Settled
  BY DEF StreamInv, Settling
<1>1. /\ UNCHANGED <<st, pc, sIndex, tx, mpc, poll, mrx>>
      /\ UNCHANGED <<ticks, lastTick, epoch, taken>>
      /\ mtx # None /\ mtx' = None
  BY DEF MasterTransmits, M!SentOut, app, history
<1>2. \/ rx'[S] = rx[S]
      \/ S \in CanHear /\ rx'[S] \in {mtx, Undecodable}
  <2>1. mtx \in MasterSays BY <1>0, <1>1 DEF NetTypeOK, MasterTypeOK
  <2>2. AtNode(Arriving(mtx, Master)) \in {mtx, Undecodable} BY <2>1, HeardAsSent
  <2>3. PICK who \in SUBSET CanHear : Carries(mtx, Master, who) BY DEF MasterTransmits
  <2>4. rx'[S] = IF S \in who THEN AtNode(Arriving(mtx, Master)) ELSE rx[S]
    BY <2>3, TheStreamer DEF Carries
  <2> QED BY <2>2, <2>3, <2>4
<1>3. ASSUME NEW op, IsOp(rx'[S], op)
      PROVE  IsOp(rx[S], op) \/ (IsOp(mtx, op) /\ S \in CanHear)
  <2>1. ~IsOp(Undecodable, op) BY DEF IsOp, Undecodable
  <2> QED BY <1>2, <1>3, <2>1
<1>4. ~IsOp(mtx, "HARD_RESET")
  <2>1. mtx \in MasterSays BY <1>0, <1>1 DEF NetTypeOK, MasterTypeOK
  <2> QED BY <2>1 DEF MasterSays, CtrlFrame, IsOp
<1>5. Consecutive' BY <1>0, <1>1, StillConsecutive
<1>6. FromMaster'
  <2>1. ~IsOp(rx'[S], "HARD_RESET") BY <1>0, <1>3, <1>4 DEF FromMaster
  <2>2. \A op : ~IsOp(mtx', op) BY <1>1 DEF IsOp
  <2> QED BY <2>1, <2>2 DEF FromMaster
<1>7. BootingClean' BY <1>0, <1>1 DEF BootingClean, Booting
<1>8. Settled'
  <2> SUFFICES ASSUME Streamed', lastTick = ticks \/ ~Booting
               PROVE  mpc \in Afoot /\ ~IsOp(rx'[S], "ASSIGN_ADDR") /\ st[S] # "BOOT"
    BY <1>1 DEF Settled, Booting, Afoot
  <2>1. ~IsOp(mtx', "RESEND_DATA") BY <1>1 DEF IsOp
  <2>2. Streamed \/ (IsOp(mtx, "SYNC") /\ S \in CanHear)
    <3>1. Live(S)' => Live(S) BY <1>1 DEF Live
    <3>2. IsOp(rx'[S], "SYNC") => IsOp(rx[S], "SYNC") \/ (IsOp(mtx, "SYNC") /\ S \in CanHear)
      BY <1>3
    <3>3. IsOp(rx'[S], "RESEND_DATA") => IsOp(rx[S], "RESEND_DATA") \/ IsOp(mtx, "RESEND_DATA")
      BY <1>3
    <3>4. HoldsData(tx'[S]) => HoldsData(tx[S]) BY <1>1
    <3>5. IsData(mrx') => IsData(mrx) BY <1>1
    <3>6. (\E s \in DOMAIN taken' : taken'[s].tick = ticks') =>
            \E s \in DOMAIN taken : taken[s].tick = ticks
      BY <1>1
    <3> QED BY <2>1, <3>1, <3>2, <3>3, <3>4, <3>5, <3>6 DEF Streamed
  <2>3. mpc \in Afoot /\ st[S] # "BOOT"
    <3>1. CASE Streamed BY <1>0, <3>1 DEF Settled
    <3>2. CASE IsOp(mtx, "SYNC") /\ S \in CanHear
      BY <1>0, <3>2 DEF FromMaster, Afoot, CanHear, AtReceive
    <3> QED BY <2>2, <3>1, <3>2
  <2>4. mpc # "assign" BY <2>3 DEF Afoot
  <2>5. ~IsOp(mtx, "ASSIGN_ADDR") BY <1>0, <2>4 DEF FromMaster
  <2>6. ~IsOp(rx[S], "ASSIGN_ADDR")
    <3>1. CASE Streamed BY <1>0, <3>1 DEF Settled
    <3>2. CASE S \in CanHear BY <3>2 DEF CanHear, IsOp
    <3> QED BY <2>2, <3>1, <3>2
  <2> QED BY <1>3, <2>3, <2>5, <2>6
<1> QED BY <1>5, <1>6, <1>7, <1>8 DEF Settling

LEMMA RestartSettles ==
  ASSUME StreamInv, Settling, Restart
  PROVE  Settling'
<1>0. Counted /\ Consecutive /\ FromMaster BY DEF StreamInv, Settling
<1>1. /\ UNCHANGED <<sIndex, rx, lastTick, epoch, taken>>
      /\ mpc' = "discover" /\ poll' = 1 /\ mtx' = None /\ mrx' = None /\ ticks' = ticks + 1
  BY DEF Restart, MasterRestarts, M!PowerUp, app
<1>2. Consecutive' BY <1>0, <1>1, StillConsecutive
<1>3. FromMaster' /\ BootingClean' BY <1>0, <1>1 DEF FromMaster, BootingClean, IsOp
<1>4. lastTick' # ticks' /\ Booting'
  <2>1. ticks \in Nat /\ lastTick \in 0..ticks BY <1>0 DEF Counted
  <2> QED BY <1>1, <2>1 DEF Booting
<1>5. Settled' BY <1>4 DEF Settled
<1> QED BY <1>2, <1>3, <1>5 DEF Settling

\* What the master's steps do to its phase and to the pair.
LEMMA WorkingPhase ==
  ASSUME MasterTypeOK, M!Working
  PROVE  /\ mpc \in Afoot => mpc' \in Afoot
         /\ mpc' \in Afoot /\ mpc \notin Afoot => mpc = "sync"
         /\ IsOp(mtx', "ASSIGN_ADDR") => mpc' = "assign"
         /\ IsOp(mtx', "SYNC") => mpc' = "start"
         /\ IsOp(mtx', "RESEND_DATA") => IsData(mrx)
         /\ mrx' \in {mrx, None} /\ mtx = None
         /\ mpc' = "discover" => poll' # 1
<1>0. /\ \A a, op, v, o : IsOp(CtrlFrame(a, op, v), o) => o = op
      /\ \A o : ~IsOp(None, o)
  BY DEF IsOp, CtrlFrame
<1>1. poll \in Nat \ {0} /\ poll + 1 # 1 BY DEF MasterTypeOK
<1> USE DEF M!At, Afoot
<1>2. CASE M!Discover \/ M!SendSync
  BY <1>0, <1>2, SameLink DEF M!Discover, M!SendSync
<1>3. CASE M!AwaitStatus \/ M!AwaitType
  BY <1>0, <1>1, <1>3, SameLink DEF M!AwaitStatus, M!AwaitType
<1>4. CASE M!Discovered \/ M!Assigned \/ M!ClockStart \/ M!StartRun
  BY <1>0, <1>4 DEF M!Discovered, M!Assigned, M!ClockStart, M!StartRun, M!bus
<1>5. CASE M!Assign
  BY <1>0, <1>5, SameLink DEF M!Assign
<1>6. CASE M!Top
  BY <1>0, <1>6, SameLink DEF M!Top
<1>7. CASE M!Ticked
  BY <1>0, <1>7 DEF M!Ticked, M!bus
<1>8. CASE M!RecvData \/ M!RecvCtrl \/ M!RecvNothing
  BY <1>0, <1>8, SameLink
  DEF M!RecvData, M!RecvCtrl, M!RecvNothing, M!Received, IsData
<1>9. CASE M!SilentSlot
  BY <1>0, <1>9 DEF M!SilentSlot, M!bus
<1> QED BY <1>2, <1>3, <1>4, <1>5, <1>6, <1>7, <1>8, <1>9 DEF M!Working

LEMMA MasterStepsSettle ==
  ASSUME StreamInv, Settling, MasterSteps
  PROVE  Settling'
<1> DEFINE S == Streamer
<1>0. /\ NetTypeOK /\ MasterTypeOK /\ Counted
      /\ Consecutive /\ FromMaster /\ BootingClean /\ Settled
  BY DEF StreamInv, Settling, NetTypeOK
<1>1. /\ UNCHANGED <<st, pc, sIndex, rx, tx, epoch, taken>>
      /\ M!Working /\ NodesUp
  BY DEF MasterSteps, MasterRuns, vars, app
<1>2. ticks' = ticks \/ ticks' = ticks + 1 BY DEF MasterSteps
<1>3. /\ mpc \in Afoot => mpc' \in Afoot
      /\ IsOp(mtx', "ASSIGN_ADDR") => mpc' = "assign"
      /\ IsOp(mtx', "SYNC") => mpc' = "start"
      /\ IsOp(mtx', "RESEND_DATA") => IsData(mrx)
      /\ mrx' \in {mrx, None} /\ mtx = None
      /\ mpc' = "discover" => poll' # 1
  BY <1>0, <1>1, WorkingPhase
<1>4. Consecutive' BY <1>0, <1>1, <1>2, StillConsecutive
<1>5. FromMaster' BY <1>0, <1>1, <1>3 DEF FromMaster
<1>6. BootingClean' BY <1>3 DEF BootingClean, Booting
<1>7. Settled'
  <2> SUFFICES ASSUME Streamed'
               PROVE  mpc' \in Afoot /\ ~IsOp(rx[S], "ASSIGN_ADDR") /\ st[S] # "BOOT"
    BY <1>1 DEF Settled
  <2>1. ticks \in Nat /\ lastTick \in 0..ticks /\ epoch \in 0..lastTick
        /\ \A s \in DOMAIN taken : taken[s].tick \in 0..epoch
    BY <1>0 DEF Counted
  <2>2. Streamed
    <3>1. Live(S)' => Live(S) BY <1>1 DEF Live
    <3>2. IsData(mrx') => IsData(mrx) BY <1>3 DEF IsData
    <3>3. (\E s \in DOMAIN taken' : taken'[s].tick = ticks') =>
            \E s \in DOMAIN taken : taken[s].tick = ticks
      BY <1>1, <1>2, <2>1
    <3> QED BY <1>1, <1>3, <3>1, <3>2, <3>3 DEF Streamed
  <2>3. lastTick = ticks \/ ~Booting
    <3> SUFFICES ASSUME Booting, lastTick # ticks PROVE FALSE OBVIOUS
    <3>1. Quiet /\ st[S] = "LISTEN" /\ pc[S] = "top" BY <1>1, TheStreamer DEF NodesUp
    <3>2. rx[S] = None /\ tx[S] = <<>> BY <3>1, TheStreamer DEF Quiet, Talkers
    <3>3. mtx = None /\ mrx = None BY <1>0 DEF BootingClean
    <3>4. \A s \in DOMAIN taken : taken[s].tick # ticks BY <2>1
    <3> QED
      BY <2>2, <3>1, <3>2, <3>3, <3>4, NoDataIn
      DEF Streamed, Live, IsOp, IsData, SwitchPoint, SyncedPoint
  <2>4. mpc \in Afoot /\ ~IsOp(rx[S], "ASSIGN_ADDR") /\ st[S] # "BOOT"
    BY <1>0, <2>2, <2>3 DEF Settled
  <2> QED BY <1>3, <2>4
<1> QED BY <1>4, <1>5, <1>6, <1>7 DEF Settling

LEMMA StreamSettles == StreamInv /\ Settling /\ [StreamNext]_svars => Settling'
BY NodeStepsSettle, NodeSendsSettle, WorldSettles, MasterTransmitsSettle, RestartSettles,
   MasterStepsSettle
DEF StreamNext

LEMMA StreamInitSettled == StreamInit => Settling
<1> SUFFICES ASSUME StreamInit PROVE Settling OBVIOUS
<1>1. /\ taken = <<>> /\ ticks = 0 /\ lastTick = 0 /\ epoch = 0
      /\ mpc = "discover" /\ mtx = None /\ mrx = None
  BY DEF StreamInit, NetInit, M!Init
<1>2. /\ sIndex[Streamer] = 0 /\ rx[Streamer] = None /\ tx[Streamer] = <<>>
      /\ st[Streamer] = "BOOT" /\ pc[Streamer] = "top"
  BY TheStreamer DEF StreamInit, NetInit, Init
<1>3. ~Streamed
  BY <1>1, <1>2, NoDataIn DEF Streamed, Live, IsOp, IsData, SwitchPoint, SyncedPoint
<1> QED
  BY <1>1, <1>2, <1>3
  DEF Settling, Consecutive, FromMaster, BootingClean, Settled, IsOp
----------------------------------------------------------------------------
(* The table while the network runs: whoever is in it stays where it is,    *)
(* and is found there.                                                      *)

\* Every set of naturals that is not empty has a least element.
Less == {ss \in Nat \X Nat : ss[1] < ss[2]}

LEMMA LeastNatural ==
  ASSUME NEW T, T \subseteq Nat, T # {}
  PROVE  \E m \in T : \A n \in T : m <= n
<1>1. IsWellFoundedOn(Less, Nat) BY NatLessThanWellFounded DEF OpToRel, Less
<1>2. PICK m \in T : \A n \in T : ~ (<<n, m>> \in Less) BY <1>1, WFMin
<1>3. ASSUME NEW n \in T PROVE m <= n
  <2>1. n \in Nat /\ m \in Nat /\ <<n, m>> \notin Less BY <1>2
  <2>2. ~ (n < m) BY <2>1 DEF Less
  <2> QED BY <2>1, <2>2
<1> QED BY <1>3

\* i is where find_node stops.
First(t, a, i) == /\ i \in DOMAIN t /\ t[i].addr = a
                  /\ \A j \in 1..(i - 1) : t[j].addr # a

LEMMA FirstFound ==
  ASSUME NEW t \in Tables, NEW a, M!Known(t, a)
  PROVE  First(t, a, M!FindNode(t, a))
<1> DEFINE T == {i \in DOMAIN t : t[i].addr = a}
<1>1. DOMAIN t = 1..Len(t) /\ Len(t) \in Nat BY DEF Tables
<1>2. T # {} /\ T \subseteq Nat BY <1>1 DEF M!Known
<1>3. PICK i \in T : \A j \in T : i <= j
  <2> HIDE DEF T
  <2> QED BY <1>2, LeastNatural
<1>4. ASSUME NEW j \in 1..(i - 1) PROVE t[j].addr # a
  <2>1. i \in 1..Len(t) BY <1>1
  <2>2. j \in DOMAIN t /\ ~ (i <= j) BY <1>1, <2>1
  <2> QED BY <1>3, <2>2
<1>5. \E k \in DOMAIN t : t[k].addr = a /\ \A j \in 1..(k - 1) : t[j].addr # a
  BY <1>3, <1>4
<1> QED BY <1>5 DEF M!FindNode, First

LEMMA FirstIsOne ==
  ASSUME NEW t \in Tables, NEW a, NEW i, NEW k, First(t, a, i), First(t, a, k)
  PROVE  i = k
<1>1. i \in Nat \ {0} /\ k \in Nat \ {0} BY DEF First, Tables
<1>2. ~ (i < k)
  <2> SUFFICES ASSUME i < k PROVE FALSE OBVIOUS
  <2>1. i \in 1..(k - 1) BY <1>1
  <2> QED BY <2>1 DEF First
<1>3. ~ (k < i)
  <2> SUFFICES ASSUME k < i PROVE FALSE OBVIOUS
  <2>1. k \in 1..(i - 1) BY <1>1
  <2> QED BY <2>1 DEF First
<1> QED BY <1>1, <1>2, <1>3

\* Nobody leaves, moves or changes its address.
SamePlaces(t, u) == \A i \in DOMAIN t : i \in DOMAIN u /\ u[i].addr = t[i].addr

LEMMA FoundAgain ==
  ASSUME NEW t \in Tables, NEW u \in Tables, SamePlaces(t, u), NEW a, M!Known(t, a)
  PROVE  M!Known(u, a) /\ M!FindNode(u, a) = M!FindNode(t, a)
<1> DEFINE i == M!FindNode(t, a)
<1>1. First(t, a, i) BY FirstFound
<1> HIDE DEF i
<1>2. First(u, a, i)
  <2>1. DOMAIN t = 1..Len(t) /\ Len(t) \in Nat BY DEF Tables
  <2>2. \A j \in 1..(i - 1) : j \in DOMAIN t BY <1>1, <2>1 DEF First
  <2> QED BY <1>1, <2>2 DEF First, SamePlaces
<1>3. M!Known(u, a) BY <1>2 DEF First, M!Known
<1>4. First(u, a, M!FindNode(u, a)) BY <1>3, FirstFound
<1> QED BY <1>2, <1>3, <1>4, FirstIsOne DEF i

\* Nor is anything else expected of it.
Undisturbed(t, u) == SamePlaces(t, u) /\ \A i \in DOMAIN t : u[i].exp = t[i].exp

LEMMA ReplacedUndisturbed ==
  ASSUME NEW t \in Tables, NEW i, NEW e,
         i \in DOMAIN t => e.addr = t[i].addr /\ e.exp = t[i].exp
  PROVE  Undisturbed(t, [t EXCEPT ![i] = e])
<1> DEFINE u == [t EXCEPT ![i] = e]
<1>1. t \in [1..Len(t) -> M!Entry] BY DEF Tables
<1>2. DOMAIN u = DOMAIN t /\ \A j \in DOMAIN t : u[j] = IF j = i THEN e ELSE t[j] BY <1>1
<1> HIDE DEF u
<1> QED BY <1>2 DEF Undisturbed, SamePlaces, u

LEMMA ControlledUndisturbed ==
  ASSUME NEW t \in Tables, NEW c
  PROVE  Undisturbed(t, M!Controlled(t, c))
<1> DEFINE i == M!FindNode(t, c.station)
<1>0. Undisturbed(t, t) BY DEF Undisturbed, SamePlaces
<1>1. CASE c.op = "STATUS" /\ M!Known(t, c.station)
  <2> DEFINE e == [t[i] EXCEPT !.len = c.val]
  <2>1. M!Controlled(t, c) = [t EXCEPT ![i] = e]
    BY <1>1 DEF M!Controlled, M!Registered
  <2>2. i \in DOMAIN t => e.addr = t[i].addr /\ e.exp = t[i].exp
    <3>1. i \in DOMAIN t => t[i] \in M!Entry BY EntryOf
    <3> QED BY <3>1 DEF M!Entry
  <2> HIDE DEF i, e
  <2>3. Undisturbed(t, [t EXCEPT ![i] = e]) BY <2>2, ReplacedUndisturbed
  <2> QED BY <2>1, <2>3
<1>2. CASE c.op = "STATUS" /\ ~M!Known(t, c.station)
  <2> DEFINE e == M!NewEntry(c.station, c.val)
  <2>1. M!Controlled(t, c) = t \/ M!Controlled(t, c) = Append(t, e)
    BY <1>2 DEF M!Controlled, M!Registered
  <2> HIDE DEF e
  <2>2. IsList(t) BY ListOf DEF Tables
  <2>3. Undisturbed(t, Append(t, e)) BY <2>2, Appended DEF Undisturbed, SamePlaces
  <2> QED BY <1>0, <2>1, <2>3
<1>3. CASE c.op # "STATUS"
  <2> DEFINE e == M!Answered(t[i], c)
  <2>1. M!Controlled(t, c) = t \/ M!Controlled(t, c) = [t EXCEPT ![i] = e]
    BY <1>3 DEF M!Controlled
  <2>2. i \in DOMAIN t => e.addr = t[i].addr /\ e.exp = t[i].exp
    <3>1. i \in DOMAIN t => t[i] \in M!Entry BY EntryOf
    <3> QED BY <3>1 DEF M!Entry, M!Answered
  <2> HIDE DEF i, e
  <2> QED BY <1>0, <2>1, <2>2, ReplacedUndisturbed
<1> QED BY <1>1, <1>2, <1>3

LEMMA LostUndisturbed ==
  ASSUME NEW t \in Tables, NEW a
  PROVE  Undisturbed(t, M!Lost(t, a))
<1> DEFINE i == M!FindNode(t, a)
           e == [t[i] EXCEPT !.synced = FALSE]
<1>1. i \in DOMAIN t => e.addr = t[i].addr /\ e.exp = t[i].exp
  <2>1. i \in DOMAIN t => t[i] \in M!Entry BY EntryOf
  <2> QED BY <2>1 DEF M!Entry
<1>2. M!Lost(t, a) = t \/ M!Lost(t, a) = [t EXCEPT ![i] = e] BY DEF M!Lost
<1>3. Undisturbed(t, t) BY DEF Undisturbed, SamePlaces
<1> HIDE DEF i, e
<1> QED BY <1>1, <1>2, <1>3, ReplacedUndisturbed

\* While the network runs a step of the master disturbs the table only to begin
\* a second or to store a record.
LEMMA WorkingUndisturbed ==
  ASSUME MasterTypeOK, M!Working, M!Running, mpc # "ticked", ~Stores
  PROVE  Undisturbed(nodes, nodes')
<1>0. nodes \in Tables /\ Undisturbed(nodes, nodes) BY DEF MasterTypeOK, Undisturbed, SamePlaces
<1> USE DEF M!At, M!Running
<1>1. CASE M!Top BY <1>0, <1>1 DEF M!Top, M!table
<1>2. CASE M!RecvData
  <2>1. /\ mpc = "recv" /\ nodes' = M!Ingested(nodes, mrx)
        /\ mrx # None /\ mrx.kind = "data"
    BY <1>2 DEF M!RecvData, M!Received, M!Ingest
  <2> QED BY <1>0, <2>1 DEF Stores, M!Ingested
<1>3. CASE M!RecvCtrl \/ M!RecvNothing
  <2>1. nodes' = nodes \/ nodes' = M!Controlled(nodes, mrx)
    BY <1>3 DEF M!RecvCtrl, M!RecvNothing, M!OnCtrl, M!table
  <2> QED BY <1>0, <2>1, ControlledUndisturbed
<1>4. CASE M!SilentSlot
  <2>1. nodes' = nodes \/ \E a : nodes' = M!Lost(nodes, a)
    BY <1>4 DEF M!SilentSlot, M!NodeLost, M!table
  <2> QED BY <1>0, <2>1, LostUndisturbed
<1>5. ~ (M!Discover \/ M!AwaitStatus \/ M!AwaitType \/ M!Discovered \/ M!Assign \/ M!Assigned
          \/ M!ClockStart \/ M!SendSync \/ M!StartRun \/ M!Ticked)
  BY DEF M!Discover, M!AwaitStatus, M!AwaitType, M!Discovered, M!Assign, M!Assigned,
         M!ClockStart, M!SendSync, M!StartRun, M!Ticked
<1> QED BY <1>1, <1>2, <1>3, <1>4, <1>5 DEF M!Working

\* What a record does to the table: its node's expectation catches up.
LEMMA StoringCatchesUp ==
  ASSUME MasterTypeOK, M!Working, Stores
  PROVE  LET i == M!FindNode(nodes, mrx.station)
         IN /\ M!Known(nodes, mrx.station) /\ i \in DOMAIN nodes /\ mrx.intact
            /\ nodes' \in Tables => M!Known(nodes', mrx.station)
                                      /\ M!FindNode(nodes', mrx.station) = i
            /\ nodes'[i].exp = IF mrx.index >= nodes[i].exp THEN (mrx.index + 1) % IndexMod
                                                            ELSE nodes[i].exp
<1> DEFINE i == M!FindNode(nodes, mrx.station)
           e == M!HeardFrame(nodes[i], mrx)
<1>0. nodes \in Tables BY DEF MasterTypeOK
<1>1. mpc = "recv" /\ mrx # None /\ mrx.kind = "data" /\ M!IngestResult(nodes, mrx) = "OK"
  BY DEF Stores
<1>2. M!Known(nodes, mrx.station) /\ mrx.intact BY <1>1 DEF M!IngestResult, M!DataDecode
<1>3. First(nodes, mrx.station, i) BY <1>0, <1>2, FirstFound
<1>4. M!RecvData
  <2>1. ~M!RecvCtrl /\ ~M!RecvNothing BY <1>1 DEF M!RecvCtrl, M!RecvNothing
  <2>2. ~ (M!Discover \/ M!AwaitStatus \/ M!AwaitType \/ M!Discovered \/ M!Assign \/ M!Assigned
            \/ M!ClockStart \/ M!SendSync \/ M!StartRun \/ M!Top \/ M!Ticked \/ M!SilentSlot)
    BY <1>1 DEF M!At, M!Discover, M!AwaitStatus, M!AwaitType, M!Discovered, M!Assign,
                M!Assigned, M!ClockStart, M!SendSync, M!StartRun, M!Top, M!Ticked, M!SilentSlot
  <2> QED BY <2>1, <2>2 DEF M!Working
<1>5. nodes' = [nodes EXCEPT ![i] = e]
  BY <1>1, <1>4 DEF M!RecvData, M!Ingest, M!Ingested
<1>6. nodes[i] \in M!Entry BY <1>0, <1>3, EntryOf DEF First
<1>7. /\ e.addr = nodes[i].addr
      /\ e.exp = IF mrx.index >= nodes[i].exp THEN (mrx.index + 1) % IndexMod ELSE nodes[i].exp
  BY <1>6 DEF M!Entry, M!HeardFrame
<1> HIDE DEF i, e
<1>8. /\ DOMAIN nodes' = DOMAIN nodes
      /\ \A j \in DOMAIN nodes : nodes'[j] = IF j = i THEN e ELSE nodes[j]
  <2>1. nodes \in [1..Len(nodes) -> M!Entry] BY <1>0 DEF Tables
  <2> QED BY <1>5, <2>1
<1>9. SamePlaces(nodes, nodes') BY <1>7, <1>8 DEF SamePlaces
<1>10. nodes' \in Tables => M!Known(nodes', mrx.station) /\ M!FindNode(nodes', mrx.station) = i
  BY <1>0, <1>2, <1>9, FoundAgain DEF i
<1> QED BY <1>2, <1>3, <1>7, <1>8, <1>10 DEF First, i
----------------------------------------------------------------------------
(* What the gaps rest on, second part: what the master expects tells what   *)
(* it recorded last.                                                        *)

\* A sample of the running second.
Now(s) == s \in DOMAIN taken /\ taken[s].tick = ticks

\* A sample of the running second is under way under the node's address.
OwnStation ==
  LET a == sAddr[Streamer]
  IN /\ Now(Len(taken)) => sDataFrame[Streamer].station = a
     /\ Now(onWire) =>
          \A i \in DOMAIN tx[Streamer] :
            tx[Streamer][i].kind = "data" => tx[Streamer][i].station = a
     /\ Now(arrived) /\ IsData(mrx) /\ mrx.intact => mrx.station = a

\* The last record is of the last second, and of the newest sample, recorded.
Last == record[Len(record)]
InOrder ==
  /\ \A i \in DOMAIN record : /\ record[i].tick \in 0..ticks /\ record[i].tick <= Last.tick
                              /\ record[i].sample <= Last.sample
  /\ ~M!Running \/ mpc = "ticked" => Of(ticks) = {}

\* In a second that node and master agree on, the master expects the successor
\* of what it recorded last.
Exact ==
  M!Running /\ mpc # "ticked" /\ Of(ticks) # {} /\ InStepWith(ticks) =>
    /\ M!Known(nodes, sAddr[Streamer])
    /\ nodes[M!FindNode(nodes, sAddr[Streamer])].exp = Last.index + 1

Telling == OwnStation /\ InOrder /\ Exact /\ GapsAreLosses

GapInv == StreamInv /\ Settling /\ Telling

\* A sample of the running second: the node has heard its TICK, and streams.
LEMMA SampleNow ==
  ASSUME StreamInv, NEW s, Now(s)
  PROVE  epoch = ticks /\ lastTick = ticks /\ Streamed
<1>1. /\ ticks \in Nat /\ lastTick \in 0..ticks /\ epoch \in 0..lastTick
      /\ taken[s].tick \in 0..epoch /\ taken[s].tick = ticks
  BY DEF StreamInv, Counted, Now
<1> QED BY <1>1 DEF Now, Streamed

\* No sample is of a second that only begins.
LEMMA NoSampleYet ==
  ASSUME StreamInv, NEW s, UNCHANGED taken, ticks' = ticks + 1
  PROVE  ~Now(s)'
<1>1. /\ ticks \in Nat /\ lastTick \in 0..ticks /\ epoch \in 0..lastTick
      /\ \A r \in DOMAIN taken : taken[r].tick \in 0..epoch
  BY DEF StreamInv, Counted
<1> QED BY <1>1 DEF Now

\* What is recorded stays as it is, and no later sample or record was lost before it.
LEMMA RecordsKept ==
  ASSUME StreamInv,
         \A s \in DOMAIN taken : s \in DOMAIN taken' /\ taken'[s] = taken[s],
         \A s \in DOMAIN taken' : s \in DOMAIN taken \/ (s \in Nat /\ s > Len(taken)),
         \A i \in DOMAIN record : i \in DOMAIN record' /\ record'[i] = record[i],
         \A i \in DOMAIN record' : i \in DOMAIN record \/ (i \in Nat /\ i > Len(record)),
         NEW i \in DOMAIN record
  PROVE  /\ Earlier(i)' = Earlier(i)
         /\ \A j \in Earlier(i) \cup {i} : SameSecond(j)' = SameSecond(j)
         /\ LostBefore(i)' = LostBefore(i)
<1>1. /\ Len(record) \in Nat /\ DOMAIN record = 1..Len(record)
      /\ Len(taken) \in Nat /\ DOMAIN taken = 1..Len(taken)
  BY ListIs DEF StreamInv, Counted, Recorded
<1>2. \A j \in DOMAIN record : record[j].sample \in DOMAIN taken
  BY DEF StreamInv, Recorded, Under
<1>3. Earlier(i)' = Earlier(i)
  <2>1. ASSUME NEW j \in DOMAIN record', j < i PROVE j \in DOMAIN record
    <3>1. j > Len(record) /\ j \in Nat => ~ (j < i) BY <1>1
    <3> QED BY <2>1, <3>1
  <2> QED BY <2>1 DEF Earlier, Of
<1>4. ASSUME NEW j \in Earlier(i) \cup {i} PROVE SameSecond(j)' = SameSecond(j)
  <2>1. j \in DOMAIN record BY DEF Earlier, Of
  <2> QED BY <1>2, <2>1 DEF SameSecond
<1>5. LostBefore(i)' = LostBefore(i)
  <2>1. ASSUME NEW s \in DOMAIN taken', s < record[i].sample PROVE s \in DOMAIN taken
    <3>1. record[i].sample \in 1..Len(taken) BY <1>1, <1>2
    <3>2. s > Len(taken) /\ s \in Nat => ~ (s < record[i].sample) BY <1>1, <3>1
    <3> QED BY <2>1, <3>2
  <2>2. \A j \in Earlier(i) : j \in DOMAIN record BY DEF Earlier, Of
  <2> QED BY <1>3, <2>1, <2>2 DEF LostBefore
<1> QED BY <1>3, <1>4, <1>5

\* Steps that neither take nor record anything, nor begin a second.
LEMMA StillTold ==
  ASSUME Telling, UNCHANGED <<sAddr, mpc, nodes, ticks, taken, record>>
  PROVE  InOrder' /\ Exact' /\ GapsAreLosses'
<1>1. InOrder' BY DEF Telling, InOrder, Last, Of, M!Running
<1>2. Exact' BY DEF Telling, Exact, Last, Of, InStepWith, SameSecond, M!Running
<1>3. GapsAreLosses' BY DEF Telling, GapsAreLosses, Earlier, Of, SameSecond, LostBefore
<1> QED BY <1>1, <1>2, <1>3

\* While samples of the running second are told of, the node keeps its address.
LEMMA NodeStepsTell ==
  ASSUME GapInv, NodeSteps
  PROVE  Telling'
<1> DEFINE S == Streamer
<1>0. /\ StreamInv /\ NetTypeOK /\ Counted /\ Carried /\ Recorded
      /\ Settling /\ FromMaster /\ Settled
      /\ OwnStation /\ InOrder /\ Exact /\ GapsAreLosses
  BY DEF GapInv, StreamInv, Settling, Telling
<1>1. TypeOK /\ S \in Node /\ Loop(S) /\ tx[S] = <<>>
  BY <1>0, TheStreamer DEF NodeSteps, NodeRuns, NetTypeOK
<1>2. Stamps(S) /\ Moves(S) BY <1>1, LoopStamps, LoopMoves
<1>3. UNCHANGED <<mpc, nodes, mrx, ticks, lastTick, arrived, record>>
  BY DEF NodeSteps, NodeRuns, master
<1>4. /\ Sampled <=> TakesSample(S)
      /\ onWire' = IF Sends THEN Len(taken) ELSE onWire
  BY DEF Sampled, TakesSample, NodeSteps
<1>5. /\ Len(taken) \in Nat /\ DOMAIN taken = 1..Len(taken)
      /\ Len(taken') \in Nat /\ DOMAIN taken' = 1..Len(taken')
      /\ ~Sampled => taken' = taken
      /\ Sampled => Len(taken') = Len(taken) + 1
      /\ \A s \in DOMAIN taken : s \in DOMAIN taken' /\ taken'[s] = taken[s]
      /\ \A s \in DOMAIN taken' : s \in DOMAIN taken \/ (Sampled /\ s = Len(taken'))
      /\ Sampled => taken'[Len(taken')].tick = epoch
  <2>1. Sampled => taken'[Len(taken')] = [tick |-> epoch, index |-> sIndex[S]]
    BY <1>0, TakenGrows
  <2>2. Sampled => taken'[Len(taken')].tick = epoch BY <2>1
  <2> QED BY <1>0, <2>2, TakenGrows
<1>6. ASSUME Streamed, lastTick = ticks PROVE sAddr'[S] = sAddr[S]
  BY <1>0, <1>2, <1>6 DEF Moves, Settled
<1>7. ASSUME NEW s, Now(s) PROVE sAddr'[S] = sAddr[S]
  BY <1>0, <1>6, <1>7, SampleNow
<1>8. OwnStation'
  <2>1. ASSUME Now(Len(taken))' PROVE sDataFrame'[S].station = sAddr'[S]
    <3>1. CASE Sampled
      <4>1. sDataFrame'[S].station = sAddr[S] /\ Live(S) BY <1>2, <1>4, <3>1 DEF Moves
      <4>2. lastTick = ticks
        <5>1. epoch = ticks BY <1>3, <1>5, <2>1, <3>1 DEF Now
        <5> QED BY <1>0, <5>1 DEF Counted
      <4>3. sAddr'[S] = sAddr[S] BY <1>6, <4>1, <4>2 DEF Streamed
      <4> QED BY <4>1, <4>3
    <3>2. CASE ~Sampled
      <4>1. Now(Len(taken)) /\ sDataFrame'[S] = sDataFrame[S]
        BY <1>2, <1>3, <1>4, <1>5, <2>1, <3>2 DEF Now, Stamps
      <4>2. sAddr'[S] = sAddr[S] BY <1>7, <4>1
      <4> QED BY <1>0, <4>1, <4>2 DEF OwnStation
    <3> QED BY <3>1, <3>2
  <2>2. ASSUME Now(onWire)', NEW i \in DOMAIN tx'[S], tx'[S][i].kind = "data"
        PROVE  tx'[S][i].station = sAddr'[S]
    <3>1. Sends /\ tx'[S][i] = sDataFrame[S] BY <1>1, <1>2, <2>2 DEF Sends, Stamps, Buffered
    <3>2. onWire' = Len(taken) /\ ~Sampled BY <1>2, <1>4, <2>2, <3>1 DEF Stamps
    <3>3. Now(Len(taken)) BY <1>3, <1>5, <2>2, <3>2 DEF Now
    <3>4. sAddr'[S] = sAddr[S] BY <1>7, <3>3
    <3> QED BY <1>0, <3>1, <3>3, <3>4 DEF OwnStation
  <2>3. ASSUME Now(arrived)', IsData(mrx'), mrx'.intact
        PROVE  mrx'.station = sAddr'[S]
    <3>1. arrived \in DOMAIN taken
      <4>1. onWire \in 0..Len(taken) /\ arrived \in 0..onWire BY <1>0 DEF Carried
      <4>2. arrived \in 1..Len(taken') BY <1>3, <1>5, <2>3 DEF Now
      <4>3. Len(taken) \in Nat /\ DOMAIN taken = 1..Len(taken) BY <1>5
      <4>4. arrived \in Int /\ 1 <= arrived BY <4>2
      <4> QED BY <4>1, <4>3, <4>4
    <3>2. Now(arrived)
      <4>1. taken'[arrived] = taken[arrived] BY <1>5, <3>1
      <4> QED BY <1>3, <2>3, <3>1, <4>1 DEF Now
    <3>3. sAddr'[S] = sAddr[S] BY <1>7, <3>2
    <3> QED BY <1>0, <1>3, <2>3, <3>2, <3>3 DEF OwnStation
  <2> QED BY <2>1, <2>2, <2>3 DEF OwnStation
<1>9. InOrder' BY <1>0, <1>3 DEF InOrder, Last, Of, M!Running
<1>10. Exact'
  <2> SUFFICES ASSUME M!Running, mpc # "ticked", Of(ticks) # {}, InStepWith(ticks)'
               PROVE  /\ M!Known(nodes, sAddr'[S])
                      /\ nodes[M!FindNode(nodes, sAddr'[S])].exp = Last.index + 1
    BY <1>3 DEF Exact, Last, Of, M!Running
  <2>1. \A i \in DOMAIN record : record[i].sample \in DOMAIN taken
    BY <1>0 DEF Recorded, Under
  <2>2. InStepWith(ticks) BY <1>3, <1>5, <2>1 DEF InStepWith, SameSecond, Of
  <2>3. PICK i \in Of(ticks) : TRUE OBVIOUS
  <2>4. Now(record[i].sample) BY <2>1, <2>2, <2>3 DEF InStepWith, SameSecond, Of, Now
  <2>5. sAddr'[S] = sAddr[S] BY <1>7, <2>4
  <2> QED BY <1>0, <2>2, <2>5 DEF Exact
<1>11. GapsAreLosses'
  <2> SUFFICES ASSUME NEW i \in DOMAIN record,
                      \A j \in Earlier(i)' \cup {i} : SameSecond(j)'
               PROVE  record[i].gap = Cardinality(LostBefore(i)')
    BY <1>3 DEF GapsAreLosses
  <2>1. /\ Earlier(i)' = Earlier(i)
        /\ \A j \in Earlier(i) \cup {i} : SameSecond(j)' = SameSecond(j)
        /\ LostBefore(i)' = LostBefore(i)
    <3>1. Sampled => Len(taken') \in Nat /\ Len(taken') > Len(taken) BY <1>5
    <3>2. \A s \in DOMAIN taken' : s \in DOMAIN taken \/ (s \in Nat /\ s > Len(taken))
      BY <1>5, <3>1
    <3> QED BY <1>0, <1>3, <1>5, <3>2, RecordsKept
  <2> QED BY <1>0, <2>1 DEF GapsAreLosses
<1> QED BY <1>8, <1>9, <1>10, <1>11 DEF Telling

\* A frame of the node leaves its transmitter: it arrives under the address it left with.
LEMMA NodeSendsTell ==
  ASSUME GapInv, NodeSends
  PROVE  Telling'
<1> DEFINE S == Streamer
           f == Head(tx[S])
<1>0. NetTypeOK /\ Carried /\ OwnStation /\ Telling
  BY DEF GapInv, StreamInv, Telling
<1>1. UNCHANGED <<sAddr, sDataFrame, ticks, taken, onWire, record, mpc, nodes>>
  BY DEF NodeSends, NodeTransmits, app, M!Arrives, M!table, master
<1>2. /\ tx[S] \in Seq(Frames) /\ tx[S] # <<>> /\ tx'[S] = Tail(tx[S])
  BY <1>0, TheStreamer DEF NodeSends, NodeTransmits, NetTypeOK, TypeOK, Frames
<1>3. /\ f \in Frames /\ 1 \in DOMAIN tx[S] /\ f = tx[S][1]
      /\ \A i \in DOMAIN tx'[S] : i + 1 \in DOMAIN tx[S] /\ tx'[S][i] = tx[S][i + 1]
  BY <1>2
<1>4. \/ mrx = None /\ mrx' \in {Arriving(f, S), Garbled(f)}
      \/ mrx' = mrx
  BY DEF NodeSends, NodeTransmits, M!Arrives, master
<1>5. arrived' = IF mrx' \notin {None, mrx} THEN onWire ELSE arrived
  BY DEF NodeSends
<1> HIDE DEF f
<1>6. \A s : Now(s)' <=> Now(s) BY <1>1 DEF Now
<1>7. OwnStation'
  <2>1. Now(Len(taken))' => sDataFrame'[S].station = sAddr'[S]
    BY <1>0, <1>1 DEF OwnStation, Now
  <2>2. ASSUME Now(onWire)', NEW i \in DOMAIN tx'[S], tx'[S][i].kind = "data"
        PROVE  tx'[S][i].station = sAddr'[S]
    BY <1>0, <1>1, <1>3, <2>2 DEF OwnStation, Now
  <2>3. ASSUME Now(arrived)', IsData(mrx'), mrx'.intact
        PROVE  mrx'.station = sAddr'[S]
    <3>1. CASE mrx' = mrx
      <4>1. Now(arrived) BY <1>1, <1>5, <2>3, <3>1 DEF Now
      <4> QED BY <1>0, <1>1, <2>3, <3>1, <4>1 DEF OwnStation
    <3>2. CASE mrx = None /\ mrx' \in {Arriving(f, S), Garbled(f)}
      <4>1. mrx' # None /\ mrx'.kind = "data" BY <2>3 DEF IsData
      <4>2. mrx' = f BY <1>3, <2>3, <3>2, <4>1, GarbledShows DEF Arriving
      <4>3. Now(onWire) BY <1>1, <1>5, <2>3, <3>2, <4>1 DEF Now
      <4> QED BY <1>0, <1>1, <1>3, <4>1, <4>2, <4>3 DEF OwnStation
    <3> QED BY <1>4, <3>1, <3>2
  <2> QED BY <2>1, <2>2, <2>3 DEF OwnStation
<1>8. InOrder' /\ Exact' /\ GapsAreLosses' BY <1>0, <1>1, StillTold
<1> QED BY <1>7, <1>8 DEF Telling

\* DRDY, a second of the master's clock, a frame of the master: nothing told of moves.
LEMMA WorldTells ==
  ASSUME GapInv,
         SensorReady \/ Second \/ (MasterTransmits /\ UNCHANGED history) \/ UNCHANGED svars
  PROVE  Telling'
<1>0. Telling /\ OwnStation BY DEF GapInv, Telling
<1>1. /\ UNCHANGED <<sAddr, sDataFrame, tx, mpc, mrx, nodes>>
      /\ UNCHANGED <<ticks, taken, onWire, arrived, record>>
  BY DEF SensorReady, NodeSamples, DrdyIsr, Second, SecondPasses, M!RtcTick, M!bus, M!table,
         MasterTransmits, M!SentOut, M!secs, app, vars, master, history, netvars, svars
<1>2. OwnStation' BY <1>0, <1>1 DEF OwnStation, Now
<1>3. InOrder' /\ Exact' /\ GapsAreLosses' BY <1>0, <1>1, StillTold
<1> QED BY <1>2, <1>3 DEF Telling

\* The master resets: a second begins in which nothing is recorded yet.
LEMMA RestartTells ==
  ASSUME GapInv, Restart
  PROVE  Telling'
<1>0. StreamInv /\ Counted /\ InOrder /\ GapsAreLosses
  BY DEF GapInv, StreamInv, Telling
<1>1. /\ UNCHANGED <<taken, record>> /\ ticks' = ticks + 1 /\ ticks \in Nat
  BY <1>0 DEF Restart, Counted
<1>2. \A s : ~Now(s)' BY <1>0, <1>1, NoSampleYet
<1>3. OwnStation' BY <1>2 DEF OwnStation
<1>4. Of(ticks)' = {}
  <2>1. \A i \in DOMAIN record : record[i].tick \in 0..ticks BY <1>0 DEF InOrder
  <2> QED BY <1>1, <2>1 DEF Of
<1>5. InOrder'
  <2>1. ASSUME NEW i \in DOMAIN record
        PROVE  /\ record[i].tick \in 0..(ticks + 1) /\ record[i].tick <= Last.tick
               /\ record[i].sample <= Last.sample
    <3>1. /\ record[i].tick \in 0..ticks /\ record[i].tick <= Last.tick
          /\ record[i].sample <= Last.sample
      BY <1>0 DEF InOrder
    <3> QED BY <1>1, <3>1
  <2> QED BY <1>1, <1>4, <2>1 DEF InOrder, Last
<1>6. Exact' BY <1>4 DEF Exact
<1>7. GapsAreLosses' BY <1>0, <1>1 DEF GapsAreLosses, Earlier, Of, SameSecond, LostBefore
<1> QED BY <1>3, <1>5, <1>6, <1>7 DEF Telling

\* What every step of the master leaves as it is told: addresses, and who is in step.
LEMMA MasterStepsKeep ==
  ASSUME GapInv, MasterSteps
  PROVE  /\ OwnStation'
         /\ M!Working /\ UNCHANGED <<sAddr, taken>>
         /\ nodes \in Tables /\ nodes' \in Tables
         /\ NewSecond => /\ ticks' = ticks + 1 /\ mpc' = "ticked" /\ ~Stores
         /\ ~NewSecond => ticks' = ticks /\ (mpc' = "ticked" => Of(ticks) = {})
         /\ M!Running => M!Running'
<1> DEFINE S == Streamer
<1>0. StreamInv /\ NetTypeOK /\ MasterTypeOK /\ TicksInTime /\ OwnStation /\ InOrder
  BY DEF GapInv, StreamInv, NetTypeOK, Telling
<1>1. UNCHANGED <<sAddr, sDataFrame, tx, taken, onWire, arrived>> /\ M!Working
  BY DEF MasterSteps, MasterRuns, vars, app
<1>2. /\ ticks' = IF NewSecond THEN ticks + 1 ELSE ticks BY DEF MasterSteps
<1>3. /\ M!Running => M!Running'
      /\ mpc' = "ticked" => mpc = "top" /\ rtc # lastSec
      /\ mpc = "top" /\ rtc # lastSec => mpc' = "ticked"
      /\ mrx' \in {mrx, None}
  BY <1>0, <1>1, WorkingTicks DEF TicksInTime
<1>4. OwnStation'
  <2>1. CASE NewSecond
    <3>1. \A s : ~Now(s)' BY <1>0, <1>1, <1>2, <2>1, NoSampleYet
    <3> QED BY <3>1 DEF OwnStation
  <2>2. CASE ~NewSecond
    <3>1. ~IsData(None) BY DEF IsData
    <3>2. ticks' = ticks BY <1>2, <2>2
    <3> QED BY <1>0, <1>1, <1>3, <3>1, <3>2 DEF OwnStation, Now
  <2> QED BY <2>1, <2>2
<1>5. nodes \in Tables /\ nodes' \in Tables
  <2>1. MasterTypeOK' BY <1>0, <1>1, WorkingType
  <2> QED BY <1>0, <2>1 DEF MasterTypeOK
<1>6. NewSecond => mpc' = "ticked" /\ ~Stores BY <1>3 DEF NewSecond, Stores
<1>7. ~NewSecond => mpc' # "ticked" BY <1>3 DEF NewSecond
<1> QED BY <1>1, <1>2, <1>3, <1>4, <1>5, <1>6, <1>7

\* A step of the master that records nothing.
LEMMA MasterStepsTell ==
  ASSUME GapInv, MasterSteps, ~Stores
  PROVE  Telling'
<1> DEFINE S == Streamer
<1>0. /\ StreamInv /\ MasterTypeOK /\ Counted /\ Recorded
      /\ InOrder /\ Exact /\ GapsAreLosses
  BY DEF GapInv, StreamInv, NetTypeOK, Telling
<1>1. /\ OwnStation'
      /\ M!Working /\ UNCHANGED <<sAddr, taken>>
      /\ nodes \in Tables /\ nodes' \in Tables
      /\ NewSecond => ticks' = ticks + 1 /\ mpc' = "ticked"
      /\ ~NewSecond => ticks' = ticks /\ (mpc' = "ticked" => Of(ticks) = {})
      /\ M!Running => M!Running'
  BY MasterStepsKeep
<1>2. record' = record BY DEF MasterSteps
<1>3. GapsAreLosses' BY <1>0, <1>1, <1>2 DEF GapsAreLosses, Earlier, Of, SameSecond, LostBefore
<1>4. \A i \in DOMAIN record : /\ record[i].tick \in 0..ticks /\ record[i].tick <= Last.tick
                               /\ record[i].sample <= Last.sample
  BY <1>0 DEF InOrder
<1>5. ticks \in Nat BY <1>0 DEF Counted
<1>6. CASE NewSecond
  <2>1. \A i \in DOMAIN record : record[i].tick \in 0..(ticks + 1) /\ record[i].tick # ticks + 1
    BY <1>4, <1>5
  <2>2. Of(ticks)' = {} BY <1>1, <1>2, <1>6, <2>1 DEF Of
  <2>3. InOrder' BY <1>1, <1>2, <1>4, <1>6, <2>1, <2>2 DEF InOrder, Last
  <2>4. Exact' BY <2>2 DEF Exact
  <2> QED BY <1>1, <1>3, <2>3, <2>4 DEF Telling
<1>7. CASE ~NewSecond
  <2>1. Of(ticks)' = Of(ticks) /\ InStepWith(ticks)' = InStepWith(ticks) /\ Last' = Last
    BY <1>1, <1>2, <1>7 DEF Of, InStepWith, SameSecond, Last
  <2>2. InOrder'
    BY <1>0, <1>1, <1>2, <1>4, <1>7, <2>1 DEF InOrder
  <2>3. Exact'
    <3> SUFFICES ASSUME Of(ticks) # {}, InStepWith(ticks)
                 PROVE  /\ M!Known(nodes', sAddr[S])
                        /\ nodes'[M!FindNode(nodes', sAddr[S])].exp = Last.index + 1
      BY <1>1, <2>1 DEF Exact
    <3> DEFINE a == sAddr[S]
    <3>1. M!Running /\ mpc # "ticked" BY <1>0 DEF InOrder
    <3>2. M!Known(nodes, a) /\ nodes[M!FindNode(nodes, a)].exp = Last.index + 1
      BY <1>0, <3>1 DEF Exact
    <3>3. Undisturbed(nodes, nodes') BY <1>0, <1>1, <3>1, WorkingUndisturbed
    <3> HIDE DEF a
    <3>4. M!Known(nodes', a) /\ M!FindNode(nodes', a) = M!FindNode(nodes, a)
      BY <1>1, <3>2, <3>3, FoundAgain DEF Undisturbed
    <3>5. M!FindNode(nodes, a) \in DOMAIN nodes BY <1>1, <3>2, FirstFound DEF First
    <3>6. nodes'[M!FindNode(nodes', a)].exp = Last.index + 1
      BY <3>2, <3>3, <3>4, <3>5 DEF Undisturbed
    <3> QED BY <3>4, <3>6 DEF a
  <2> QED BY <1>1, <1>3, <2>2, <2>3 DEF Telling
<1> QED BY <1>6, <1>7

\* What the master finds out when it records a sample of a second it agrees on.
Expecting == nodes[M!FindNode(nodes, mrx.station)].exp

LEMMA StoresTells ==
  ASSUME GapInv, MasterSteps, Stores, Now(arrived), InStepWith(ticks)
  PROVE  /\ mrx.station = sAddr[Streamer]
         /\ Base \in Nat /\ arrived \in Nat /\ arrived > Base /\ mrx.index = arrived - Base - 1
         /\ (mrx.index + 1) % IndexMod = mrx.index + 1
         /\ \A s \in DOMAIN taken : s \in Nat /\ (taken[s].tick = ticks <=> s > Base)
         /\ Of(ticks) = {} => Expecting = 0
         /\ Of(ticks) # {} => /\ Len(record) \in Of(ticks)
                              /\ Last.sample \in Nat /\ Base < Last.sample /\ Last.sample <= arrived
                              /\ Last.index = Last.sample - Base - 1
                              /\ Expecting = Last.index + 1
<1> DEFINE S == Streamer
<1>0. /\ StreamInv /\ NetTypeOK /\ MasterTypeOK /\ Counted /\ Carried /\ Recorded /\ BelowNext
      /\ FromRecords /\ Consecutive /\ OwnStation /\ InOrder /\ Exact
  BY DEF GapInv, StreamInv, NetTypeOK, Settling, Telling
<1>1. /\ mpc = "recv" /\ mrx # None /\ mrx.kind = "data" /\ mrx.intact
      /\ M!Known(nodes, mrx.station) /\ M!FindNode(nodes, mrx.station) \in DOMAIN nodes
  <2>1. M!Working BY DEF MasterSteps, MasterRuns
  <2> QED BY <1>0, <2>1, StoringCatchesUp DEF Stores, M!IngestResult
<1>2. M!Running /\ mpc # "ticked" BY <1>1 DEF M!Running
<1>3. epoch = ticks BY <1>0, SampleNow
<1>4. /\ sIndex[S] \in 0..(IndexMod - 1) /\ IndexMod \in Nat \ {0, 1}
      /\ Len(taken) \in Nat /\ DOMAIN taken = 1..Len(taken)
      /\ Len(record) \in Nat /\ DOMAIN record = 1..Len(record)
  BY <1>0, TheStreamer, NodeAssumption, ListIs
  DEF NetTypeOK, TypeOK, Counted, Recorded
<1>5. /\ sIndex[S] <= Len(taken)
      /\ \A s \in DOMAIN taken : /\ taken[s].tick = ticks <=> s > Base
                                 /\ s > Base => taken[s].index = s - Base - 1
  BY <1>0, <1>3 DEF Consecutive
<1>6. Base \in Nat BY <1>4, <1>5 DEF Base
<1>7. arrived \in DOMAIN taken /\ taken[arrived].tick = ticks /\ taken[arrived].index = mrx.index
  BY <1>0, <1>1 DEF Carried, Under, Now
<1>8. arrived \in Nat /\ arrived > Base /\ mrx.index = arrived - Base - 1
  BY <1>4, <1>5, <1>7
<1>9. (mrx.index + 1) % IndexMod = mrx.index + 1
  <2>1. mrx.index < sIndex[S] BY <1>0, <1>3, <1>7 DEF BelowNext
  <2>2. mrx.index + 1 \in Nat /\ mrx.index + 1 < IndexMod BY <1>4, <1>6, <1>8, <2>1
  <2> QED BY <1>4, <2>2, SmallMod
<1>10. mrx.station = sAddr[S] BY <1>0, <1>1 DEF OwnStation, IsData
<1>11. \A s \in DOMAIN taken : s \in Nat /\ (taken[s].tick = ticks <=> s > Base) BY <1>4, <1>5
<1>12. Of(ticks) = {} => Expecting = 0
  <2> SUFFICES ASSUME Of(ticks) = {} PROVE Expecting = 0 OBVIOUS
  <2>1. After(ticks) = {} BY DEF After
  <2>2. Expected \subseteq {0} BY <1>0, <1>2, <2>1 DEF FromRecords
  <2> QED BY <1>1, <2>2 DEF Expected, Expecting
<1>13. ASSUME Of(ticks) # {}
       PROVE  /\ Len(record) \in Of(ticks)
              /\ Last.sample \in Nat /\ Base < Last.sample /\ Last.sample <= arrived
              /\ Last.index = Last.sample - Base - 1
              /\ Expecting = Last.index + 1
  <2>1. PICK i \in DOMAIN record : record[i].tick = ticks BY <1>13 DEF Of
  <2>2. Len(record) \in DOMAIN record BY <1>4
  <2>3. ticks <= Last.tick /\ Last.tick \in 0..ticks /\ ticks \in Nat
    BY <1>0, <2>1, <2>2 DEF InOrder, Last, Counted
  <2>4. Last.tick = ticks BY <2>3
  <2>5. Len(record) \in Of(ticks) BY <2>2, <2>4 DEF Of, Last
  <2>6. taken[Last.sample].tick = ticks BY <2>4, <2>5 DEF InStepWith, SameSecond, Last
  <2>7. /\ Last.sample \in 1..arrived /\ Last.sample \in DOMAIN taken
        /\ taken[Last.sample].index = Last.index
    BY <1>0, <2>2 DEF Recorded, Under, Last
  <2>8. Last.sample > Base /\ Last.index = Last.sample - Base - 1 BY <1>5, <2>6, <2>7
  <2>9. Expecting = Last.index + 1 BY <1>0, <1>2, <1>10, <1>13 DEF Exact, Expecting
  <2> QED BY <1>8, <2>5, <2>7, <2>8, <2>9
<1> QED BY <1>6, <1>8, <1>9, <1>10, <1>11, <1>12, <1>13

\* So the gap of the record counts the samples between it and the one before.
LEMMA GapCounts ==
  ASSUME GapInv, MasterSteps, Stores, Now(arrived), InStepWith(ticks)
  PROVE  Gap = Cardinality({s \in DOMAIN taken : /\ taken[s].tick = ticks /\ s < arrived
                                                 /\ \A j \in Of(ticks) : record[j].sample < s})
<1> DEFINE x == mrx.index
           lost == {s \in DOMAIN taken : /\ taken[s].tick = ticks /\ s < arrived
                                         /\ \A j \in Of(ticks) : record[j].sample < s}
<1>1. /\ Base \in Nat /\ arrived \in Nat /\ arrived > Base /\ x = arrived - Base - 1
      /\ \A s \in DOMAIN taken : s \in Nat /\ (taken[s].tick = ticks <=> s > Base)
      /\ Of(ticks) = {} => Expecting = 0
      /\ Of(ticks) # {} => /\ Len(record) \in Of(ticks)
                           /\ Last.sample \in Nat /\ Base < Last.sample /\ Last.sample <= arrived
                           /\ Last.index = Last.sample - Base - 1
                           /\ Expecting = Last.index + 1
  BY StoresTells
<1>2. Gap = IF x >= Expecting THEN x - Expecting ELSE 0 BY DEF Gap, Expecting
<1>3. Len(taken) \in Nat /\ DOMAIN taken = 1..Len(taken) /\ arrived \in DOMAIN taken
  BY ListIs DEF GapInv, StreamInv, Counted, Now
<1> HIDE DEF x
<1>4. CASE Of(ticks) = {}
  <2>1. lost = (Base + 1)..(arrived - 1)
    <3>1. ASSUME NEW s \in (Base + 1)..(arrived - 1) PROVE s \in lost
      <4>1. s \in DOMAIN taken /\ s > Base /\ s < arrived BY <1>1, <1>3
      <4> QED BY <1>1, <1>4, <4>1
    <3>2. ASSUME NEW s \in lost PROVE s \in (Base + 1)..(arrived - 1)
      <4>1. s \in Nat /\ s > Base /\ s < arrived BY <1>1
      <4> QED BY <1>1, <4>1
    <3> HIDE DEF lost
    <3> QED BY <3>1, <3>2
  <2>2. Gap = arrived - Base - 1 BY <1>1, <1>2, <1>4
  <2>3. Cardinality((Base + 1)..(arrived - 1)) = arrived - Base - 1
    <3> DEFINE a == Base + 1
               b == arrived - 1
    <3>1. a \in Int /\ b \in Int BY <1>1
    <3> HIDE DEF a, b
    <3>2. Cardinality(a..b) = IF a > b THEN 0 ELSE b - a + 1 BY <3>1, FS_Interval
    <3> QED BY <1>1, <3>2 DEF a, b
  <2> QED BY <2>1, <2>2, <2>3
<1>5. CASE Of(ticks) # {}
  <2> DEFINE last == Last.sample
  <2>1. /\ Len(record) \in Of(ticks) /\ last \in Nat /\ Base < last /\ last <= arrived
        /\ Expecting = last - Base
        /\ record[Len(record)].sample = last
    BY <1>1, <1>5 DEF Last
  <2>2. \A j \in Of(ticks) : record[j].sample \in Nat /\ record[j].sample <= last
    BY DEF GapInv, StreamInv, Recorded, Telling, InOrder, Of
  <2> HIDE DEF last
  <2>3. lost = (last + 1)..(arrived - 1)
    <3>1. ASSUME NEW s \in (last + 1)..(arrived - 1) PROVE s \in lost
      <4>1. s \in DOMAIN taken /\ s > Base /\ s < arrived /\ s > last /\ s \in Nat
        BY <1>1, <1>3, <2>1
      <4>2. \A j \in Of(ticks) : record[j].sample < s BY <2>1, <2>2, <4>1
      <4> QED BY <1>1, <4>1, <4>2
    <3>2. ASSUME NEW s \in lost PROVE s \in (last + 1)..(arrived - 1)
      <4>1. s \in Nat /\ s < arrived /\ last < s BY <1>1, <2>1
      <4> QED BY <1>1, <2>1, <4>1
    <3> HIDE DEF lost
    <3> QED BY <3>1, <3>2
  <2>4. /\ last < arrived => Gap = arrived - last - 1
        /\ last = arrived => Gap = 0
    BY <1>1, <1>2, <2>1
  <2>5. /\ last < arrived => Cardinality((last + 1)..(arrived - 1)) = arrived - last - 1
        /\ last = arrived => Cardinality((last + 1)..(arrived - 1)) = 0
    <3> DEFINE a == last + 1
               b == arrived - 1
    <3>1. a \in Int /\ b \in Int BY <1>1, <2>1
    <3> HIDE DEF a, b
    <3>2. Cardinality(a..b) = IF a > b THEN 0 ELSE b - a + 1 BY <3>1, FS_Interval
    <3> QED BY <1>1, <2>1, <3>2 DEF a, b
  <2>6. last < arrived \/ last = arrived BY <1>1, <2>1
  <2>7. Gap = Cardinality((last + 1)..(arrived - 1)) BY <2>4, <2>5, <2>6
  <2> QED BY <2>3, <2>7
<1> QED BY <1>4, <1>5

\* A step of the master that records a sample.
LEMMA MasterStoresTell ==
  ASSUME GapInv, MasterSteps, Stores
  PROVE  Telling'
<1> DEFINE S == Streamer
           e == [sample |-> arrived, index |-> mrx.index, tick |-> ticks, gap |-> Gap]
<1> PICK n : n = Len(record) + 1 OBVIOUS
<1>0. /\ StreamInv /\ MasterTypeOK /\ Counted /\ Carried /\ Recorded
      /\ InOrder /\ Exact /\ GapsAreLosses
  BY DEF GapInv, StreamInv, NetTypeOK, Telling
<1>1. /\ OwnStation'
      /\ M!Working /\ UNCHANGED <<sAddr, taken>>
      /\ nodes \in Tables /\ nodes' \in Tables
      /\ ticks' = ticks /\ M!Running /\ M!Running' /\ mpc' # "ticked"
  <2>1. mpc = "recv" /\ ~NewSecond BY DEF Stores, NewSecond
  <2>2. M!Running BY <2>1 DEF M!Running
  <2>3. mpc' # "ticked"
    <3>1. M!Working /\ (mpc = "ticked" => now = rtc)
      BY <2>1 DEF MasterSteps, MasterRuns
    <3> QED BY <2>1, <3>1, WorkingTicks
  <2> QED BY <2>1, <2>2, <2>3, MasterStepsKeep
<1>2. record' = Append(record, e) /\ e.sample = arrived /\ e.index = mrx.index
      /\ e.tick = ticks /\ e.gap = Gap
  BY DEF MasterSteps
<1> HIDE DEF e
<1>3. /\ Len(record) \in Nat /\ DOMAIN record = 1..Len(record)
      /\ DOMAIN record' = 1..n /\ record'[n] = e /\ Len(record') = n
      /\ \A i \in DOMAIN record : i \in DOMAIN record' /\ record'[i] = record[i]
      /\ \A i \in DOMAIN record' : i \in DOMAIN record \/ i = n
      /\ n \in Nat /\ n > Len(record) /\ n \notin DOMAIN record /\ n \in DOMAIN record'
  <2>1. IsList(record) BY <1>0 DEF Recorded
  <2>2. /\ Len(record) \in Nat /\ DOMAIN record = 1..Len(record)
        /\ DOMAIN record' = 1..n /\ record'[n] = e /\ Len(record') = n
        /\ \A i \in 1..Len(record) : record'[i] = record[i]
    BY <1>2, <2>1, Appended
  <2>3. /\ \A i \in 1..Len(record) : i \in 1..n
        /\ \A i \in 1..n : i \in 1..Len(record) \/ i = n
        /\ n \in Nat /\ n > Len(record) /\ n \notin 1..Len(record) /\ n \in 1..n
    BY <2>2
  <2> QED BY <2>2, <2>3
<1>4. Last' = e BY <1>3 DEF Last
<1>5. ticks \in Nat /\ \A i \in DOMAIN record : record[i].tick \in 0..ticks
                                               /\ record[i].sample \in 1..arrived
  BY <1>0 DEF Counted, InOrder, Recorded
<1>6. arrived \in Nat /\ Len(taken) \in Nat /\ DOMAIN taken = 1..Len(taken)
  <2>1. Len(taken) \in Nat /\ DOMAIN taken = 1..Len(taken) BY <1>0, ListIs DEF Counted
  <2>2. onWire \in 0..Len(taken) /\ arrived \in 0..onWire BY <1>0 DEF Carried
  <2> QED BY <2>1, <2>2
<1>7. InOrder'
  <2>1. ASSUME NEW i \in DOMAIN record'
        PROVE  /\ record'[i].tick \in 0..ticks /\ record'[i].tick <= ticks
               /\ record'[i].sample <= arrived
    <3>1. CASE i \in DOMAIN record BY <1>3, <1>5, <1>6, <3>1
    <3>2. CASE i = n BY <1>2, <1>3, <1>5, <1>6, <3>2
    <3> QED BY <1>3, <3>1, <3>2
  <2> QED BY <1>1, <1>2, <1>4, <2>1 DEF InOrder
<1>8. Of(ticks)' = Of(ticks) \cup {n} BY <1>1, <1>2, <1>3 DEF Of
<1>9. \A j \in Of(ticks) : SameSecond(j)' = SameSecond(j)
  BY <1>1, <1>3 DEF SameSecond, Of
<1>10. SameSecond(n)' => Now(arrived)
  <2>1. Under(arrived, mrx.index)
    <3>1. mrx.intact BY DEF Stores, M!IngestResult, M!DataDecode
    <3> QED BY <1>0, <3>1 DEF Carried, Stores
  <2> QED BY <1>1, <1>2, <1>3, <2>1 DEF SameSecond, Under, Now
<1>11. Exact'
  <2> SUFFICES ASSUME InStepWith(ticks)'
               PROVE  /\ M!Known(nodes', sAddr[S])
                      /\ nodes'[M!FindNode(nodes', sAddr[S])].exp = mrx.index + 1
    BY <1>1, <1>2, <1>4 DEF Exact
  <2>1. Now(arrived) /\ InStepWith(ticks)
    BY <1>1, <1>8, <1>9, <1>10 DEF InStepWith
  <2>2. /\ mrx.station = sAddr[S] /\ (mrx.index + 1) % IndexMod = mrx.index + 1
        /\ Base \in Nat /\ arrived \in Nat /\ arrived > Base /\ mrx.index = arrived - Base - 1
        /\ Of(ticks) = {} => Expecting = 0
        /\ Of(ticks) # {} => /\ Last.sample \in Nat /\ Last.sample <= arrived
                             /\ Last.index = Last.sample - Base - 1
                             /\ Expecting = Last.index + 1
    BY <2>1, StoresTells
  <2> DEFINE i == M!FindNode(nodes, mrx.station)
  <2>3. /\ M!Known(nodes', mrx.station) /\ M!FindNode(nodes', mrx.station) = i
        /\ nodes'[i].exp = IF mrx.index >= nodes[i].exp THEN (mrx.index + 1) % IndexMod
                                                        ELSE nodes[i].exp
    BY <1>0, <1>1, StoringCatchesUp
  <2>4. nodes[i].exp = Expecting BY DEF Expecting
  <2> HIDE DEF i
  <2>5. nodes'[i].exp = mrx.index + 1 BY <2>2, <2>3, <2>4
  <2> QED BY <2>2, <2>3, <2>5
<1>12. GapsAreLosses'
  <2> SUFFICES ASSUME NEW i \in DOMAIN record',
                      \A j \in Earlier(i)' \cup {i} : SameSecond(j)'
               PROVE  record'[i].gap = Cardinality(LostBefore(i)')
    BY DEF GapsAreLosses
  <2>1. CASE i \in DOMAIN record
    <3>1. /\ Earlier(i)' = Earlier(i)
          /\ \A j \in Earlier(i) \cup {i} : SameSecond(j)' = SameSecond(j)
          /\ LostBefore(i)' = LostBefore(i)
      BY <1>0, <1>1, <1>3, <2>1, RecordsKept
    <3> QED BY <1>0, <1>3, <2>1, <3>1 DEF GapsAreLosses
  <2>2. CASE i = n
    <3>1. Earlier(n)' = Of(ticks)
      <4>1. \A j \in Of(ticks) : j < n /\ j # n BY <1>3 DEF Of
      <4>2. ~ (n < n) BY <1>3
      <4>3. Earlier(n)' = {j \in Of(ticks) \cup {n} : j < n}
        BY <1>1, <1>2, <1>3, <1>8 DEF Earlier, Of
      <4> QED BY <4>1, <4>2, <4>3
    <3>2. Now(arrived) /\ InStepWith(ticks)
      <4>1. \A j \in Of(ticks) : SameSecond(j) BY <1>9, <2>2, <3>1
      <4> QED BY <1>10, <2>2, <4>1 DEF InStepWith
    <3>3. LostBefore(n)' = {s \in DOMAIN taken : /\ taken[s].tick = ticks /\ s < arrived
                                                 /\ \A j \in Of(ticks) : record[j].sample < s}
      <4>1. \A j \in Of(ticks) : record'[j] = record[j] BY <1>3 DEF Of
      <4> QED BY <1>1, <1>2, <1>3, <3>1, <4>1 DEF LostBefore
    <3> QED BY <1>2, <1>3, <2>2, <3>2, <3>3, GapCounts
  <2> QED BY <1>3, <2>1, <2>2
<1> QED BY <1>1, <1>7, <1>11, <1>12 DEF Telling

LEMMA StreamTells == GapInv /\ [StreamNext]_svars => Telling'
BY NodeStepsTell, NodeSendsTell, WorldTells, RestartTells, MasterStepsTell, MasterStoresTell
DEF StreamNext

LEMMA StreamInitTells == StreamInit => Telling
<1> SUFFICES ASSUME StreamInit PROVE Telling OBVIOUS
<1>1. taken = <<>> /\ record = <<>> /\ mpc = "discover" BY DEF StreamInit, NetInit, M!Init
<1> QED
  BY <1>1
  DEF Telling, OwnStation, InOrder, Exact, GapsAreLosses, Now, Of, M!Running

\* As long as node and master agree on the second, the gaps of the record count
\* the samples that were lost, each once and where it is missing, whatever the bus
\* loses, damages or repeats and whenever the master restarts.
THEOREM StreamGaps == StreamSpec => []GapsAreLosses
<1>1. StreamInit => GapInv BY StreamInitInv, StreamInitSettled, StreamInitTells DEF GapInv
<1>2. GapInv /\ [StreamNext]_svars => GapInv'
  BY StreamStepInv, StreamSettles, StreamTells DEF GapInv
<1>3. GapInv => GapsAreLosses BY DEF GapInv, Telling
<1> QED BY <1>1, <1>2, <1>3, PTL DEF StreamSpec
=============================================================================
