--------------------------- MODULE NicNodeProofs ---------------------------
EXTENDS NicNode, SequenceTheorems, TLAPS

Frames == DataFrames \cup ReplyFrames

(* What the helpers of the receive handlers return.                        *)

LEMMA StepType ==
  ASSUME NEW s \in State, NEW ev
  PROVE  /\ NicNodeStep(s, ev).state \in State
         /\ Perform(NicNodeStep(s, ev).action) \in Point
BY DEF NicNodeStep, Step, Perform, State, Point, SwitchPoint, RecoverPoint, SyncedPoint

LEMMA EndIterationType ==
  ASSUME TypeOK, NEW n \in Node, NEW ev, EndIteration(n, ev)
  PROVE  st' \in [Node -> State] /\ pc' \in [Node -> Point]
<1>0. st[n] \in State BY DEF TypeOK
<1>1. CASE ev = "NO_EVENT"
  BY <1>1 DEF TypeOK, EndIteration, Point
<1>2. CASE ev # "NO_EVENT"
  <2>1. /\ NicNodeStep(st[n], ev).state \in State
        /\ Perform(NicNodeStep(st[n], ev).action) \in Point
    BY <1>0, StepType
  <2>2. /\ st' = [st EXCEPT ![n] = NicNodeStep(st[n], ev).state]
        /\ pc' = [pc EXCEPT ![n] = Perform(NicNodeStep(st[n], ev).action)]
    BY <1>2 DEF EndIteration
  <2> QED BY <2>1, <2>2 DEF TypeOK
<1> QED BY <1>1, <1>2

LEMMA SendReplyType ==
  ASSUME NEW a \in Addr, NEW r \in Reply \cup {None}
  PROVE  SendReply(a, r) \in Seq(Frames)
<1>1. CASE r = None
  BY <1>1 DEF SendReply
<1>2. CASE r # None
  <2> CtrlFrame(a, r.op, r.val) \in Frames BY <1>2 DEF Frames, ReplyFrames
  <2> QED BY <1>2 DEF SendReply
<1> QED BY <1>1, <1>2

LEMMA SendDataType ==
  ASSUME TypeOK, NEW n \in Node
  PROVE  SendData(n) \in Seq(Frames)
<1>1. CASE sDataFrame[n] = None
  BY <1>1 DEF SendData
<1>2. CASE sDataFrame[n] # None
  <2> sDataFrame[n] \in Frames BY <1>2 DEF TypeOK, Frames
  <2> QED BY <1>2 DEF SendData
<1> QED BY <1>1, <1>2

LEMMA SlotFramesType ==
  ASSUME TypeOK, NEW n \in Node
  PROVE  SlotFrames(n) \in Seq(Frames)
<1> sAddr[n] \in Addr /\ sReply[n] \in Reply \cup {None} BY DEF TypeOK
<1> QED BY SendReplyType, SendDataType DEF SlotFrames

LEMMA HandledType ==
  ASSUME TypeOK, NEW n \in Node, NEW a \in Addr, NEW i \in 0..(IndexMod - 1),
         NEW r \in Reply \cup {None}, NEW out \in Seq(Frames), NEW ev,
         Handled(n, a, i, r, out, ev)
  PROVE  TypeOK'
<1>1. st' \in [Node -> State] /\ pc' \in [Node -> Point]
  BY EndIterationType DEF Handled
<1>2. tx' \in [Node -> Seq(Frames)] /\ sReply' \in [Node -> Reply \cup {None}]
  <2>1. SendReply(a, r) \in Seq(Frames) BY SendReplyType
  <2>2. out \o SendReply(a, r) \in Seq(Frames) BY <2>1, ConcatProperties
  <2>3. tx \in [Node -> Seq(Frames)] BY DEF TypeOK, Frames
  <2> QED BY <2>2, <2>3 DEF Handled, TypeOK
<1>3. /\ rx' \in [Node -> Heard \cup {None}]
      /\ sAddr' \in [Node -> Addr]
      /\ sIndex' \in [Node -> 0..(IndexMod - 1)]
  BY DEF Handled, TypeOK
<1>4. UNCHANGED <<sMap, sHkDiv, sDataFrame, cal, clock, clkLost, drdy, clkIn>>
  BY DEF Handled
<1> QED BY <1>1, <1>2, <1>3, <1>4 DEF TypeOK, clock, Frames

(* What a received control frame carries.                                  *)
LEMMA HeardCtrl ==
  ASSUME TypeOK, NEW n \in Node, IsCtrl(n)
  PROVE  rx[n].op = "ASSIGN_ADDR" => rx[n].val \in Slot
<1>1. rx[n] \in Heard BY DEF TypeOK, IsCtrl
<1>2. PICK op \in Op : \E a \in Addr \cup {Broadcast}, v \in Val(op) :
                         rx[n] = CtrlFrame(a, op, v)
  BY <1>1 DEF IsCtrl, Heard, Undecodable
<1> QED BY <1>2 DEF CtrlFrame, Val

LEMMA SetConstants ==
  /\ \A i \in 0..(IndexMod - 1) : (i + 1) % IndexMod \in 0..(IndexMod - 1)
  /\ 0 \in 0..(IndexMod - 1)
  /\ \A d \in 0..(HkDiv - 1) : HkAfter(d) \in 0..(HkDiv - 1)
  /\ 0 \in 0..(HkDiv - 1)
BY NodeAssumption DEF HkAfter

LEMMA InitType == Init => TypeOK
<1> SUFFICES ASSUME Init PROVE TypeOK OBVIOUS
<1>1. 0 \in 0..(IndexMod - 1) /\ 0 \in 0..(HkDiv - 1) BY SetConstants
<1>2. <<>> \in Seq(DataFrames \cup ReplyFrames) OBVIOUS
<1> QED
  BY <1>1, <1>2, NodeAssumption
  DEF Init, TypeOK, State, Point, SensorMap

LEMMA ReceiveType ==
  ASSUME TypeOK, NEW n \in Node, Receive(n)
  PROVE  TypeOK'
<1>1. /\ sAddr[n] \in Addr /\ sIndex[n] \in 0..(IndexMod - 1)
      /\ sReply[n] \in Reply \cup {None} /\ sMap[n] \in SensorMap
  BY DEF TypeOK
<1>2. <<>> \in Seq(Frames) OBVIOUS
<1>3. \A op, val : [op |-> op, val |-> val] \in Reply /\ Answers(n, op, val) => TypeOK'
  BY <1>1, <1>2, HandledType DEF Answers
<1>4. \A ev : Raises(n, ev) => TypeOK'
  BY <1>1, <1>2, HandledType DEF Raises
<1>5. CASE OnDiscover(n)
  BY <1>1, <1>3, <1>5 DEF OnDiscover, Reply
<1>6. CASE OnQuery(n)
  BY <1>3, <1>6 DEF OnQuery, Reply
<1>7. CASE OnCfg(n)
  BY <1>3, <1>7 DEF OnCfg, Reply
<1>8. CASE OnAssign(n)
  <2>1. rx[n].val \in Addr
    BY <1>8, HeardCtrl, NodeAssumption DEF OnAssign, Command
  <2>2. [op |-> "ACK", val |-> "ASSIGN_ADDR"] \in Reply BY DEF Reply
  <2> QED BY <1>1, <1>2, <1>8, <2>1, <2>2, HandledType DEF OnAssign
<1>9. CASE OnCalibrate(n) \/ OnSync(n) \/ OnHardReset(n) \/ OnOther(n)
  BY <1>4, <1>9 DEF OnCalibrate, OnSync, OnHardReset, OnOther
<1>10. CASE OnTick(n)
  BY <1>1, <1>2, <1>10, SetConstants, HandledType DEF OnTick
<1>11. CASE OnResend(n)
  BY <1>1, <1>11, SendDataType, HandledType DEF OnResend
<1>12. CASE OnToken(n)
  <2> DEFINE error == <<CtrlFrame(sAddr[n], "ERROR", "CLOCK_LOST")>>
             out   == IF st[n] = "SYNCED" THEN SlotFrames(n) ELSE error
  <2>1. CtrlFrame(sAddr[n], "ERROR", "CLOCK_LOST") \in Frames
    <3>1. [op |-> "ERROR", val |-> "CLOCK_LOST"] \in Reply BY DEF Reply
    <3> QED BY <1>1, <3>1 DEF Frames, ReplyFrames
  <2>2. out \in Seq(Frames) BY <2>1, SlotFramesType
  <2>3. Handled(n, sAddr[n], sIndex[n], None, out, "NO_EVENT") BY <1>12 DEF OnToken
  <2> HIDE DEF out
  <2> QED BY <1>1, <2>2, <2>3, HandledType
<1>13. CASE NoCtrl(n)
  BY <1>13 DEF NoCtrl, TypeOK, app, clock, Point
<1> QED
  BY <1>5, <1>6, <1>7, <1>8, <1>9, <1>10, <1>11, <1>12, <1>13 DEF Receive

\* A register poke moves the program counter and at most the clock hardware.
LEMMA PokeType ==
  ASSUME TypeOK, NEW n \in Node, NEW from, NEW to \in Point, Poke(n, from, to),
         sysclk' \in [Node -> {"RC", "HSE"}],
         pin' \in [Node -> {"RX", "HSE_IN"}],
         uart2' \in [Node -> {"on", "irq_off", "off"}]
  PROVE  TypeOK'
BY DEF TypeOK, Poke, app

LEMMA LoopType ==
  ASSUME TypeOK, NEW n \in Node, Loop(n)
  PROVE  TypeOK'
<1> USE DEF TypeOK
<1>1. CASE Boot(n)
  BY <1>1, EndIterationType, NodeAssumption DEF Boot, clock
<1>2. CASE Detect(n)
  BY <1>2, EndIterationType DEF Detect, SensorMap, clock
<1>3. CASE InitSensors(n)
  BY <1>3, EndIterationType, NodeAssumption DEF InitSensors, clock
<1>4. CASE LeaveFault(n)
  BY <1>4, EndIterationType DEF LeaveFault, app, clock
<1>5. CASE TakeClockLost(n)
  BY <1>5, EndIterationType DEF TakeClockLost, app, clock
<1>6. CASE ClockStillThere(n) \/ NoSample(n) \/ SlotNotDue(n)
  <2>1. pc' \in [Node -> Point]
    BY <1>6 DEF ClockStillThere, NoSample, SlotNotDue, Point, SyncedPoint
  <2>2. UNCHANGED <<st, app, clock, clkLost, drdy, clkIn, rx, tx>>
    BY <1>6 DEF ClockStillThere, NoSample, SlotNotDue
  <2> QED BY <2>1, <2>2 DEF app, clock
<1>7. CASE SampleToBuffer(n)
  <2>1. DataFrame(sAddr[n], sIndex[n], PayloadLen(sMap[n])) \in DataFrames
    BY DEF DataFrames
  <2> QED
    BY <1>7, <2>1, SetConstants
    DEF SampleToBuffer, clock, Point, SyncedPoint
<1>8. CASE SendSlot(n)
  BY <1>8, SlotFramesType DEF SendSlot, Frames, clock, Point, SyncedPoint
<1>9. CASE Receive(n)
  BY <1>9, ReceiveType
<1>10. CASE Calibrate(n)
  <2>1. [op |-> "ACK", val |-> "CALIBRATE"] \in Reply BY DEF Reply
  <2> QED BY <1>10, <2>1 DEF Calibrate, clock, Point
<1>11. CASE SwitchToHse(n)
  <2>1. NicNodeStep(st[n], "HSE_OK").state \in State BY StepType
  <2>2. CASE Uart2DisableIrq(n)
    <3>1. "deinit" \in Point BY DEF Point, SwitchPoint
    <3>2. uart2' \in [Node -> {"on", "irq_off", "off"}] BY <2>2 DEF Uart2DisableIrq
    <3> QED BY <2>2, <3>1, <3>2, PokeType DEF Uart2DisableIrq
  <2>7. CASE Uart2Deinit(n)
    BY <2>7, PokeType DEF Uart2Deinit, Point, SwitchPoint
  <2>3. CASE RemapRxToHse(n)
    BY <2>3, PokeType DEF RemapRxToHse, Point, SwitchPoint
  <2>4. CASE SelectHse(n)
    BY <2>4, PokeType DEF SelectHse, Point, SwitchPoint
  <2>5. CASE PllLocked(n)
    BY <2>1, <2>5 DEF PllLocked, app, clock, Point
  <2>6. CASE PllTimeout(n)
    BY <2>6, PokeType DEF PllTimeout, clock, Point
  <2> QED BY <1>11, <2>2, <2>3, <2>4, <2>5, <2>6, <2>7 DEF SwitchToHse
<1>12. CASE Recover(n)
  <2>1. CASE RemapHseToRx(n)
    BY <2>1, PokeType DEF RemapHseToRx, Point, RecoverPoint
  <2>2. CASE Uart2Reinit(n)
    BY <2>2, PokeType DEF Uart2Reinit, Point, RecoverPoint
  <2>3. CASE SelectRc(n)
    BY <2>3, PokeType DEF SelectRc, Point
  <2> QED BY <1>12, <2>1, <2>2, <2>3 DEF Recover
<1>13. CASE Transmitted(n)
  BY <1>13, HeadTailProperties DEF Transmitted, app, clock
<1> QED
  BY <1>1, <1>2, <1>3, <1>4, <1>5, <1>6, <1>7, <1>8, <1>9, <1>10, <1>11, <1>12, <1>13
  DEF Loop

LEMMA BoardType ==
  ASSUME TypeOK, NEW n \in Node, Environment(n) \/ PowerCycle(n)
  PROVE  TypeOK'
<1> USE DEF TypeOK
<1>1. CASE DrdyIsr(n)
  BY <1>1 DEF DrdyIsr, app, clock
<1>2. CASE ClockDies(n)
  BY <1>2 DEF ClockDies, app, clock
<1>3. CASE ClockArrives(n)
  BY <1>3 DEF ClockArrives, app, clock
<1>4. ASSUME NEW f \in Heard, Hear(n, f) PROVE TypeOK'
  BY <1>4 DEF Hear, app, clock
<1>5. CASE PowerCycle(n)
  <2>1. <<>> \in Seq(DataFrames \cup ReplyFrames) OBVIOUS
  <2> QED
    BY <1>5, <2>1, SetConstants, NodeAssumption DEF PowerCycle, State, Point, SensorMap
<1> QED BY <1>1, <1>2, <1>3, <1>4, <1>5 DEF Environment

LEMMA StutterType == TypeOK /\ UNCHANGED vars => TypeOK'
BY DEF TypeOK, vars, app, clock

(* Every variable of a node keeps to the values the code can store.        *)
THEOREM TypeCorrect == Spec => []TypeOK
<1>1. TypeOK /\ [Next]_vars => TypeOK'
  BY LoopType, BoardType, StutterType DEF Next, PoweredNext
<1> QED BY InitType, <1>1, PTL DEF Spec
----------------------------------------------------------------------------
(* The clock.  ClockInv is NicNode's strengthening of StreamsOnMasterClock  *)
(* and ReceiverOffClockPin: neither is inductive, because what a step of    *)
(* the switch may do depends on how far the sequence has come.              *)

CtrlEvent == {"NO_EVENT", "CALIBRATE_CMD", "SYNC_CMD", "RESET_CMD"}

\* All that a receive does to the lifecycle and to the clock.
Dispatched(n) == /\ AtReceive(n)
                 /\ UNCHANGED <<clock, clkLost>>
                 /\ \E ev \in CtrlEvent : EndIteration(n, ev)

LEMMA HandledStep ==
  ASSUME NEW n, NEW a, NEW i, NEW r, NEW out, NEW ev \in CtrlEvent,
         Handled(n, a, i, r, out, ev)
  PROVE  Dispatched(n)
BY DEF Handled, Dispatched

LEMMA ReceiveStep ==
  ASSUME NEW n \in Node, Receive(n)
  PROVE  Dispatched(n)
<1> "NO_EVENT" \in CtrlEvent /\ "CALIBRATE_CMD" \in CtrlEvent
      /\ "SYNC_CMD" \in CtrlEvent /\ "RESET_CMD" \in CtrlEvent
  BY DEF CtrlEvent
<1>1. \A op, val : Answers(n, op, val) => Dispatched(n)
  BY HandledStep DEF Answers
<1>2. \A ev \in CtrlEvent : Raises(n, ev) => Dispatched(n)
  BY HandledStep DEF Raises
<1>3. CASE OnDiscover(n) \/ OnQuery(n) \/ OnCfg(n)
  BY <1>1, <1>3 DEF OnDiscover, OnQuery, OnCfg
<1>4. CASE OnAssign(n)
  BY <1>4, HandledStep DEF OnAssign
<1>5. CASE OnTick(n)
  BY <1>5, HandledStep DEF OnTick
<1>6. CASE OnResend(n)
  BY <1>6, HandledStep DEF OnResend
<1>7. CASE OnToken(n)
  BY <1>7, HandledStep DEF OnToken
<1>8. CASE OnCalibrate(n) \/ OnSync(n) \/ OnHardReset(n) \/ OnOther(n)
  BY <1>2, <1>8 DEF OnCalibrate, OnSync, OnHardReset, OnOther
<1>9. CASE NoCtrl(n)
  BY <1>9 DEF NoCtrl, EndIteration, Dispatched
<1> QED BY <1>3, <1>4, <1>5, <1>6, <1>7, <1>8, <1>9 DEF Receive

LEMMA InitClock == Init => ClockInv
<1> SUFFICES ASSUME Init, NEW n \in Node
             PROVE  PointOwner(n) /\ SequenceSoFar(n) /\ LossPending(n)
  BY DEF ClockInv
<1>1. st[n] = "BOOT" /\ pc[n] = "top" /\ pin[n] = "RX"
  BY DEF Init
<1> QED BY <1>1 DEF PointOwner, SequenceSoFar, LossPending,
                    SwitchPoint, RecoverPoint, SyncedPoint

\* A command moves the loop to the top, or into the sequence its state owns.
LEMMA ReceiveClock ==
  ASSUME TypeOK, ClockInv, NEW n \in Node, Dispatched(n)
  PROVE  ClockInv'
<1> SUFFICES ASSUME NEW m \in Node
             PROVE  (PointOwner(m) /\ SequenceSoFar(m) /\ LossPending(m))'
  BY DEF ClockInv
<1>1. PointOwner(m) /\ SequenceSoFar(m) /\ LossPending(m)
  BY DEF ClockInv
<1>2. UNCHANGED <<sysclk, pin, uart2, clkLost>>
  BY DEF Dispatched, clock
<1>3. PICK ev \in CtrlEvent : EndIteration(n, ev)
  BY DEF Dispatched
<1>4. /\ m # n => st'[m] = st[m] /\ pc'[m] = pc[m]
      /\ \/ pc'[n] = "top" /\ st'[n] \in {st[n], "BOOT"}
         \/ pc'[n] = "disable_irq" /\ st[n] = "LISTEN" /\ st'[n] = "LISTEN"
         \/ pc'[n] = "calibrate" /\ st[n] = "SYNCED" /\ st'[n] = "SYNCED"
  BY <1>3 DEF TypeOK, EndIteration, CtrlEvent, NicNodeStep, Step, Perform
<1> QED
  BY <1>1, <1>2, <1>4
  DEF PointOwner, SequenceSoFar, LossPending, SwitchPoint, RecoverPoint, SyncedPoint

LEMMA LoopClock ==
  ASSUME TypeOK, ClockInv, NEW n \in Node, Loop(n)
  PROVE  ClockInv'
<1> SUFFICES ASSUME NEW m \in Node
             PROVE  (PointOwner(m) /\ SequenceSoFar(m) /\ LossPending(m))'
  BY DEF ClockInv
<1>0. PointOwner(m) /\ SequenceSoFar(m) /\ LossPending(m)
  BY DEF ClockInv
<1> USE DEF TypeOK, PointOwner, SequenceSoFar, LossPending,
            SwitchPoint, RecoverPoint, SyncedPoint, clock
<1>1. CASE Boot(n) \/ Detect(n) \/ InitSensors(n) \/ LeaveFault(n)
  <2>1. UNCHANGED <<sysclk, pin, uart2, clkLost>>
    BY <1>1 DEF Boot, Detect, InitSensors, LeaveFault
  <2>2. /\ m # n => st'[m] = st[m] /\ pc'[m] = pc[m]
        /\ pc'[n] = "top" /\ st'[n] \in {"DETECT", "INIT_SENSORS", "LISTEN"}
    BY <1>1 DEF Boot, Detect, InitSensors, LeaveFault, EndIteration,
                NicNodeStep, Step, Perform
  <2> QED BY <1>0, <2>1, <2>2
<1>2. CASE TakeClockLost(n)
  <2>1. /\ st' = [st EXCEPT ![n] = "FAULT"]
        /\ pc' = [pc EXCEPT ![n] = "remap_hse_to_rx"]
    BY <1>2 DEF TakeClockLost, EndIteration, NicNodeStep, Step, Perform
  <2>2. /\ clkLost' = [clkLost EXCEPT ![n] = FALSE]
        /\ UNCHANGED <<sysclk, pin, uart2>>
    BY <1>2 DEF TakeClockLost
  <2> QED BY <1>0, <2>1, <2>2
<1>3. CASE ClockStillThere(n) \/ SampleToBuffer(n) \/ NoSample(n)
           \/ SendSlot(n) \/ SlotNotDue(n) \/ Calibrate(n)
  <2>1. /\ UNCHANGED <<st, sysclk, pin, uart2, clkLost>>
        /\ m # n => pc'[m] = pc[m]
        /\ st[n] = "SYNCED" /\ pc'[n] \in {"top", "drdy", "slot", "recv"}
    <3>1. PointOwner(n) BY DEF ClockInv
    <3>2. CASE ClockStillThere(n) BY <3>2 DEF ClockStillThere
    <3>3. CASE SampleToBuffer(n) BY <3>1, <3>3 DEF SampleToBuffer, At
    <3>4. CASE NoSample(n)       BY <3>1, <3>4 DEF NoSample, At
    <3>5. CASE SendSlot(n)       BY <3>1, <3>5 DEF SendSlot, At
    <3>6. CASE SlotNotDue(n)     BY <3>1, <3>6 DEF SlotNotDue, At
    <3>7. CASE Calibrate(n)      BY <3>1, <3>7 DEF Calibrate, At
    <3> QED BY <1>3, <3>2, <3>3, <3>4, <3>5, <3>6, <3>7
  <2> QED BY <1>0, <2>1
<1>4. CASE Receive(n)
  BY <1>4, ReceiveStep, ReceiveClock DEF ClockInv
<1>5. CASE SwitchToHse(n)
  BY <1>0, <1>5
  DEF SwitchToHse, Uart2DisableIrq, Uart2Deinit, RemapRxToHse, SelectHse, PllLocked,
      PllTimeout, Poke, At, NicNodeStep, Step, ClockInv
<1>6. CASE Recover(n)
  BY <1>0, <1>6 DEF Recover, RemapHseToRx, Uart2Reinit, SelectRc, Poke, At, ClockInv
<1>7. CASE Transmitted(n)
  BY <1>0, <1>7 DEF Transmitted
<1> QED BY <1>1, <1>2, <1>3, <1>4, <1>5, <1>6, <1>7 DEF Loop

\* The CSS sets the latch in the very step that moves the core to the RC.
LEMMA BoardClock ==
  ASSUME TypeOK, ClockInv, NEW n \in Node, Environment(n) \/ PowerCycle(n)
  PROVE  ClockInv'
<1> SUFFICES ASSUME NEW m \in Node
             PROVE  (PointOwner(m) /\ SequenceSoFar(m) /\ LossPending(m))'
  BY DEF ClockInv
<1>0. PointOwner(m) /\ SequenceSoFar(m) /\ LossPending(m)
  BY DEF ClockInv
<1> USE DEF TypeOK, PointOwner, SequenceSoFar, LossPending,
            SwitchPoint, RecoverPoint, SyncedPoint, clock
<1>1. CASE DrdyIsr(n) \/ ClockArrives(n) \/ \E f \in Heard : Hear(n, f)
  BY <1>0, <1>1 DEF DrdyIsr, ClockArrives, Hear
<1>2. CASE ClockDies(n)
  BY <1>0, <1>2 DEF ClockDies
<1>3. CASE PowerCycle(n)
  BY <1>0, <1>3 DEF PowerCycle
<1> QED BY <1>1, <1>2, <1>3 DEF Environment

LEMMA ClockInvariant == Spec => []ClockInv
<1>1. TypeOK /\ ClockInv /\ [Next]_vars => ClockInv'
  <2>1. CASE UNCHANGED vars
    BY <2>1 DEF ClockInv, PointOwner, SequenceSoFar, LossPending, vars, clock
  <2> QED BY <2>1, LoopClock, BoardClock DEF Next, PoweredNext
<1> QED BY InitClock, TypeCorrect, <1>1, PTL DEF Spec

(* A SYNCED node never runs on its RC oscillator unnoticed.                *)
THEOREM StreamsInPhase == Spec => []StreamsOnMasterClock
<1>1. ClockInv => StreamsOnMasterClock
  BY DEF ClockInv, LossPending, StreamsOnMasterClock
<1> QED BY ClockInvariant, <1>1, PTL

(* An enabled UART2 receiver is never wired to the clock.                  *)
THEOREM ClockNeverReadAsData == Spec => []ReceiverOffClockPin
<1>1. ClockInv => ReceiverOffClockPin
  BY DEF ClockInv, SequenceSoFar, ReceiverOffClockPin
<1> QED BY ClockInvariant, <1>1, PTL
----------------------------------------------------------------------------
(* NicNode implements NodeService.  Starts follows the address through a   *)
(* start-up: nobody can reassign it before the node listens.               *)

Starts == \A n \in Node : st[n] \in {"DETECT", "INIT_SENSORS"} => sAddr[n] = HwAddr[n]

\* What any step does to the two variables the service sees.
Goes(n, from, to) == st[n] = from /\ st' = [st EXCEPT ![n] = to] /\ UNCHANGED sAddr

Life(n) ==
  \/ UNCHANGED <<st, sAddr>>
  \/ /\ st[n] = "BOOT" /\ st' = [st EXCEPT ![n] = "DETECT"]
     /\ sAddr' = [sAddr EXCEPT ![n] = HwAddr[n]]
  \/ Goes(n, "DETECT", "INIT_SENSORS")
  \/ Goes(n, "INIT_SENSORS", "LISTEN")
  \/ /\ st[n] \in {"LISTEN", "SYNCED"} /\ UNCHANGED st
     /\ \E a \in Addr : sAddr' = [sAddr EXCEPT ![n] = a]
  \/ Goes(n, "LISTEN", "SYNCED")
  \/ Goes(n, "SYNCED", "FAULT")
  \/ Goes(n, "FAULT", "LISTEN")
  \/ Goes(n, "LISTEN", "BOOT")
  \/ Goes(n, "SYNCED", "BOOT")
  \/ /\ st' = [st EXCEPT ![n] = "BOOT"]
     /\ sAddr' = [sAddr EXCEPT ![n] = HwAddr[n]]

LEMMA ReceiveLife ==
  ASSUME TypeOK, NEW n \in Node, Receive(n)
  PROVE  Life(n)
<1>1. st[n] \in {"LISTEN", "SYNCED"}
  BY ReceiveStep DEF Dispatched, AtReceive
<1>2. [sAddr EXCEPT ![n] = sAddr[n]] = sAddr
  BY DEF TypeOK
<1>3. \A ev \in CtrlEvent : EndIteration(n, ev) =>
         UNCHANGED st \/ st' = [st EXCEPT ![n] = "BOOT"]
  BY <1>1 DEF TypeOK, EndIteration, CtrlEvent, NicNodeStep, Step
<1>4. CASE OnAssign(n)
  <2>1. rx[n].val \in Addr
    BY <1>4, HeardCtrl, NodeAssumption DEF OnAssign, Command
  <2>2. UNCHANGED st /\ sAddr' = [sAddr EXCEPT ![n] = rx[n].val]
    BY <1>4 DEF OnAssign, Handled, EndIteration
  <2> QED BY <1>1, <2>1, <2>2 DEF Life
<1>5. CASE ~OnAssign(n)
  <2>1. UNCHANGED sAddr
    <3>1. CASE OnDiscover(n) \/ OnQuery(n) \/ OnCfg(n)
      BY <1>2, <3>1 DEF OnDiscover, OnQuery, OnCfg, Answers, Handled
    <3>2. CASE OnCalibrate(n) \/ OnSync(n) \/ OnHardReset(n) \/ OnOther(n)
      BY <1>2, <3>2 DEF OnCalibrate, OnSync, OnHardReset, OnOther, Raises, Handled
    <3>3. CASE OnTick(n)   BY <1>2, <3>3 DEF OnTick, Handled
    <3>4. CASE OnResend(n) BY <1>2, <3>4 DEF OnResend, Handled
    <3>5. CASE OnToken(n)  BY <1>2, <3>5 DEF OnToken, Handled
    <3>6. CASE NoCtrl(n)   BY <3>6 DEF NoCtrl, app
    <3> QED BY <1>5, <3>1, <3>2, <3>3, <3>4, <3>5, <3>6 DEF Receive
  <2>2. UNCHANGED st \/ st' = [st EXCEPT ![n] = "BOOT"]
    BY <1>3, ReceiveStep DEF Dispatched
  <2> QED BY <1>1, <2>1, <2>2 DEF Life, Goes
<1> QED BY <1>4, <1>5

LEMMA StepLife ==
  ASSUME TypeOK, ClockInv, NEW n \in Node, Loop(n) \/ Environment(n) \/ PowerCycle(n)
  PROVE  Life(n)
<1>1. CASE Boot(n)
  BY <1>1 DEF Boot, EndIteration, NicNodeStep, Step, Life
<1>2. CASE Detect(n)
  BY <1>2 DEF Detect, EndIteration, NicNodeStep, Step, Life, Goes
<1>3. CASE InitSensors(n)
  BY <1>3 DEF InitSensors, EndIteration, NicNodeStep, Step, Life, Goes
<1>4. CASE LeaveFault(n)
  BY <1>4 DEF LeaveFault, EndIteration, NicNodeStep, Step, Life, Goes, app
<1>5. CASE TakeClockLost(n)
  BY <1>5 DEF TakeClockLost, EndIteration, NicNodeStep, Step, Life, Goes, app
<1>6. CASE ClockStillThere(n) \/ SampleToBuffer(n) \/ NoSample(n) \/ SendSlot(n)
           \/ SlotNotDue(n) \/ Calibrate(n)
  BY <1>6 DEF ClockStillThere, SampleToBuffer, NoSample, SendSlot, SlotNotDue,
              Calibrate, Life, app
<1>7. CASE Receive(n)
  BY <1>7, ReceiveLife
<1>8. CASE PllLocked(n)
  <2>1. st[n] = "LISTEN"
    BY <1>8 DEF PllLocked, At, ClockInv, PointOwner, SwitchPoint
  <2> QED BY <1>8, <2>1 DEF PllLocked, NicNodeStep, Step, Life, Goes, app
<1>9. CASE Recover(n) \/ (SwitchToHse(n) /\ ~PllLocked(n))
  BY <1>9 DEF Recover, RemapHseToRx, Uart2Reinit, SelectRc, SwitchToHse,
              Uart2DisableIrq, Uart2Deinit, RemapRxToHse, SelectHse, PllTimeout,
              Poke, Life, app
<1>10. CASE Transmitted(n) \/ Environment(n)
  BY <1>10 DEF Transmitted, Environment, DrdyIsr, ClockDies, ClockArrives, Hear, Life, app
<1>11. CASE PowerCycle(n)
  BY <1>11 DEF PowerCycle, Life
<1> QED
  BY <1>1, <1>2, <1>3, <1>4, <1>5, <1>6, <1>7, <1>8, <1>9, <1>10, <1>11
  DEF Loop, SwitchToHse

LEMMA StartsInvariant == Spec => []Starts
<1>1. Init => Starts
  BY DEF Init, Starts
<1>2. TypeOK /\ ClockInv /\ Starts /\ [Next]_vars => Starts'
  <2>1. ASSUME TypeOK, ClockInv, Starts, NEW n \in Node, Life(n) PROVE Starts'
    BY <2>1 DEF Life, Goes, Starts, TypeOK
  <2>2. CASE UNCHANGED vars
    BY <2>2 DEF Starts, vars, app
  <2> QED BY <2>1, <2>2, StepLife DEF Next, PoweredNext
<1> QED BY <1>1, <1>2, TypeCorrect, ClockInvariant, PTL DEF Spec

\* A step of st moves the abstract mode of one node.
LEMMA ModeStep ==
  ASSUME TypeOK, NEW n \in Node, NEW to \in State, st' = [st EXCEPT ![n] = to]
  PROVE  [m \in Node |-> Mode(st[m])]'
           = [[m \in Node |-> Mode(st[m])] EXCEPT ![n] = Mode(to)]
BY DEF TypeOK

\* So each thing a node's life holds is a step of the service, or none.
LEMMA LifeIsService ==
  ASSUME TypeOK, Starts, NEW n \in Node, Life(n)
  PROVE  \/ UNCHANGED Service!vars
         \/ Service!Identify(n) \/ Service!Announce(n) \/ Service!TakeSlot(n)
         \/ Service!Stream(n) \/ Service!LoseClock(n) \/ Service!Recovered(n)
         \/ Service!Reset(n) \/ Service!PowerCut(n)
<1> DEFINE mode == [m \in Node |-> Mode(st[m])]
<1>1. mode[n] = Mode(st[n])
  OBVIOUS
<1>2. \A to \in State : st' = [st EXCEPT ![n] = to]
                        => mode' = [mode EXCEPT ![n] = Mode(to)]
  BY ModeStep
<1>3. UNCHANGED st => UNCHANGED mode
  OBVIOUS
<1> HIDE DEF mode
<1>4. \A from, to \in State : Goes(n, from, to) =>
        mode[n] = Mode(from) /\ mode' = [mode EXCEPT ![n] = Mode(to)] /\ UNCHANGED sAddr
  BY <1>1, <1>2 DEF Goes
<1>5. \A from, to \in State : Goes(n, from, to) =>
        Service!Goes(n, Mode(from), Mode(to)) /\ UNCHANGED sAddr
  BY <1>4 DEF Service!Goes, mode
<1>6. /\ "BOOT" \in State /\ "DETECT" \in State /\ "INIT_SENSORS" \in State
      /\ "LISTEN" \in State /\ "SYNCED" \in State /\ "FAULT" \in State
  BY DEF State
<1>7. CASE st[n] = "BOOT" /\ st' = [st EXCEPT ![n] = "DETECT"]
           /\ sAddr' = [sAddr EXCEPT ![n] = HwAddr[n]]
  <2>1. mode[n] = "down" /\ mode' = [mode EXCEPT ![n] = "starting"]
    BY <1>1, <1>2, <1>6, <1>7 DEF Mode
  <2> QED BY <1>7, <2>1 DEF Service!Identify, Service!Goes, mode
<1>8. CASE Goes(n, "DETECT", "INIT_SENSORS")
  <2>1. mode[n] = "starting" /\ mode' = [mode EXCEPT ![n] = "starting"]
    BY <1>4, <1>6, <1>8 DEF Mode
  <2>2. UNCHANGED mode BY <2>1 DEF mode
  <2> QED BY <1>8, <2>2 DEF Goes, Service!vars, mode
<1>9. CASE Goes(n, "INIT_SENSORS", "LISTEN")
  <2>1. sAddr[n] = HwAddr[n] BY <1>9 DEF Goes, Starts
  <2> QED BY <1>5, <1>6, <1>9, <2>1 DEF Mode, Service!Announce
<1>10. CASE /\ st[n] \in {"LISTEN", "SYNCED"} /\ UNCHANGED st
            /\ \E a \in Addr : sAddr' = [sAddr EXCEPT ![n] = a]
  <2>1. mode[n] \in {"listening", "streaming"} /\ UNCHANGED mode
    BY <1>1, <1>3, <1>10 DEF Mode
  <2> QED BY <1>10, <2>1 DEF Service!TakeSlot, mode
<1>11. CASE Goes(n, "LISTEN", "SYNCED")
  BY <1>5, <1>6, <1>11 DEF Mode, Service!Stream
<1>12. CASE Goes(n, "SYNCED", "FAULT")
  BY <1>5, <1>6, <1>12 DEF Mode, Service!LoseClock
<1>13. CASE Goes(n, "FAULT", "LISTEN")
  BY <1>5, <1>6, <1>13 DEF Mode, Service!Recovered
<1>14. CASE Goes(n, "LISTEN", "BOOT") \/ Goes(n, "SYNCED", "BOOT")
  BY <1>5, <1>6, <1>14 DEF Mode, Service!Reset
<1>15. CASE /\ st' = [st EXCEPT ![n] = "BOOT"]
            /\ sAddr' = [sAddr EXCEPT ![n] = HwAddr[n]]
  <2>1. mode' = [mode EXCEPT ![n] = "down"] BY <1>2, <1>6, <1>15 DEF Mode
  <2> QED BY <1>15, <2>1 DEF Service!PowerCut, mode
<1>16. CASE UNCHANGED <<st, sAddr>>
  BY <1>3, <1>16 DEF Service!vars, mode
<1> QED
  BY <1>7, <1>8, <1>9, <1>10, <1>11, <1>12, <1>13, <1>14, <1>15, <1>16
  DEF Life

(* The run loop implements the life NodeService promises to the bus.       *)
THEOREM NodeImplementsService == Spec => ImplementsService
<1>1. Init => Service!Init
  BY DEF Init, Service!Init, Mode
<1>2. TypeOK /\ ClockInv /\ Starts /\ [Next]_vars => [Service!Next]_(Service!vars)
  <2>1. ASSUME TypeOK, ClockInv, Starts, NEW n \in Node, Life(n)
        PROVE  [Service!Next]_(Service!vars)
    BY <2>1, LifeIsService DEF Service!Next
  <2>2. CASE UNCHANGED vars
    BY <2>2 DEF Service!vars, vars, app
  <2> QED BY <2>1, <2>2, StepLife DEF Next, PoweredNext
<1> QED
  BY <1>1, <1>2, TypeCorrect, ClockInvariant, StartsInvariant, PTL
  DEF Spec, ImplementsService, Service!Spec
----------------------------------------------------------------------------
(* Who may talk.  A handler talks only if it was addressed, or in LISTEN;   *)
(* everything else leaves tx alone, or empties it.                         *)

Speaks(m)   == tx[m] = <<>> /\ tx'[m] # <<>>
Entitled(m) == \/ st[m] = "SYNCED" /\ pc[m] = "slot"
               \/ st[m] = "SYNCED" /\ (Command(m, "TOKEN") \/ Command(m, "RESEND_DATA"))
               \/ st[m] = "LISTEN" /\ IsCtrl(m)
Orderly     == \A m \in Node : Speaks(m) => Entitled(m)

LEMMA OthersSilent ==
  ASSUME TypeOK, NEW n \in Node, NEW out, tx' = [tx EXCEPT ![n] = out],
         Speaks(n) => Entitled(n)
  PROVE  Orderly
BY DEF TypeOK, Orderly, Speaks

LEMMA Silent ==
  ASSUME UNCHANGED tx
  PROVE  Orderly
BY DEF Orderly, Speaks

\* A handler that transmits nothing itself: in SYNCED the node stays silent.
LEMMA QuietHandler ==
  ASSUME TypeOK, NEW n \in Node, IsCtrl(n), NEW a, NEW i, NEW r, NEW ev,
         Handled(n, a, i, r, <<>>, ev)
  PROVE  Orderly
<1>1. CASE st[n] = "LISTEN"
  <2>1. Entitled(n) BY <1>1 DEF Entitled
  <2>2. tx' = [tx EXCEPT ![n] = <<>> \o SendReply(a, r)] BY <1>1 DEF Handled
  <2> QED BY <2>1, <2>2, OthersSilent
<1>2. CASE st[n] # "LISTEN"
  <2>1. tx' = [tx EXCEPT ![n] = <<>>] BY <1>2 DEF Handled
  <2>2. ~Speaks(n) BY <2>1 DEF Speaks, TypeOK
  <2> QED BY <2>1, <2>2, OthersSilent
<1> QED BY <1>1, <1>2

\* TOKEN and RESEND_DATA transmit at once, to the node they address.
LEMMA TalkingHandler ==
  ASSUME TypeOK, NEW n \in Node, Command(n, "TOKEN") \/ Command(n, "RESEND_DATA"),
         NEW a, NEW i, NEW r, NEW out, NEW ev, Handled(n, a, i, r, out, ev)
  PROVE  Orderly
<1>1. st[n] \in {"LISTEN", "SYNCED"} BY DEF Handled, AtReceive
<1>2. Entitled(n) BY <1>1 DEF Entitled, Command
<1>3. \/ tx' = [tx EXCEPT ![n] = out \o SendReply(a, r)]
      \/ tx' = [tx EXCEPT ![n] = out]
  BY DEF Handled
<1> QED BY <1>2, <1>3, OthersSilent

LEMMA ReceiveOrderly ==
  ASSUME TypeOK, NEW n \in Node, Receive(n)
  PROVE  Orderly
<1>1. \A op, val : IsCtrl(n) /\ Answers(n, op, val) => Orderly
  BY QuietHandler DEF Answers
<1>2. \A ev : IsCtrl(n) /\ Raises(n, ev) => Orderly
  BY QuietHandler DEF Raises
<1>3. CASE OnDiscover(n) \/ OnQuery(n) \/ OnCfg(n)
  BY <1>1, <1>3 DEF OnDiscover, OnQuery, OnCfg, Command
<1>4. CASE OnCalibrate(n) \/ OnSync(n) \/ OnHardReset(n) \/ OnOther(n)
  BY <1>2, <1>4 DEF OnCalibrate, OnSync, OnHardReset, OnOther, Command
<1>5. CASE OnAssign(n)
  BY <1>5, QuietHandler DEF OnAssign, Command
<1>6. CASE OnTick(n)
  BY <1>6, QuietHandler DEF OnTick, Command
<1>7. CASE OnResend(n)
  BY <1>7, TalkingHandler DEF OnResend
<1>8. CASE OnToken(n)
  BY <1>8, TalkingHandler DEF OnToken
<1>9. CASE NoCtrl(n)
  BY <1>9, Silent DEF NoCtrl
<1> QED BY <1>3, <1>4, <1>5, <1>6, <1>7, <1>8, <1>9 DEF Receive

LEMMA StepOrderly ==
  ASSUME TypeOK, ClockInv, NEW n \in Node, Loop(n) \/ Environment(n) \/ PowerCycle(n)
  PROVE  Orderly
<1>1. CASE Boot(n) \/ Detect(n) \/ InitSensors(n) \/ LeaveFault(n) \/ TakeClockLost(n)
           \/ ClockStillThere(n) \/ SampleToBuffer(n) \/ NoSample(n) \/ SlotNotDue(n)
           \/ Calibrate(n)
  BY <1>1, Silent
  DEF Boot, Detect, InitSensors, LeaveFault, TakeClockLost, ClockStillThere,
      SampleToBuffer, NoSample, SlotNotDue, Calibrate
<1>2. CASE SendSlot(n)
  <2>1. st[n] = "SYNCED" /\ pc[n] = "slot"
    BY <1>2 DEF SendSlot, At, ClockInv, PointOwner, SyncedPoint
  <2>2. Entitled(n) BY <2>1 DEF Entitled
  <2> QED BY <1>2, <2>2, OthersSilent DEF SendSlot
<1>3. CASE Receive(n)
  BY <1>3, ReceiveOrderly
<1>4. CASE SwitchToHse(n)
  BY <1>4, Silent DEF SwitchToHse, Uart2DisableIrq, Uart2Deinit, RemapRxToHse,
                      SelectHse, PllLocked, PllTimeout, Poke
<1>5. CASE Recover(n)
  BY <1>5, Silent DEF Recover, RemapHseToRx, Uart2Reinit, SelectRc, Poke
<1>6. CASE Transmitted(n)
  <2>1. ~Speaks(n) BY <1>6 DEF Transmitted, Speaks
  <2> QED BY <1>6, <2>1, OthersSilent DEF Transmitted
<1>7. CASE Environment(n)
  BY <1>7, Silent DEF Environment, DrdyIsr, ClockDies, ClockArrives, Hear
<1>8. CASE PowerCycle(n)
  <2>1. tx' = [tx EXCEPT ![n] = <<>>] BY <1>8 DEF PowerCycle
  <2>2. ~Speaks(n) BY <2>1 DEF Speaks, TypeOK
  <2> QED BY <2>1, <2>2, OthersSilent
<1> QED BY <1>1, <1>2, <1>3, <1>4, <1>5, <1>6, <1>7, <1>8 DEF Loop

(* A node never talks on its own, on a bus that has no arbitration.        *)
THEOREM NodeKeepsSilence == Spec => NeverAsynchronous
<1>1. TypeOK /\ ClockInv /\ [Next]_vars
        => [\A n \in Node : tx[n] = <<>> /\ tx'[n] # <<>> =>
              \/ st[n] = "SYNCED" /\ pc[n] = "slot"
              \/ st[n] = "SYNCED" /\ (Command(n, "TOKEN") \/ Command(n, "RESEND_DATA"))
              \/ st[n] = "LISTEN" /\ IsCtrl(n)]_vars
  <2>1. ASSUME TypeOK, ClockInv, Next PROVE Orderly
    BY <2>1, StepOrderly DEF Next, PoweredNext
  <2> QED BY <2>1 DEF Orderly, Speaks, Entitled
<1> QED BY <1>1, TypeCorrect, ClockInvariant, PTL DEF Spec, NeverAsynchronous
----------------------------------------------------------------------------
(* The queued reply.  Dropped(m) is a reply that leaves the queue; the      *)
(* property asks for one of three reasons.                                 *)

Dropped(m) == sReply[m] # None /\ sReply'[m] # sReply[m]
Sent(m)    == \E i \in DOMAIN tx'[m] : <<tx'[m][i]>> = SendReply(sAddr[m], sReply[m])
Explained(m) == Sent(m) \/ Replaces(m) \/ st'[m] = "BOOT"
Conserved    == \A m \in Node : Dropped(m) => Explained(m)

LEMMA OthersKeep ==
  ASSUME TypeOK, NEW n \in Node, NEW r, sReply' = [sReply EXCEPT ![n] = r],
         Dropped(n) => Explained(n)
  PROVE  Conserved
BY DEF TypeOK, Conserved, Dropped

LEMMA QueueKept ==
  ASSUME UNCHANGED sReply
  PROVE  Conserved
BY DEF Conserved, Dropped

\* Whatever is sent before it, the reply is the last thing that is sent.
LEMMA SentLast ==
  ASSUME TypeOK, NEW n \in Node, NEW out \in Seq(Frames), sReply[n] # None,
         tx' = [tx EXCEPT ![n] = out \o SendReply(sAddr[n], sReply[n])]
  PROVE  Sent(n)
<1> DEFINE c == CtrlFrame(sAddr[n], sReply[n].op, sReply[n].val)
<1>1. SendReply(sAddr[n], sReply[n]) = <<c>> BY DEF SendReply
<1>2. c \in Frames
  BY DEF TypeOK, Frames, ReplyFrames
<1> HIDE DEF c
<1>3. /\ Len(out) + 1 \in DOMAIN (out \o <<c>>)
      /\ (out \o <<c>>)[Len(out) + 1] = c
  BY <1>2
<1>4. tx'[n] = out \o <<c>> BY <1>1 DEF TypeOK
<1> QED BY <1>1, <1>3, <1>4 DEF Sent

LEMMA SentNow ==
  ASSUME TypeOK, NEW n \in Node, sReply[n] # None,
         tx' = [tx EXCEPT ![n] = SendReply(sAddr[n], sReply[n])]
  PROVE  Sent(n)
<1> DEFINE c == CtrlFrame(sAddr[n], sReply[n].op, sReply[n].val)
<1>1. SendReply(sAddr[n], sReply[n]) = <<c>> BY DEF SendReply
<1> HIDE DEF c
<1>2. tx'[n] = <<c>> BY <1>1 DEF TypeOK
<1>3. 1 \in DOMAIN <<c>> /\ <<c>>[1] = c OBVIOUS
<1> QED BY <1>1, <1>2, <1>3 DEF Sent

\* A handler that leaves the queue as it is: LISTEN then sends what is in it.
LEMMA PassingHandler ==
  ASSUME TypeOK, NEW n \in Node, NEW i, NEW out \in Seq(Frames), NEW ev,
         Handled(n, sAddr[n], i, sReply[n], out, ev)
  PROVE  Conserved
<1>1. CASE st[n] = "LISTEN"
  <2>1. /\ tx' = [tx EXCEPT ![n] = out \o SendReply(sAddr[n], sReply[n])]
        /\ sReply' = [sReply EXCEPT ![n] = None]
    BY <1>1 DEF Handled
  <2>2. sReply[n] # None => Sent(n) BY <2>1, SentLast
  <2>3. Dropped(n) => Explained(n) BY <2>2 DEF Dropped, Explained
  <2> QED BY <2>1, <2>3, OthersKeep
<1>2. CASE st[n] # "LISTEN"
  <2>1. sReply' = [sReply EXCEPT ![n] = sReply[n]] BY <1>2 DEF Handled
  <2>2. ~Dropped(n) BY <2>1 DEF Dropped, TypeOK
  <2> QED BY <2>1, <2>2, OthersKeep
<1> QED BY <1>1, <1>2

\* A handler that queues a newer reply.
LEMMA ReplacingHandler ==
  ASSUME TypeOK, NEW n \in Node, Replaces(n), NEW a, NEW i, NEW r, NEW out, NEW ev,
         Handled(n, a, i, r, out, ev)
  PROVE  Conserved
<1>1. sReply' = [sReply EXCEPT ![n] = None] \/ sReply' = [sReply EXCEPT ![n] = r]
  BY DEF Handled
<1>2. Explained(n) BY DEF Explained
<1> QED BY <1>1, <1>2, OthersKeep

LEMMA ReceiveConserves ==
  ASSUME TypeOK, NEW n \in Node, Receive(n)
  PROVE  Conserved
<1>0. <<>> \in Seq(Frames) OBVIOUS
<1>1. \A op, val : Replaces(n) /\ Answers(n, op, val) => Conserved
  BY ReplacingHandler DEF Answers
<1>2. \A ev : Raises(n, ev) => Conserved
  BY <1>0, PassingHandler DEF Raises
<1>3. CASE OnDiscover(n)
  <2>1. Replaces(n) BY <1>3 DEF OnDiscover, Replaces
  <2> QED BY <1>1, <1>3, <2>1 DEF OnDiscover
<1>4. CASE OnQuery(n)
  <2>1. Replaces(n) BY <1>4 DEF OnQuery, Replaces
  <2> QED BY <1>1, <1>4, <2>1 DEF OnQuery
<1>5. CASE OnCfg(n)
  <2>1. Replaces(n) BY <1>5 DEF OnCfg, Replaces
  <2> QED BY <1>1, <1>5, <2>1 DEF OnCfg
<1>6. CASE OnAssign(n)
  <2>1. Replaces(n) BY <1>6 DEF OnAssign, Replaces
  <2> QED BY <1>6, <2>1, ReplacingHandler DEF OnAssign
<1>7. CASE OnCalibrate(n) \/ OnSync(n) \/ OnHardReset(n) \/ OnOther(n)
  BY <1>2, <1>7 DEF OnCalibrate, OnSync, OnHardReset, OnOther
<1>8. CASE OnTick(n)
  BY <1>0, <1>8, PassingHandler DEF OnTick
<1>9. CASE OnResend(n)
  BY <1>9, SendDataType, PassingHandler DEF OnResend
<1>10. CASE OnToken(n)
  <2>0. Command(n, "TOKEN") BY <1>10 DEF OnToken
  <2>1. CASE st[n] = "SYNCED"
    <3>1. /\ tx' = [tx EXCEPT ![n] = SlotFrames(n)]
          /\ sReply' = [sReply EXCEPT ![n] = None]
      BY <1>10, <2>1 DEF OnToken, Handled
    <3>2. sReply[n] # None => Sent(n) BY <3>1, SentNow DEF SlotFrames
    <3>3. Dropped(n) => Explained(n) BY <3>2 DEF Dropped, Explained
    <3> QED BY <3>1, <3>3, OthersKeep
  <2>2. CASE st[n] # "SYNCED"
    <3>1. st[n] = "LISTEN" BY <1>10, <2>2 DEF OnToken, Handled, AtReceive
    <3>2. Replaces(n) BY <2>0, <3>1 DEF Replaces
    <3> QED BY <1>10, <3>2, ReplacingHandler DEF OnToken
  <2> QED BY <2>1, <2>2
<1>11. CASE NoCtrl(n)
  BY <1>11, QueueKept DEF NoCtrl, app
<1> QED
  BY <1>3, <1>4, <1>5, <1>6, <1>7, <1>8, <1>9, <1>10, <1>11 DEF Receive

LEMMA StepConserves ==
  ASSUME TypeOK, NEW n \in Node, Loop(n) \/ Environment(n) \/ PowerCycle(n)
  PROVE  Conserved
<1>1. CASE Boot(n) \/ Detect(n) \/ InitSensors(n) \/ LeaveFault(n) \/ TakeClockLost(n)
           \/ ClockStillThere(n) \/ SampleToBuffer(n) \/ NoSample(n) \/ SlotNotDue(n)
  BY <1>1, QueueKept
  DEF Boot, Detect, InitSensors, LeaveFault, TakeClockLost, ClockStillThere,
      SampleToBuffer, NoSample, SlotNotDue, app
<1>2. CASE SendSlot(n)
  <2>1. /\ tx' = [tx EXCEPT ![n] = SlotFrames(n)]
        /\ sReply' = [sReply EXCEPT ![n] = None]
    BY <1>2 DEF SendSlot
  <2>2. sReply[n] # None => Sent(n) BY <2>1, SentNow DEF SlotFrames
  <2>3. Dropped(n) => Explained(n) BY <2>2 DEF Dropped, Explained
  <2> QED BY <2>1, <2>3, OthersKeep
<1>3. CASE Receive(n)
  BY <1>3, ReceiveConserves
<1>4. CASE Calibrate(n)
  <2>1. Replaces(n) BY <1>4 DEF Calibrate, Replaces
  <2>2. Explained(n) BY <2>1 DEF Explained
  <2> QED BY <1>4, <2>2, OthersKeep DEF Calibrate
<1>5. CASE SwitchToHse(n)
  BY <1>5, QueueKept DEF SwitchToHse, Uart2DisableIrq, Uart2Deinit, RemapRxToHse,
                         SelectHse, PllLocked, PllTimeout, Poke, app
<1>6. CASE Recover(n)
  BY <1>6, QueueKept DEF Recover, RemapHseToRx, Uart2Reinit, SelectRc, Poke, app
<1>7. CASE Transmitted(n) \/ Environment(n)
  BY <1>7, QueueKept
  DEF Transmitted, Environment, DrdyIsr, ClockDies, ClockArrives, Hear, app
<1>8. CASE PowerCycle(n)
  <2>1. st'[n] = "BOOT" BY <1>8 DEF PowerCycle, TypeOK
  <2>2. Explained(n) BY <2>1 DEF Explained
  <2> QED BY <1>8, <2>2, OthersKeep DEF PowerCycle
<1> QED BY <1>1, <1>2, <1>3, <1>4, <1>5, <1>6, <1>7, <1>8 DEF Loop

(* No slot, clock loss or recovery drops a queued reply.                   *)
THEOREM RepliesConserved == Spec => RepliesAreSent
<1>1. TypeOK /\ [Next]_vars
        => [\A n \in Node : sReply[n] # None /\ sReply'[n] # sReply[n] =>
              \/ \E i \in DOMAIN tx'[n] : <<tx'[n][i]>> = SendReply(sAddr[n], sReply[n])
              \/ Replaces(n)
              \/ st'[n] = "BOOT"]_vars
  <2>1. ASSUME TypeOK, Next PROVE Conserved
    BY <2>1, StepConserves DEF Next, PoweredNext
  <2> QED BY <2>1 DEF Conserved, Dropped, Explained, Sent
<1> QED BY <1>1, TypeCorrect, PTL DEF Spec, RepliesAreSent
=============================================================================
