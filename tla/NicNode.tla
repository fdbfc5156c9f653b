------------------------------ MODULE NicNode ------------------------------
(***************************************************************************)
(* The node application: the run loop of node/main_app.c driving the       *)
(* lifecycle machine nic_node_step, the clock switch of nic-clocksync and  *)
(* the interrupt latches of node/board.c.                                  *)
(*                                                                         *)
(* One iteration of the run loop is a walk of pc[n] from "top" back to     *)
(* "top"; interrupts (DRDY, the Clock Security System NMI) and the bus may *)
(* act between any two points of it.  While tx[n] is not empty the node is *)
(* inside the blocking HAL_UART_Transmit and does nothing else.            *)
(***************************************************************************)
EXTENDS NicLink, Sequences

CONSTANTS
  Node,        \* the boxes on the bus
  HwAddr,      \* HwAddr[n]: the number on box n (board_hw_addr)
  Addr,        \* bus addresses
  Slot,        \* the software addresses a master assigns
  SensorSets,  \* what nq_sensors_detect may find on a board
  FlashCal,    \* what load_calibration may come to: {"identity", "level"}
  QueryOp,     \* the query opcodes VERSION, NODE_TYPE, HEALTH, ...
  CfgOp,       \* the generic config-slot opcodes (NIC_OP_CFG)
  Op,          \* the opcodes the medium delivers, a subset of AnyOp
  IndexMod,    \* 2^16 in the code: the width of s_index
  HkDiv,       \* CFG_HK_DIV
  None         \* an empty buffer or slot

Sensor    == {"ADXL355", "ICM42688", "SCL3300"}
ProtocolOp == {"DISCOVER", "ASSIGN_ADDR", "CALIBRATE", "SYNC", "TICK",
               "RESEND_DATA", "HARD_RESET", "TOKEN", "STATUS", "ACK", "ERROR"}
AnyOp      == ProtocolOp \cup QueryOp \cup CfgOp

ASSUME NodeAssumption ==
  /\ Addr \subseteq 0..254
  /\ Slot \subseteq Addr
  /\ HwAddr \in [Node -> Addr]
  /\ SensorSets \subseteq SUBSET Sensor
  /\ FlashCal \subseteq {"identity", "level"}
  /\ (QueryOp \cup CfgOp) \cap ProtocolOp = {} /\ QueryOp \cap CfgOp = {}
  /\ Op \subseteq AnyOp
  /\ IndexMod \in Nat \ {0, 1}
  /\ HkDiv \in Nat \ {0}
----------------------------------------------------------------------------
(* What the node hears and what it says.                                   *)

\* What s_map may hold: nothing before the first detection.
SensorMap == SensorSets \cup {{}}

\* node_payload_len: six bytes per three-axis field, one die temperature per
\* present sensor, and the status byte.
PayloadLen(sensors) ==
  1 + (IF "ADXL355"  \in sensors THEN 7  ELSE 0)
    + (IF "ICM42688" \in sensors THEN 13 ELSE 0)
    + (IF "SCL3300"  \in sensors THEN 7  ELSE 0)

\* nq_sensors_seismic_source: the ADXL355 if it answered, else the ICM.
HasSeismicSource(sensors) == sensors \cap {"ADXL355", "ICM42688"} # {}

\* The argument a control frame carries: an address for ASSIGN_ADDR, the
\* announced length in a STATUS, nothing the node looks at otherwise.
Val(op) == IF op = "ASSIGN_ADDR" THEN Slot ELSE {0}

Heard == {Undecodable} \cup
         UNION {{CtrlFrame(a, op, v) : a \in Addr \cup {Broadcast}, v \in Val(op)}
                  : op \in Op}

\* What the node queues for its slot, or sends at once while listening.
Reply == {[op |-> "STATUS", val |-> PayloadLen(s)] : s \in SensorMap}
         \cup {[op |-> "ACK", val |-> o] : o \in {"ASSIGN_ADDR", "CALIBRATE"} \cup CfgOp}
         \cup {[op |-> o, val |-> 0] : o \in QueryOp}
         \cup {[op |-> "ERROR", val |-> "CLOCK_LOST"]}

DataFrames == {DataFrame(a, i, PayloadLen(s)) :
                 a \in Addr, i \in 0..(IndexMod - 1), s \in SensorMap}
ReplyFrames == {CtrlFrame(a, r.op, r.val) : a \in Addr, r \in Reply}

\* None is no frame, damaged or not, and no reply.
ASSUME NoneAssumption ==
  /\ None \notin Heard \cup DataFrames \cup {Damaged(f, f.station) : f \in DataFrames}
  /\ None \notin Reply /\ None \notin ReplyFrames
----------------------------------------------------------------------------
VARIABLES
  \* the run loop and the statics of main_app.c
  st,          \* nic_node_state_t
  pc,          \* where in the loop iteration, or in the clock switch, n is
  sAddr,       \* s_addr
  sMap,        \* s_map: the sensors the last detection found
  sIndex,      \* s_index
  sHkDiv,      \* s_hk_div
  sDataFrame,  \* s_data_frame, None while s_data_len = 0
  sReply,      \* s_reply_op / s_reply_val, None while s_reply_op = 0
  cal,         \* the levelling matrices: "identity" or "level"
  \* board.c and the silicon under it
  sysclk,      \* "RC" or "HSE": what the core runs on
  pin,         \* "RX" or "HSE_IN": the function of the clock-pair pin
  uart2,       \* "on", "irq_off" (interrupt masked), "off" (de-initialised)
  clkLost,     \* s_clock_lost, the latch the CSS NMI sets
  drdy,        \* s_drdy of the seismic source
  clkIn,       \* whether the master clock arrives on the clock pair
  rx,          \* the frame board_link_recv is about to return, or None
  tx           \* the frames board_link_send still has to shift out

app   == <<sAddr, sMap, sIndex, sHkDiv, sDataFrame, sReply, cal>>
clock == <<sysclk, pin, uart2>>
vars  == <<st, pc, app, clock, clkLost, drdy, clkIn, rx, tx>>

State  == {"BOOT", "DETECT", "INIT_SENSORS", "LISTEN", "SYNCED", "FAULT"}
SwitchPoint  == {"disable_irq", "deinit", "remap_rx_to_hse", "select_hse", "pll_wait"}
RecoverPoint == {"remap_hse_to_rx", "uart2_reinit", "select_rc"}
SyncedPoint  == {"drdy", "slot", "recv", "calibrate"}
Point  == {"top"} \cup SwitchPoint \cup RecoverPoint \cup SyncedPoint

Init ==
  /\ st = [n \in Node |-> "BOOT"]
  /\ pc = [n \in Node |-> "top"]
  /\ sAddr = HwAddr
  /\ sMap = [n \in Node |-> {}]
  /\ sIndex = [n \in Node |-> 0]
  /\ sHkDiv = [n \in Node |-> 0]
  /\ sDataFrame = [n \in Node |-> None]
  /\ sReply = [n \in Node |-> None]
  /\ cal = [n \in Node |-> "identity"]
  /\ sysclk = [n \in Node |-> "RC"]
  /\ pin = [n \in Node |-> "RX"]
  /\ uart2 = [n \in Node |-> "on"]
  /\ clkLost = [n \in Node |-> FALSE]
  /\ drdy = [n \in Node |-> FALSE]
  /\ clkIn = [n \in Node |-> FALSE]
  /\ rx = [n \in Node |-> None]
  /\ tx = [n \in Node |-> <<>>]
----------------------------------------------------------------------------
(* nic_node_step: the lifecycle table.                                     *)

Step(s, a) == [state |-> s, action |-> a]

NicNodeStep(s, ev) ==
  CASE ev = "RESET_CMD"                            -> Step("BOOT", "NONE")
    [] ev = "CLOCK_LOST"                           -> Step("FAULT", "RECOVER")
    [] s = "BOOT" /\ ev = "BOOT_DONE"              -> Step("DETECT", "DETECT")
    [] s = "DETECT" /\ ev = "DETECTED"             -> Step("INIT_SENSORS", "INIT_SENSORS")
    [] s = "INIT_SENSORS" /\ ev = "SENSORS_READY"  -> Step("LISTEN", "LISTEN")
    [] s = "LISTEN" /\ ev = "SYNC_CMD"             -> Step("LISTEN", "SWITCH_HSE")
    [] s = "LISTEN" /\ ev = "HSE_OK"               -> Step("SYNCED", "START_SAMPLING")
    [] s = "SYNCED" /\ ev = "CALIBRATE_CMD"        -> Step("SYNCED", "CALIBRATE")
    [] s = "FAULT" /\ ev = "BOOT_DONE"             -> Step("LISTEN", "LISTEN")
    [] OTHER                                       -> Step(s, "NONE")

\* Mutant of Perform: a lost clock is noted but nothing is cleaned up.
BugPerformNoRecovery(a) == CASE a = "SWITCH_HSE" -> "disable_irq"
                             [] a = "CALIBRATE"  -> "calibrate"
                             [] OTHER            -> "top"
\* Mutant of Perform: the recovery re-enables UART2 before it moves the pin.
BugPerformUartFirst(a)  == CASE a = "SWITCH_HSE" -> "disable_irq"
                             [] a = "CALIBRATE"  -> "calibrate"
                             [] a = "RECOVER"    -> "uart2_reinit"
                             [] OTHER            -> "top"

\* The run loop's switch on the action: where the node goes to perform it.
Perform(a) == CASE a = "SWITCH_HSE" -> "disable_irq"
                [] a = "CALIBRATE"  -> "calibrate"
                [] a = "RECOVER"    -> "remap_hse_to_rx"
                [] OTHER            -> "top"

\* End of a loop iteration: without an event the loop just continues.
EndIteration(n, ev) ==
  IF ev = "NO_EVENT"
  THEN /\ pc' = [pc EXCEPT ![n] = "top"]
       /\ UNCHANGED st
  ELSE /\ st' = [st EXCEPT ![n] = NicNodeStep(st[n], ev).state]
       /\ pc' = [pc EXCEPT ![n] = Perform(NicNodeStep(st[n], ev).action)]

\* Control is at point p of n's loop and not inside a transmission.
At(n, p) == pc[n] = p /\ tx[n] = <<>>
----------------------------------------------------------------------------
(* BOOT, DETECT, INIT_SENSORS and FAULT: one iteration each.               *)

\* Mutant of Boot: the software address survives a hard reset.
BugBootKeepsAddress(n) ==
  /\ st[n] = "BOOT" /\ At(n, "top")
  /\ EndIteration(n, "BOOT_DONE")
  /\ UNCHANGED <<app, clock, clkLost, drdy, clkIn, rx, tx>>

Boot(n) ==
  /\ st[n] = "BOOT" /\ At(n, "top")
  /\ sAddr' = [sAddr EXCEPT ![n] = HwAddr[n]]
  /\ EndIteration(n, "BOOT_DONE")
  /\ UNCHANGED <<sMap, sIndex, sHkDiv, sDataFrame, sReply, cal, clock,
                 clkLost, drdy, clkIn, rx, tx>>

Detect(n) ==
  /\ st[n] = "DETECT" /\ At(n, "top")
  /\ \E found \in SensorSets : sMap' = [sMap EXCEPT ![n] = found]
  /\ EndIteration(n, "DETECTED")
  /\ UNCHANGED <<sAddr, sIndex, sHkDiv, sDataFrame, sReply, cal, clock,
                 clkLost, drdy, clkIn, rx, tx>>

\* load_calibration: identity, then whatever valid matrix the flash page holds.
InitSensors(n) ==
  /\ st[n] = "INIT_SENSORS" /\ At(n, "top")
  /\ \E stored \in FlashCal : cal' = [cal EXCEPT ![n] = stored]
  /\ EndIteration(n, "SENSORS_READY")
  /\ UNCHANGED <<sAddr, sMap, sIndex, sHkDiv, sDataFrame, sReply, clock,
                 clkLost, drdy, clkIn, rx, tx>>

LeaveFault(n) ==
  /\ st[n] = "FAULT" /\ At(n, "top")
  /\ EndIteration(n, "BOOT_DONE")
  /\ UNCHANGED <<app, clock, clkLost, drdy, clkIn, rx, tx>>
----------------------------------------------------------------------------
(* The SYNCED iteration up to its receive.                                 *)

\* Mutant of TakeClockLost: the node announces the loss by itself.
BugAnnounceLoss(n) ==
  /\ st[n] = "SYNCED" /\ At(n, "top") /\ clkLost[n]
  /\ clkLost' = [clkLost EXCEPT ![n] = FALSE]
  /\ tx' = [tx EXCEPT ![n] = <<CtrlFrame(sAddr[n], "ERROR", "CLOCK_LOST")>>]
  /\ EndIteration(n, "CLOCK_LOST")
  /\ UNCHANGED <<app, clock, drdy, clkIn, rx>>

\* board_clock_lost_take is the first thing a SYNCED iteration does.
TakeClockLost(n) ==
  /\ st[n] = "SYNCED" /\ At(n, "top") /\ clkLost[n]
  /\ clkLost' = [clkLost EXCEPT ![n] = FALSE]
  /\ EndIteration(n, "CLOCK_LOST")
  /\ UNCHANGED <<app, clock, drdy, clkIn, rx, tx>>

ClockStillThere(n) ==
  /\ st[n] = "SYNCED" /\ At(n, "top") /\ ~clkLost[n]
  /\ pc' = [pc EXCEPT ![n] = "drdy"]
  /\ UNCHANGED <<st, app, clock, clkLost, drdy, clkIn, rx, tx>>

\* Mutant of HkAfter: the divider is compared after it was let past CFG_HK_DIV.
BugHkAfter(d) == IF d + 1 > HkDiv THEN 0 ELSE d + 1

\* if (++s_hk_div >= CFG_HK_DIV) s_hk_div = 0
HkAfter(d) == IF d + 1 >= HkDiv THEN 0 ELSE d + 1

\* Mutant of SampleToBuffer: the index is stepped before the frame is stamped.
BugSampleToBuffer(n) ==
  /\ At(n, "drdy") /\ drdy[n] /\ HasSeismicSource(sMap[n])
  /\ drdy' = [drdy EXCEPT ![n] = FALSE]
  /\ sIndex' = [sIndex EXCEPT ![n] = (sIndex[n] + 1) % IndexMod]
  /\ sDataFrame' = [sDataFrame EXCEPT ![n] =
                      DataFrame(sAddr[n], sIndex'[n], PayloadLen(sMap[n]))]
  /\ sHkDiv' = [sHkDiv EXCEPT ![n] = HkAfter(sHkDiv[n])]
  /\ pc' = [pc EXCEPT ![n] = "slot"]
  /\ UNCHANGED <<st, sAddr, sMap, sReply, cal, clock, clkLost, clkIn, rx, tx>>

\* sample_to_buffer: stamp the frame with the current address and index.
SampleToBuffer(n) ==
  /\ At(n, "drdy") /\ drdy[n] /\ HasSeismicSource(sMap[n])
  /\ drdy' = [drdy EXCEPT ![n] = FALSE]
  /\ sDataFrame' = [sDataFrame EXCEPT ![n] =
                      DataFrame(sAddr[n], sIndex[n], PayloadLen(sMap[n]))]
  /\ sIndex' = [sIndex EXCEPT ![n] = (sIndex[n] + 1) % IndexMod]
  /\ sHkDiv' = [sHkDiv EXCEPT ![n] = HkAfter(sHkDiv[n])]
  /\ pc' = [pc EXCEPT ![n] = "slot"]
  /\ UNCHANGED <<st, sAddr, sMap, sReply, cal, clock, clkLost, clkIn, rx, tx>>

\* board_drdy_take answers 0 when there is no seismic source to ask.
NoSample(n) ==
  /\ At(n, "drdy") /\ ~(drdy[n] /\ HasSeismicSource(sMap[n]))
  /\ pc' = [pc EXCEPT ![n] = "slot"]
  /\ UNCHANGED <<st, app, clock, clkLost, drdy, clkIn, rx, tx>>

\* What send_reply and send_data put on the wire.
SendReply(a, r) == IF r = None THEN <<>> ELSE <<CtrlFrame(a, r.op, r.val)>>
SendData(n)     == IF sDataFrame[n] = None THEN <<>> ELSE <<sDataFrame[n]>>

\* Mutant of SlotFrames: the buffered sample goes first.
BugSlotFrames(n) == IF sDataFrame[n] # None THEN SendData(n)
                                            ELSE SendReply(sAddr[n], sReply[n])

\* send_slot: a queued reply takes the slot, else the buffered sample does.
SlotFrames(n) == IF sReply[n] # None THEN SendReply(sAddr[n], sReply[n])
                                      ELSE SendData(n)

SendSlot(n) ==
  /\ At(n, "slot")
  /\ tx' = [tx EXCEPT ![n] = SlotFrames(n)]
  /\ sReply' = [sReply EXCEPT ![n] = None]
  /\ pc' = [pc EXCEPT ![n] = "recv"]
  /\ UNCHANGED <<st, sAddr, sMap, sIndex, sHkDiv, sDataFrame, cal, clock,
                 clkLost, drdy, clkIn, rx>>

SlotNotDue(n) ==
  /\ At(n, "slot")
  /\ pc' = [pc EXCEPT ![n] = "recv"]
  /\ UNCHANGED <<st, app, clock, clkLost, drdy, clkIn, rx, tx>>
----------------------------------------------------------------------------
(* Receiving.  board_link_recv is called at the top of a LISTEN iteration  *)
(* and at the end of a SYNCED one; handle_ctrl dispatches on the opcode.   *)

AtReceive(n) == \/ st[n] = "LISTEN" /\ At(n, "top")
                \/ st[n] = "SYNCED" /\ At(n, "recv")

\* handle_ctrl has left address a, index i and reply slot r, has transmitted
\* the frames out and returned ev.  In LISTEN the loop then calls send_reply.
Handled(n, a, i, r, out, ev) ==
  /\ AtReceive(n)
  /\ rx' = [rx EXCEPT ![n] = None]
  /\ sAddr' = [sAddr EXCEPT ![n] = a]
  /\ sIndex' = [sIndex EXCEPT ![n] = i]
  /\ IF st[n] = "LISTEN"
     THEN /\ tx' = [tx EXCEPT ![n] = out \o SendReply(a, r)]
          /\ sReply' = [sReply EXCEPT ![n] = None]
     ELSE /\ tx' = [tx EXCEPT ![n] = out]
          /\ sReply' = [sReply EXCEPT ![n] = r]
  /\ EndIteration(n, ev)
  /\ UNCHANGED <<sMap, sHkDiv, sDataFrame, cal, clock, clkLost, drdy, clkIn>>

\* The handlers that only queue a reply, raise an event, or do neither.
Answers(n, op, val) == Handled(n, sAddr[n], sIndex[n], [op |-> op, val |-> val],
                               <<>>, "NO_EVENT")
Raises(n, ev)       == Handled(n, sAddr[n], sIndex[n], sReply[n], <<>>, ev)

IsCtrl(n)   == rx[n] # None /\ rx[n].kind = "ctrl"
\* Mutant of ForMe: the address is not looked at.
BugForMe(n, c) == TRUE

\* handle_ctrl's first test: the frame is for this node or for everybody.
ForMe(n, c) == c.station \in {sAddr[n], Broadcast}
Command(n, op) == IsCtrl(n) /\ ForMe(n, rx[n]) /\ rx[n].op = op

OnDiscover(n)  == Command(n, "DISCOVER") /\ Answers(n, "STATUS", PayloadLen(sMap[n]))
OnQuery(n)     == \E op \in QueryOp : Command(n, op) /\ Answers(n, op, 0)
\* apply_cfg touches one range register only; the ACK names the slot opcode.
OnCfg(n)       == \E op \in CfgOp : Command(n, op) /\ Answers(n, "ACK", op)
OnAssign(n)    == /\ Command(n, "ASSIGN_ADDR")
                  /\ Handled(n, rx[n].val, sIndex[n],
                             [op |-> "ACK", val |-> "ASSIGN_ADDR"], <<>>, "NO_EVENT")
OnCalibrate(n) == Command(n, "CALIBRATE") /\ Raises(n, "CALIBRATE_CMD")
OnSync(n)      == Command(n, "SYNC") /\ Raises(n, "SYNC_CMD")
OnHardReset(n) == Command(n, "HARD_RESET") /\ Raises(n, "RESET_CMD")
OnTick(n)      == /\ Command(n, "TICK")
                  /\ Handled(n, sAddr[n], 0, sReply[n], <<>>, "NO_EVENT")
OnResend(n)    == /\ Command(n, "RESEND_DATA")
                  /\ Handled(n, sAddr[n], sIndex[n], sReply[n], SendData(n), "NO_EVENT")

\* A TOKEN is answered at once: ERROR when not synced, the slot otherwise.
OnToken(n) ==
  /\ Command(n, "TOKEN")
  /\ Handled(n, sAddr[n], sIndex[n], None,
             IF st[n] = "SYNCED" THEN SlotFrames(n)
             ELSE <<CtrlFrame(sAddr[n], "ERROR", "CLOCK_LOST")>>,
             "NO_EVENT")

\* A control frame for another station, or with an opcode only a master acts
\* on, falls through handle_ctrl - and still reaches LISTEN's send_reply.
OnOther(n) == /\ IsCtrl(n)
              /\ ForMe(n, rx[n]) => rx[n].op \in {"STATUS", "ACK", "ERROR"}
              /\ Raises(n, "NO_EVENT")

\* Nothing received in a SYNCED poll, or a frame that does not decode.
NoCtrl(n) ==
  /\ AtReceive(n)
  /\ \/ rx[n] # None /\ rx[n].kind # "ctrl"
     \/ rx[n] = None /\ st[n] = "SYNCED"
  /\ rx' = [rx EXCEPT ![n] = None]
  /\ pc' = [pc EXCEPT ![n] = "top"]
  /\ UNCHANGED <<st, app, clock, clkLost, drdy, clkIn, tx>>

Receive(n) == \/ OnDiscover(n) \/ OnQuery(n) \/ OnCfg(n) \/ OnAssign(n)
              \/ OnCalibrate(n) \/ OnSync(n) \/ OnHardReset(n) \/ OnTick(n)
              \/ OnResend(n) \/ OnToken(n) \/ OnOther(n) \/ NoCtrl(n)
----------------------------------------------------------------------------
(* do_calibration, then its ACK.  It gives up without a seismic source, or *)
(* when nq_cal_level refuses the gravity vector it read.                   *)
Calibrate(n) ==
  /\ At(n, "calibrate")
  /\ \E gravityOk \in BOOLEAN :
       cal' = IF gravityOk /\ HasSeismicSource(sMap[n])
              THEN [cal EXCEPT ![n] = "level"] ELSE cal
  /\ sReply' = [sReply EXCEPT ![n] = [op |-> "ACK", val |-> "CALIBRATE"]]
  /\ pc' = [pc EXCEPT ![n] = "top"]
  /\ UNCHANGED <<st, sAddr, sMap, sIndex, sHkDiv, sDataFrame, clock,
                 clkLost, drdy, clkIn, rx, tx>>
----------------------------------------------------------------------------
(* nic_clocksync_to_hse and nic_clocksync_recover, one register poke a     *)
(* step: the clock may die, and an interrupt arrive, between any two.      *)

Poke(n, from, to) == /\ At(n, from)
                     /\ pc' = [pc EXCEPT ![n] = to]
                     /\ UNCHANGED <<st, app, clkLost, drdy, clkIn, rx, tx>>

Uart2DisableIrq(n) ==
  /\ Poke(n, "disable_irq", "deinit")
  /\ uart2' = [uart2 EXCEPT ![n] = IF uart2[n] = "on" THEN "irq_off" ELSE uart2[n]]
  /\ UNCHANGED <<sysclk, pin>>

Uart2Deinit(n) ==
  /\ Poke(n, "deinit", "remap_rx_to_hse")
  /\ uart2' = [uart2 EXCEPT ![n] = "off"]
  /\ UNCHANGED <<sysclk, pin>>

RemapRxToHse(n) ==
  /\ Poke(n, "remap_rx_to_hse", "select_hse")
  /\ pin' = [pin EXCEPT ![n] = "HSE_IN"]
  /\ UNCHANGED <<sysclk, uart2>>

\* The HSE only comes up if the master clock is there to feed it.
SelectHse(n) ==
  /\ Poke(n, "select_hse", "pll_wait")
  /\ sysclk' = [sysclk EXCEPT ![n] = IF clkIn[n] THEN "HSE" ELSE sysclk[n]]
  /\ UNCHANGED <<pin, uart2>>

\* Mutant of PllLocked: the result of nic_clocksync_to_hse is ignored.
BugLockIgnored(n) ==
  /\ At(n, "pll_wait")
  /\ st' = [st EXCEPT ![n] = NicNodeStep(st[n], "HSE_OK").state]
  /\ pc' = [pc EXCEPT ![n] = "top"]
  /\ UNCHANGED <<app, clock, clkLost, drdy, clkIn, rx, tx>>

\* Mutant of PllLocked: the lock is not fed back to nic_node_step.
BugLockForgotten(n) ==
  /\ At(n, "pll_wait") /\ sysclk[n] = "HSE"
  /\ pc' = [pc EXCEPT ![n] = "top"]
  /\ UNCHANGED <<st, app, clock, clkLost, drdy, clkIn, rx, tx>>

\* pll_wait_lock: NIC_OK starts the sensor clocks and feeds HSE_OK back to
\* nic_node_step; the 50 ms timeout leaves the loop where it was, in LISTEN.
PllLocked(n) ==
  /\ At(n, "pll_wait") /\ sysclk[n] = "HSE"
  /\ st' = [st EXCEPT ![n] = NicNodeStep(st[n], "HSE_OK").state]
  /\ pc' = [pc EXCEPT ![n] = "top"]
  /\ UNCHANGED <<app, clock, clkLost, drdy, clkIn, rx, tx>>

\* Mutant of PllTimeout: the wait for the PLL has no timeout.
BugNoTimeout(n) == At(n, "pll_wait") /\ sysclk[n] # "HSE" /\ UNCHANGED vars

PllTimeout(n) ==
  /\ Poke(n, "pll_wait", "top") /\ sysclk[n] # "HSE"
  /\ UNCHANGED clock

RemapHseToRx(n) ==
  /\ Poke(n, "remap_hse_to_rx", "uart2_reinit")
  /\ pin' = [pin EXCEPT ![n] = "RX"]
  /\ UNCHANGED <<sysclk, uart2>>

Uart2Reinit(n) ==
  /\ Poke(n, "uart2_reinit", "select_rc")
  /\ uart2' = [uart2 EXCEPT ![n] = "on"]
  /\ UNCHANGED <<sysclk, pin>>

SelectRc(n) ==
  /\ Poke(n, "select_rc", "top")
  /\ sysclk' = [sysclk EXCEPT ![n] = "RC"]
  /\ UNCHANGED <<pin, uart2>>

SwitchToHse(n) == Uart2DisableIrq(n) \/ Uart2Deinit(n) \/ RemapRxToHse(n)
                    \/ SelectHse(n) \/ PllLocked(n) \/ PllTimeout(n)
Recover(n)     == RemapHseToRx(n) \/ Uart2Reinit(n) \/ SelectRc(n)
----------------------------------------------------------------------------
(* The board around the loop.                                              *)

\* The transceiver shifts out the frame board_link_send is blocked on.
Transmitted(n) ==
  /\ tx[n] # <<>>
  /\ tx' = [tx EXCEPT ![n] = Tail(tx[n])]
  /\ UNCHANGED <<st, pc, app, clock, clkLost, drdy, clkIn, rx>>

\* A frame reaches the receive the node is blocked in.
Hear(n, f) ==
  /\ AtReceive(n) /\ rx[n] = None
  /\ rx' = [rx EXCEPT ![n] = f]
  /\ UNCHANGED <<st, pc, app, clock, clkLost, drdy, clkIn, tx>>

\* board_drdy_isr, once the sensors have been configured.
DrdyIsr(n) ==
  /\ st[n] \in {"LISTEN", "SYNCED", "FAULT"} /\ HasSeismicSource(sMap[n])
  /\ drdy' = [drdy EXCEPT ![n] = TRUE]
  /\ UNCHANGED <<st, pc, app, clock, clkLost, clkIn, rx, tx>>

\* The clock pair of node n goes dead.  If the core runs on it, the CSS moves
\* it to the RC and its NMI sets the latch (HAL_RCC_CSSCallback).
ClockDies(n) ==
  /\ clkIn[n]
  /\ clkIn' = [clkIn EXCEPT ![n] = FALSE]
  /\ IF sysclk[n] = "HSE"
     THEN /\ sysclk' = [sysclk EXCEPT ![n] = "RC"]
          /\ clkLost' = [clkLost EXCEPT ![n] = TRUE]
     ELSE UNCHANGED <<sysclk, clkLost>>
  /\ UNCHANGED <<st, pc, app, pin, uart2, drdy, rx, tx>>

ClockArrives(n) ==
  /\ ~clkIn[n]
  /\ clkIn' = [clkIn EXCEPT ![n] = TRUE]
  /\ UNCHANGED <<st, pc, app, clock, clkLost, drdy, rx, tx>>

\* A power cut or an IWDG reset: every static is zeroed, the pins default.
\* (s_addr is 0 until the first BOOT iteration sets it; nothing reads it.)
PowerCycle(n) ==
  /\ st' = [st EXCEPT ![n] = "BOOT"]
  /\ pc' = [pc EXCEPT ![n] = "top"]
  /\ sAddr' = [sAddr EXCEPT ![n] = HwAddr[n]]
  /\ sMap' = [sMap EXCEPT ![n] = {}]
  /\ sIndex' = [sIndex EXCEPT ![n] = 0]
  /\ sHkDiv' = [sHkDiv EXCEPT ![n] = 0]
  /\ sDataFrame' = [sDataFrame EXCEPT ![n] = None]
  /\ sReply' = [sReply EXCEPT ![n] = None]
  /\ cal' = [cal EXCEPT ![n] = "identity"]
  /\ sysclk' = [sysclk EXCEPT ![n] = "RC"]
  /\ pin' = [pin EXCEPT ![n] = "RX"]
  /\ uart2' = [uart2 EXCEPT ![n] = "on"]
  /\ clkLost' = [clkLost EXCEPT ![n] = FALSE]
  /\ drdy' = [drdy EXCEPT ![n] = FALSE]
  /\ rx' = [rx EXCEPT ![n] = None]
  /\ tx' = [tx EXCEPT ![n] = <<>>]
  /\ UNCHANGED clkIn
----------------------------------------------------------------------------
Loop(n) == \/ Boot(n) \/ Detect(n) \/ InitSensors(n) \/ LeaveFault(n)
           \/ TakeClockLost(n) \/ ClockStillThere(n)
           \/ SampleToBuffer(n) \/ NoSample(n) \/ SendSlot(n) \/ SlotNotDue(n)
           \/ Receive(n) \/ Calibrate(n) \/ SwitchToHse(n) \/ Recover(n)
           \/ Transmitted(n)

Environment(n) == \/ DrdyIsr(n) \/ ClockDies(n) \/ ClockArrives(n)
                  \/ \E f \in Heard : Hear(n, f)

PoweredNext == \E n \in Node : Loop(n) \/ Environment(n)
Next        == PoweredNext \/ \E n \in Node : PowerCycle(n)

Spec == Init /\ [][Next]_vars

\* The CPU keeps executing the loop and the UART keeps shifting; nothing is
\* assumed of the bus, the clock, the sensors or the supply.  PoweredSpec is a
\* node whose supply holds.
Fairness    == \A n \in Node : WF_vars(Loop(n))
FairSpec    == Spec /\ Fairness
PoweredSpec == Init /\ [][PoweredNext]_vars /\ Fairness
----------------------------------------------------------------------------
(* Properties.                                                             *)

\* Every variable keeps to the values the code can store in it.
TypeOK ==
  /\ st \in [Node -> State]
  /\ pc \in [Node -> Point]
  /\ sAddr \in [Node -> Addr]
  /\ sMap \in [Node -> SensorMap]
  /\ sIndex \in [Node -> 0..(IndexMod - 1)]
  /\ sHkDiv \in [Node -> 0..(HkDiv - 1)]
  /\ sDataFrame \in [Node -> DataFrames \cup {None}]
  /\ sReply \in [Node -> Reply \cup {None}]
  /\ cal \in [Node -> {"identity", "level"}]
  /\ sysclk \in [Node -> {"RC", "HSE"}]
  /\ pin \in [Node -> {"RX", "HSE_IN"}]
  /\ uart2 \in [Node -> {"on", "irq_off", "off"}]
  /\ clkLost \in [Node -> BOOLEAN]
  /\ drdy \in [Node -> BOOLEAN]
  /\ clkIn \in [Node -> BOOLEAN]
  /\ rx \in [Node -> Heard \cup {None}]
  /\ tx \in [Node -> Seq(DataFrames \cup ReplyFrames)]

\* A node that streams is phase-locked: whenever a SYNCED node finds itself on
\* its RC oscillator, the loss of the master clock is latched and waits for the
\* next loop iteration - whatever the CSS interrupt interleaved with.
StreamsOnMasterClock ==
  \A n \in Node : st[n] = "SYNCED" /\ sysclk[n] = "RC" => clkLost[n]

\* The mandatory order of both clock sequences (nic_clocksync.h): an enabled
\* UART2 receiver is never wired to the pin that takes the clock.
ReceiverOffClockPin ==
  \A n \in Node : uart2[n] = "on" => pin[n] = "RX"

(* Neither of the two is inductive: what a step of the switch may do        *)
(* depends on how far the sequence has come.  ClockInv follows the program  *)
(* counter through it.                                                      *)

\* Each point of the loop is reached in the state that owns it.
PointOwner(n) ==
  /\ pc[n] \in SwitchPoint  => st[n] = "LISTEN"
  /\ pc[n] \in RecoverPoint => st[n] = "FAULT"
  /\ pc[n] \in SyncedPoint  => st[n] = "SYNCED"

\* What the pokes done so far have established.
SequenceSoFar(n) ==
  /\ uart2[n] = "on" => pin[n] = "RX"
  /\ pc[n] = "deinit" => uart2[n] # "on"
  /\ pc[n] \in {"remap_rx_to_hse", "select_hse", "pll_wait"} => uart2[n] = "off"
  /\ pc[n] = "uart2_reinit" => pin[n] = "RX"

LossPending(n) == st[n] = "SYNCED" /\ sysclk[n] = "RC" => clkLost[n]

ClockInv == \A n \in Node : PointOwner(n) /\ SequenceSoFar(n) /\ LossPending(n)

\* "The node NEVER transmits asynchronously" (main_app.c:87): a transmission
\* starts only in the node's slot, on a TOKEN or RESEND_DATA that addresses it,
\* or, in LISTEN, upon hearing a control frame.
NeverAsynchronous ==
  [][\A n \in Node : tx[n] = <<>> /\ tx'[n] # <<>> =>
       \/ st[n] = "SYNCED" /\ pc[n] = "slot"
       \/ st[n] = "SYNCED" /\ (Command(n, "TOKEN") \/ Command(n, "RESEND_DATA"))
       \/ st[n] = "LISTEN" /\ IsCtrl(n)]_vars

\* "One control reply queued for our next TDMA slot" (main_app.c:83): a queued
\* reply is never dropped, whatever slots, clock losses and recoveries come in
\* between.  It leaves the queue by being sent, because a newer reply takes its
\* place (the queue holds one), or with a reset.
Replaces(n) == \/ At(n, "calibrate")
               \/ \E op \in QueryOp \cup CfgOp \cup {"DISCOVER", "ASSIGN_ADDR"} :
                    Command(n, op)
               \/ st[n] = "LISTEN" /\ Command(n, "TOKEN")
RepliesAreSent ==
  [][\A n \in Node : sReply[n] # None /\ sReply'[n] # sReply[n] =>
       \/ \E i \in DOMAIN tx'[n] : <<tx'[n][i]>> = SendReply(sAddr[n], sReply[n])
       \/ Replaces(n)
       \/ st'[n] = "BOOT"]_vars

\* Each node leads the life NodeService promises, under the addresses it
\* promises, whatever it hears and whenever its clock comes and goes.
Mode(s) == CASE s = "BOOT"                       -> "down"
             [] s \in {"DETECT", "INIT_SENSORS"} -> "starting"
             [] s = "LISTEN"                     -> "listening"
             [] s = "SYNCED"                     -> "streaming"
             [] s = "FAULT"                      -> "recovering"

Service == INSTANCE NodeService WITH mode <- [n \in Node |-> Mode(st[n])], addr <- sAddr
ImplementsService == Service!Spec

\* "A node never locks up" (SOFTWARE.md:152): unless it restarts for ever, the
\* loop gets back to its top, where it kicks the watchdog, again and again.
NeverLocksUp == \A n \in Node : []<>(At(n, "top") \/ st[n] = "BOOT")

\* A clock lost while streaming is followed by the orderly recovery - pin and
\* UART2 restored, on the RC oscillator, listening for the next SYNC - or by a
\* restart.
Listening(n) == /\ st[n] = "LISTEN" /\ pc[n] = "top"
                /\ pin[n] = "RX" /\ uart2[n] = "on" /\ sysclk[n] = "RC"
ClockLossRecovered ==
  \A n \in Node : (st[n] = "SYNCED" /\ clkLost[n]) ~> (Listening(n) \/ st[n] = "BOOT")

\* The statement of a comment the code departs from.

\* "Losing the master clock drops to FAULT and recovers from anywhere on HSE"
\* (nic_node.c:13): from anywhere, a restart by command included.
LossAlwaysRecovered ==
  \A n \in Node : (st[n] = "SYNCED" /\ clkLost[n]) ~> Listening(n)
=============================================================================
