# NIC-Quake in TLA+

Formal models of the NIC-Quake firmware (`src/firmware`): the STM32 node
application, the ESP32 master application, and the RS-485 segment between them.
Every definition is translated from the C source; `PROJECT.json` maps each one to
the lines it models. TLC checks the models on small instances, TLAPS proves the
theorems listed below for every value of the constants.

## 1. The system

A segment has up to eight nodes and one master on two wire pairs. The *data
pair* is half-duplex RS-485; the *clock pair* carries the master's 8.192 MHz
oscillator. A node starts on its internal RC oscillator and listens. The master
discovers the nodes by the number on the box, hands out slots, starts the clock
and broadcasts `SYNC`. Each node then moves its clock-pair pin from UART2 to
HSE_IN, locks its PLL and streams one DATA frame per sample in its own slot. The
master ingests the frames, sends a `TICK` each second, asks for a resend after a
CRC error, and reports to the outside over LoRa.

| Component (source) | State | Operations | Interacts with |
|---|---|---|---|
| node application, `node/main_app.c` | `st`, `s_addr`, `s_map`, `s_index`, `s_hk_div`, `s_data_frame`, one queued reply, the levelling matrices | one loop iteration per lifecycle state; `handle_ctrl`; `sample_to_buffer`; `send_slot`; `do_calibration` | calls nic-node, nic-clocksync, nic-link, nq-sensors; polls the latches of the board |
| nic-node | none (pure table); packer | `nic_node_step`, `nic_node_pack` | called by the node application |
| nic-clocksync | none (an order of register pokes) | `nic_clocksync_to_hse`, `nic_clocksync_recover` | calls the board |
| node board, `node/board.c` | pin function, UART2, SYSCLK, `s_clock_lost`, `s_drdy[]` | the pokes, `board_link_send/recv`, `board_slot_due`, the `*_take` functions | interrupts set its latches at any time |
| nq-sensors | `s_map` | detection, choice of the seismic source | SPI |
| nic-link | none | encode and decode of DATA and CONTROL frames | both ends |
| nic-master | topology table, token cursor | add, ingest, on_ctrl, on_tick, node_lost, all_lost, expect_ack, next_token | called by the master application; `expect_ack` and `next_token` have no caller but the tests |
| master application, `master/main_app.c` | table, time stamps, event accumulators, last LoRa frame | discovery, assignment, start, run loop, telemetry | nic-master, nic-lora, nq-detect, board |
| master board | stubs at this commit | bus, RTC, oscillator gate, silent slot, LoRa, Wi-Fi | - |
| nq-adxl355, nq-icm42688, nq-scl3300 | the registers of the three sensors | probe, init, range and mode changes, pipelined reads | called by nq-sensors and the node application |
| nq-detect | two averages, warm-up, the event in progress | init, push | called by the master application, for the primary node |
| nic-lora, CRC-16 | none | pack and unpack a telemetry frame | called by the master application and by receivers |
| nic-timesync | the last two anchors | init, anchor, resolve, drift | no caller in the applications yet |
| nq-cal, nic_math | none | levelling matrices | called by the node application |

What is hard here, and what makes each part correct:

* **Node: interrupts against the loop.** The CSS interrupt (master clock gone) may
  come between any two steps of the loop or of the clock switch. A node must never
  stream on its RC oscillator without noticing, never feed the clock into an
  enabled UART2, and always get back to listening.
* **Node: who may talk.** There is no arbitration on the bus. A node must start a
  transmission only in its slot or as an answer, and must not lose what it queued.
* **Node: state that outlives its reason** - the loss latch, the queued reply, the
  buffered frame, the software address - across resets and clock losses.
* **Master: any frame may come in at any time** - late, repeated, of a station that
  was not asked. The table must keep one entry per station, in its place, and the
  expected indices must only advance.
* **Segment: the start.** Discovery must meet a quiet bus, whatever a restarted master
  interrupted; slots are handed out over numbers that other boxes still answer to, without
  waiting for anybody, and there is one `SYNC`.
* **Segment: loss and overlap** of frames; a master that goes on without waiting.
* **Stream: what a record means.** A frame carries a 16-bit index that restarts with
  every `TICK`; frames are lost, damaged, resent, sent twice, or cross a `TICK`. Every
  record must be a sample under its own index, in the order of taking, and the gaps the
  master counts must be the samples that are missing.
* **Sensors: calls that fail half-way.** A driver gives up at the first bad transfer and
  leaves the device where it was - in standby, in register bank 1, with an answer in the
  pipeline - and the node goes on. No value may be shown as another.
* **Trigger: fixed-point edges.** Truncated division, averages near zero, a frozen average,
  a peak that outlives its event.
* **Telemetry**: accumulators reset from two call sites; a period measured with
  wrapping seconds; a frame broadcast once into noise.
* **Time**: division on both sides of an anchor, edges missed or delivered twice.

`PROJECT.json` lists every hazard at its source line with the property that covers
it, or why none does yet.

## 2. Modules

| Module | Models | EXTENDS / INSTANCE |
|---|---|---|
| `NicLink` | the two frames of nic-link; the CRC as "still what its sender encoded" | - |
| `NicNode` | the node application with nic-node, nic-clocksync, the board latches and pins | EXTENDS NicLink, INSTANCE NodeService |
| `NodeService` | abstract: the life of a node, which NicNode implements | - |
| `NicMaster` | the topology table, with a caller that makes any call | EXTENDS NicLink |
| `MasterApp` | the master application, the caller this repository has | EXTENDS NicMaster |
| `Network` | nodes and master on one bus, with overlap, loss and restarts of the master | EXTENDS NicNode, INSTANCE MasterApp |
| `SampleStream` | the samples of one node from DRDY to the record, on top of Network | EXTENDS Network, INSTANCE SampleLog |
| `SampleLog` | abstract: what the archive may rely on, which SampleStream implements | - |
| `SensorDrivers` | the transfers of the three drivers, and what a device makes of them | - |
| `Acquisition` | detection, configuration, samples and housekeeping over buses that fail | EXTENDS SensorDrivers |
| `NqDetect` | the STA/LTA detector, fed any magnitudes | - |
| `NodePack` | `nic_node_pack` and its inverse on the master, `seismic_mag` | - |
| `NicLora` | the telemetry frame, byte by byte, with its CRC-16 | - |
| `Trigger` | ground motion to telemetry: pack, magnitude, detector, frame | EXTENDS NqDetect, NodePack, NicLora |
| `TimeSync` | nic-timesync against a clock that wanders | - |
| `NicNodeProofs`, `NicMasterProofs`, `MasterAppProofs`, `TriggerProofs`, `TimeSyncProofs`, `AcquisitionProofs` | theorems | EXTENDS the model and TLAPS |
| `NetworkProofs`, `SampleStreamProofs` | theorems of the composition, each built on those of what it composes | EXTENDS the model and NicNodeProofs, NetworkProofs |
| `MC*` | instances for TLC | EXTENDS the model |

### NicNode

`st[n]` is `nic_node_state_t`, `pc[n]` says where in the current iteration of
`nq_app_run` the node is. An iteration starts and ends at `"top"`:

* `BOOT`, `DETECT`, `INIT_SENSORS`, `FAULT`: one action per iteration (`Boot`,
  `Detect`, `InitSensors`, `LeaveFault`), each ending in `EndIteration`, which is the
  call of `nic_node_step` and the `switch` on its action.
* `SYNCED`: `TakeClockLost` or `ClockStillThere`, then `SampleToBuffer` or `NoSample`,
  `SendSlot` or `SlotNotDue`, then the receive. Interrupts act between them.
* The receive in `LISTEN` and `SYNCED`: one action per case of `handle_ctrl`. All go
  through `Handled`, which also does what `LISTEN` does after the handler:
  `send_reply`, for *any* decoded control frame (`OnOther`).
* `SWITCH_HSE` and `RECOVER`: one action per register poke, so the clock may die
  between any two. `SelectHse` follows the comment of `op_select_hse`.
* `tx[n]` holds the frames of the blocking `board_link_send`; while it is not empty
  the node does nothing else (`At`).

The environment: `Hear` (any control frame of `Op`, to any address, or noise),
`DrdyIsr`, `ClockDies` (with the CSS: SYSCLK moves to the RC, the latch is set),
`ClockArrives`, `PowerCycle` (supply or IWDG). `board_slot_due` returns a constant 0
at this commit, with a comment that says what it is to become; it is modelled as a slot
that may be due at any poll.

Abstracted: measured values (which sensors answer is kept), the range registers of the
`CFG` opcodes (they are in Acquisition), the die temperatures, LED and watchdog kicks. The
error counter, CPU temperature and supply replies are one "query" each.

### NicMaster and MasterApp

`nodes` is `nodes[0..count-1]` as a sequence; an entry keeps `addr`, `payload_len`,
`synced`, `exp_index`, `pending_op`, and `told`, the set of facts (type, version,
voltages...) the node has reported. The functions are operators on a table
(`Registered`, `Ingested`, `Controlled`, `Rebased`, `Lost`), used by the actions of
`TableSpec` and by MasterApp.

MasterApp walks `mpc` through `discover_and_assign`, `start_network` and the run loop:
`Top` (is it a new second? then `TICK`), `Ticked` (re-base, periodic telemetry),
the receive (`RecvData`, `RecvCtrl`, `RecvNothing`), `SilentSlot`. `mtx` is the frame
being sent, `mrx` the frame `board_master_recv` returns. `await_ctrl` looks at one frame
and only at its opcode, so any station's answer counts (`Answer`). `PowerUp` is a reset of
the MCU. `owed` and `told` are history variables: the peaks of the events detected since the last
telemetry, and those the last frame was to report. They follow the detections and the calls of
`lora_telemetry`, never the accumulators, so that `events` and `peak` of a frame can be held
against them. `Trigger` (the action) may report any event; which
events there are is the subject of the module Trigger. The archive, the LoRa resend and the
Wi-Fi upload change nothing the model keeps.

### Network

A talker holds the pair from the step that fills `tx[n]` or `mtx` to the step that
empties it; a frame that overlapped another is garbled (`clash`). Only stations that sit
in their receive hear. `MasterRestarts` resets the master and, with its oscillator, the clock
of every node that runs on it. Assumptions on timing, each a named guard:

* `NodesUp`: a master takes longer to boot than its nodes to start up, to recover from the
  loss of the clock or to give up on the PLL.
* `InTime`: an answer takes less than the 50 ms of `await_ctrl`.
* `InStep` (not when `Lossy`): a frame lasts longer than a pass of a node's loop.
* `SlotDue`: the slot of a node is not due while another node that streams, under another
  address, talks: "Slots are disjoint" (core/DESIGN.md, D24), the job of the timer behind
  `board_slot_due`. Its poll of a slot that is not due goes on as in the code.
* `RtcTick` (MasterApp): the loop turns faster than once a second.

The master sends its commands back to back, as the code does, and hears only inside
`board_master_recv` (`Hearing`): what is on the bus while it assigns slots or sends is lost to it.

### SampleStream and SampleLog

Network with one node, watched by history variables that number the samples: `taken` (what
`sample_to_buffer` stamped, and the TICK its index counts from), `onWire` and `arrived` (which
of them the frame on the bus and the frame in `mrx` carry), `record` (what
`board_master_store` was given, with its gap). The history only observes: every step is a step
of Network, cut off by the bounds and by two guards on timing: `RateKept` (125 samples a second are
far fewer than `IndexMod` between two TICKs) and the one in `Second` (what a node has heard it has
handled before the next second is over). `Of(k)` are the records of one second of the master,
`InStepWith(k)` says that node and master agreed on it. `ticks` numbers the seconds of the master, a
restart included, which begins one without a TICK; `lastTick` is the one the last TICK began.
`GapsAreLosses` speaks of each record by itself: as long as nothing recorded in its second up to it
was taken in another, its gap is the number of samples in `LostBefore`, those between the newest
one recorded before in that second and its own. `SampleLog` promises less than a reader
may hope for, and that is all the code gives: samples in order, under their own index,
perhaps more than once, perhaps missing.

### SensorDrivers and Acquisition

A driver function is the sequence of transfers it makes (`AdxlInit`, `IcmInit`, `SclInit`, the
setters). A device is a record of registers; `Takes` says what a transfer does to it: RANGE of
the ADXL355 written while it measures may or may not be taken, a register of the ICM-42688-P is
reached in its bank only, the SCL3300 answers a command with the response to the one before.
`After` runs a sequence, `Abandoned` any prefix of it: a call that failed. In Acquisition `phase`
walks through `DETECT`, `configure_sensors` and the run; `Detect`, `Configure(s)`, `ApplyCfg(c, v)`,
`SampleToBuffer(bad)` and `PollHousekeeping(bad)` take the set of transfers that fail. The locals
of `sample_to_buffer` are modelled as they are used: `a` is shared by the ADXL355 and the ICM, and
holds stack junk when the read fails. A value is abstracted to which sensor register gave it and
with which sample. `HardReset`, `McuReset` and `PowerCycle` differ in what they leave alone: the
statics, the devices, neither.

### NqDetect, NodePack, NicLora, Trigger

`Push` is `nq_detect_push`: `Primed`, `Averaged`, then the event logic of `After` and `Report`. The
shifts of the code are divisions that round down, as arithmetic shifts of the negative
differences do. `NodePack` divides toward zero, saturates, and writes two's complement big-endian
bytes of `ByteBits` bits (8 in the code, at most 8 in the model), `SeismicMag` reads them back.
`NicLora` has the real byte layout and the real polynomial; the 16-bit register of the checksum is
the set of its bits that are one, `Fed` is the exclusive-or with a byte and `Shifted` one turn of the
inner loop. `Trigger` composes them: `Sample` moves the ground, packs, takes the magnitude and
pushes it; `OnAir` is the telemetry of a peak, clean and with a burst of noise, which adds something
modulo 256 to two bytes in a row: any change of one byte or of two neighbours is such a burst.

### TimeSync

`Anchored`, `Resolve` and `DriftPpb` are the three functions, with C's division toward zero. `Pps` is
an edge after up to `MaxMissed` missed ones, of a clock with `Nominal` counts a second give or
take `Wander`; `PpsAgain` delivers an edge twice. Time is kept in units of `Second` to the second.

## 3. Runs

Passing runs:

| Run | Shows | Instance and why it is enough |
|---|---|---|
| `node` | `TypeOK`, `StreamsOnMasterClock`, `ReceiverOffClockPin`, `NeverAsynchronous`, `RepliesAreSent`, refinement of `NodeService`, `NeverLocksUp`, `ClockLossRecovered` | One node, since nodes share nothing but the bus, which `Hear` leaves arbitrary. Two addresses (mine, another's), one query and one CFG opcode (all are alike), `IndexMod` = `HkDiv` = 2 so both counters wrap, boards that lose and regain the seismic sensors between detections; no calibration in the flash, since only a `CALIBRATE` changes what is kept of it. A restart, by `HARD_RESET` or the supply, ends what the two liveness properties promise (a supply that keeps failing restarts a node for ever). 350,000 states. |
| `master_table` | `TableTypeOK`, `OneEntryPerStation`, `PlacesAreKept`, `ExpectationOnlyAdvances` | Three stations for a table of two, so it fills up and refuses; three indices, so there are older, equal and newer ones and the wrap. |
| `app_table` | `AppTypeOK`, `AssignedSoFar` | Three stations may answer at any time a master that asks for two. 1.1 million states. |
| `app_telemetry` | `EventsReportedOnce`, `PeakOfCountedEvents`, `Heartbeat` | One node; weak and strong events; four seconds with a period of two and a cooldown of one, so `now - last` wraps; at most `MaxOwed` = 2 events between two frames (bound). |
| `net_start` | `DiscoveryArbitrated`, `DiscoveryComplete`, `HeardSyncStreams` | Boxes numbered 2 and 3 that get slots 1 and 2, and a master that asks for three numbers, so that one of them is nobody's and the last is somebody's. It may restart once, at any moment (`Restarts`): discovery then meets nodes that stream, recover, or are in the middle of their clock switch, under their slots. Lossless; n1 samples, n2 is silent in its slots (`Sampling`); one second (`SecMod` = 1), since discovery has no TICK. The first two properties are about boxes with different numbers (`Distinct`); section 5 says how they may come to share one, which takes three boxes. 95,000 states. |
| `stream` | `GapsAreLosses`, `NeverAheadOfNode`, refinement of `SampleLog` | One node, a lossy bus, one restart of the master, two seconds; three samples (`MaxSamples`) and two slots (`MaxFrames`), so that a sample is lost before, between and after others, a frame is damaged and resent, and one crosses the TICK; indices modulo 5, more than are taken in a second, as 2^16 is. 417,000 states. |
| `acquire` | `HousekeepingIsReal`, `OneFailureOneSensor`, `ClockedOnceInitialised`, `RangeChangeTakes` | All three sensors; two ranges of the ADXL355 and two modes of the SCL3300, one value for the settings of the ICM, which are single writes; two samples, so that a value may be stale; two failing calls, so that a failure follows on what a failure left. |
| `signal` | `DetectTypeOK`, `EventsHaveCause`, `MagnitudeIsMotion`, `ReadOrRefused`, `PeakIsOfThisEvent`, `EventsEnd` | Bytes of two bits, so that both ends saturate and the low bits are dropped; four motions and an absent sensor; short spans, so that averages rise, freeze and fall; the LoRa frame at its real width with five bursts at every byte; the theorems have all of them, all peaks, and bytes of eight bits. 100,000 states. |
| `timesync` | `TypeOK`, `AnchoredTime`, `DriftIsReal`, `StepIsBounded` | Twelve counts a second, one off, in units of a thousandth: coarser than any real clock, so that truncation shows. Four edges, two of them missed in a row at most. Deadlock is not checked, since the edges are bounded. |

Runs in which TLC refutes what a comment says of the code (each is a finding in
`PROJECT.json`, with the quoted line):

| Run | Refuted | What happens |
|---|---|---|
| `node_v_reset_clock` | `LossAlwaysRecovered` | The clock dies, and before the latch is read a `HARD_RESET` is handled: SYNCED -> BOOT without the recovery. The node listens with UART2 off and the pin on the clock. |
| `net_v_bus` | `AnswersNeverCollide` | The first box acknowledges its `ASSIGN_ADDR` at once; the master, which does not wait, is already sending the `ASSIGN_ADDR` of the second. |
| `stream_v_gap` | `GapIsMissed` | A sample taken in the old second is ingested after the TICK has re-based the expectation: it is stored with a gap of its own index, though nothing was missed. |

All other runs check for deadlock.

**Mutants.** Every property of a passing run has a mutant of the code that breaks it
(`Bug...`, next to the definition it replaces): a dropped timeout, a recovery in the
wrong order, a registration that does not search first, a slot assigned to the wrong
entry, an expectation that counts frames, one exchange too few with the SCL3300, a
long average without its floor, a checksum one byte short, and so on.

**Fairness.** `Fairness` (NicNode): the CPU executes its loop and the UART shifts out
what it was given. Every wait in the loop has a timeout (`board_link_recv` 50 ms and
1 ms, the PLL 50 ms). In `LISTEN` a receive that times out changes nothing and is a
stutter. Nothing is assumed of the bus, the clock, the sensors. `FairSpec` (MasterApp): the loop runs, for the
same reason, and seconds pass. `NetFairness`: every CPU runs and every transceiver sends.
`Spec` of Trigger: samples of the primary node keep coming in; what the ground does is free.

## 4. Theorems

| Theorem | Statement | Argument |
|---|---|---|
| `TypeCorrect` (NicNodeProofs) | `Spec => []TypeOK` | `TypeOK` is inductive; the handlers share `HandledType`, the transmissions `SlotFramesType`. |
| `StreamsInPhase` | `Spec => []StreamsOnMasterClock` | from `ClockInv` |
| `ClockNeverReadAsData` | `Spec => []ReceiverOffClockPin` | from `ClockInv` |
| `NodeImplementsService` | `Spec => ImplementsService` | step simulation, with `TypeOK`, `ClockInv` and "a node that starts up goes by its own number" |
| `NodeKeepsSilence` | `Spec => NeverAsynchronous` | per action; `ClockInv` gives that only a SYNCED node is at its slot; handlers are quiet (`QuietHandler`) or addressed (`TalkingHandler`) |
| `RepliesConserved` | `Spec => RepliesAreSent` | per action; a handler passes the queue on (`PassingHandler`, the reply is the last thing sent) or replaces it |
| `TableCorrect` (NicMasterProofs) | `TableSpec => []TableTypeOK` | each operator on tables either registers or updates in place |
| `StationsAreDistinct` | `TableSpec => []OneEntryPerStation` | `InPlaceKeepsDistinct`; `Registered` appends only unknown stations |
| `PlacesTheorem`, `ExpectationTheorem` | `TableSpec => PlacesAreKept`, `TableSpec => ExpectationOnlyAdvances` | every operator gives a table that `Kept` the old one; `NextIndexOrZero` is the wrap |
| `AssignmentInOrder` (MasterAppProofs) | `Spec => []AssignedSoFar` | `AppInv` |
| `EventsTheorem`, `PeakTheorem` | `Spec => []EventsReportedOnce`, `Spec => []PeakOfCountedEvents` | `Accounts` |
| `AppTypes` | `Spec => []AppTypeOK` | `AppInv`, `Counted`, `Accounts`, `Times` |
| `DetectTypes`, `CauseTheorem`, `PeakTheorem` (TriggerProofs) | `DetectSpec => []DetectTypeOK`, `=> []EventsHaveCause`, `=> PeakIsOfThisEvent` | bounds of both averages by the smallest and largest sample |
| `TriggerFeedsDetector` | `Spec => DetectSpec` (of Trigger and of NqDetect) | step simulation: what the master reads of a payload is a natural number |
| `TriggerDetects` | `Spec => []DetectTypeOK /\ []EventsHaveCause /\ PeakIsOfThisEvent` | the refinement and the three theorems of the detector |
| `MagnitudeTheorem` | `Spec => []MagnitudeIsMotion` | packing and reading back are inverse on what is left of an axis (`PayloadIsRead`, `SentIsReading`) |
| `FrameTheorem` | for every status: its frame is read as it, with any burst as `Unreadable` | `UnpackIsInverse`, `BurstIsRefused` |
| `TelemetryTheorem` | `Spec => []ReadOrRefused` | `FrameTheorem`, and the peak of an event is one of the magnitudes read |
| `SegmentTypes` (NetworkProofs) | `NetSpec => []NetTypeOK` | `TypeOK` and `MasterTypeOK`: the types of both ends, and which frames the bus may hand from one to the other |
| `SegmentInPhase`, `SegmentPinSafe` | `NetSpec => []StreamsOnMasterClock`, `=> []ReceiverOffClockPin` | `ClockInv` again, now that a restart of the master takes the clock from all nodes at once |
| `SegmentArbitrates`, `SegmentDiscovers` | `~Lossy => (NetSpec => []DiscoveryArbitrated)`, `=> []DiscoveryComplete` | `DiscoveryInv` |
| `StreamStoredAsTaken` (SampleStreamProofs) | `StreamSpec => StoredAsTaken` | step simulation of `SampleLog`, from `StreamInv` |
| `StreamNotAhead` | `StreamSpec => []NeverAheadOfNode` | `StreamInv` |
| `StreamGaps` | `StreamSpec => []GapsAreLosses` | `GapInv`: `StreamInv`, `Settling` and `Telling` |
| `HousekeepingReal`, `FailureStays` (AcquisitionProofs) | `Spec => []HousekeepingIsReal`, `=> []OneFailureOneSensor` | `AcquisitionInv`, with what each run of transfers may leave in a device |
| `StaysClocked`, `RangeTakes` | `Spec => []ClockedOnceInitialised`, `Spec => RangeChangeTakes` | `AcquisitionInv` |
| `TimeTypes`, `AnchoredTimeTheorem` (TimeSyncProofs) | `Spec => []TypeOK`, `Spec => []AnchoredTime` | `TypeOK` and "the anchors are apart unless the edge came twice"; lemmas on division toward zero |
| `DriftTheorem` | `Nominal <= Billion => (Spec => []DriftIsReal)` | `Paced` |
| `StepTheorem` | `Spec => StepIsBounded` | `Paced` |

*Why ClockInv.* Neither clock property is inductive: whether a poke is safe depends on
how far the sequence has come. `ClockInv` has three parts: `PointOwner` (each point of the
loop is reached in the state that owns it), `SequenceSoFar` (what the pokes done so far have
established), `LossPending` (the first property itself).

*Why AppInv.* During the assignment two entries may share an address for a moment, so
distinctness is not invariant. `AssignedSoFar` says what the loop has done: distinct before
it, entries 1..`poll`-1 renamed to their places during it, hence distinct after it.

*Why Accounts.* A frame is packed from the accumulators, and what it must say is what the history
says. `Accounts` relates the two at every step: `events` is the number of peaks in `owed` and `peak` the
largest of them (`PeakOf`), and the last frame says the same of `told`. The step of a strong event is
where it could go wrong: counter and peak are raised, the frame packed and both reset in one go,
and the history appends the event and closes the account (`PeakAppended`).

*Why the bounds of the averages.* An event is a statement about one sample and one ratio; what
makes it mean something about the ground is that the long average is never below the smallest
sample (or the floor) and the short one never above the largest, in fixed point and with
shifts that round down.

*Why a burst is refused.* One turn of the division loses nothing: whether the bit shifted out was one
can be read off bit 0 of the result. So registers that differ stay different through equal bytes
(`RoundsInjective`), and what has to be shown is that a burst makes them differ. One changed byte
changes the register before its eight turns. Of two, the second would have to undo the first: it
reaches the high octet only, and after the first byte's eight turns the low octet tells already
what the high octet was before them (`LowOctetTells`). The last byte of the values shows in the low
octet of the checksum, so a burst that also changes the high octet of it is seen
(`LastByteChangesLowOctet`); a burst into the checksum itself, or into the magic byte, needs no
arithmetic. `Received` needs no invariant of the detector but one: the peak of an event is one of
the magnitudes the master has read, so `OnAir` has an entry for it.

*Why the magnitude is the motion.* What is packed is a truncated quotient by 2^`Drop`, which is what
`Reading` says with a search; saturation makes it fit two bytes, and the two bytes of a number in
range, read as two's complement, are that number, for each size of a byte. Nothing is assumed of
the motion but that it is three integers: a sensor that saturates and one that does not are covered.

*Why DiscoveryInv.* One question at a time is not what makes discovery quiet: a master may restart into
a network that streams, whose nodes wait for the PLL, have a command in their buffer or hold a reply for
their slot. `Manners` is what every station keeps to at any time. A node changes its number only on an
ASSIGN_ADDR that all have heard, which no master sends while it polls; what waits in the receivers is
one frame, the same for all; a node mistakes another's answer for a question only if it shares its
number, and only then owes a reply to anybody; and from the master's first question to its SYNC all
nodes listen (`Opening => Up`), since the master took longer to boot than they to get there (`NodesUp`).
A reply still owed from a time when two boxes shared a number goes out at the first DISCOVER, which all
hear (`FirstCall`). `Conducted` is discovery itself: one node at most has the word (`Asking`), a
question is followed by the answer of the box asked and by no other (`Conversation`), and the table is,
in ascending order, the boxes with numbers already asked for (`Found`). `Passes` sums up what one pass
of a node's loop may do to all that, so that the forty-odd ways through the loop are looked at once. TLC
checked both parts first: 95,000 states of the run's instance, 250,000 with two restarts, 48,000 with
two boxes of one number.

*Why StreamInv.* A record is right because of where its frame has been. `Counted`, `Numbered`,
`Carried` and `Recorded` follow the sample: the buffer holds the newest, `onWire` never runs ahead
of `taken` nor `arrived` of `onWire`, and whatever is on the bus undamaged has the index of the
sample it stands for. `TicksInTime`, `BelowNext` and `FromRecords` follow the second: a TICK is heard
in its own second or not at all, every sample of the running second is below the next index, and
an expectation comes from a record of this second or from its TICK. TLC checked it as an invariant
on larger instances than the run's (`IndexMod` = 5 with two seconds, 745,000 states, and
`IndexMod` = 3 with three, 4.0 million) before it was proved.

*Why GapInv.* A gap is a difference of two indices, one of which is only an expectation. That the
difference counts samples takes three more things. `Consecutive`: the samples of the running second
are the last ones taken, one index apart. `Settling` (with `FromMaster` and `BootingClean`): once a
network streams nothing in it changes any more, no node gets an address, no entry of the table
moves, until the master restarts; and a restart waits for quiet nodes. So whatever is under way was
sent under the address the node still has (`OwnStation`), and the entry the master looks up is the
same each time. `Exact`: in a second node and master agree on, that entry expects the successor of
the last record, which is also the newest (`InOrder`). `GapsAreLosses` is part of the invariant
itself, since what it says of a record was decided by the step that made it. TLC checked the parts
on 645,000 states, and with a box number that is not its slot on 21,000.

*Why AcquisitionInv.* Whether a value is real depends on what failed calls left behind in a device, so
the invariant bounds the devices, not the values: a device stays in the
states its driver's writes can reach (`DevicesOK`), and one that was initialised from standby in those
with the external clock, in whatever prefix a later call was abandoned (`OnClock`). That a value is
real is then a fact about one run of transfers: the SCL3300 answers one command late, so each axis is
the answer to the command before it, from wherever the device started. What a run of transfers does to a device is a
function defined over its length; the lemmas about it (`ReachedStep` and those after it) are
proved by induction, in the form of the least-number principle: take the first transfer after which
the claim fails. TLC checked the invariant first. `BankInv` is about the ICM-42688: the wrong bank is selected
only after an init that stopped half-way, and as long as it is not, what was read of the sensor is what
the registers of bank 0 are named for.

*Why Paced.* What is reported of the clock is read off two anchors, so the two must be worth reading:
`Paced` says that they are whole seconds apart, with as many counts between them as those seconds may
have, however many edges were missed, and that an edge that came twice leaves no distance. From there
it is arithmetic: `MeasuredRate` (the seconds cancel, and the truncated rate stays within the
wander), `DriftOfRate` (truncating again keeps the sign), `LineMisses` (a line whose slope is off by a share
misses every point by that share, and by the one unit the division cuts off).

*Assumptions.* `NodeAssumption`, `NoneAssumption`, `MasterAssumption`, `AppAssumption`,
`DetectAssumption`, `ByteAssumption`, `TriggerAssumption`, `TimeAssumption`, `NetAssumption`,
`StreamAssumption`, `AcquisitionAssumption`: addresses below 255, positive widths, spans and rates, the
slots 1..MaxNodes are addresses, the empty value is no frame, a clock does not wander by its
own rate, the master is none of the nodes, the stream has one node, a byte has at most eight bits, at most 31 bits
are dropped (nic_node.c:61), a payload has room for the three axes (`payload[32]`, node/main_app.c:220),
the telemetry's other values fit their fields, and noise changes something. TLC evaluates them in every run.
`DriftTheorem` has the hypothesis `Nominal <= Billion`: a clock below 1 GHz, as `nic_timesync.h` has it
(8192000). A faster one could be off by a count a second with a drift of 0 parts reported; the run
`timesync` has it too. `SegmentArbitrates` and `SegmentDiscovers` have `~Lossy`, as the run `net_start`
has: a box whose answer is lost is missing from the table.

*Only model-checked*: all liveness properties (`NeverLocksUp`, `ClockLossRecovered`,
`Heartbeat`, `HeardSyncStreams`, `EventsEnd`), which the provers do not
reach. Every invariant and every action property of a passing run is a theorem, and so are both
refinements.

## 5. Known departures

Where the code does not do what a document, a comment or a reader expects. The first three have a
run; the others were met while modelling.

* *Reset with a clock loss pending*: run `node_v_reset_clock`.
* *A sample that crosses the TICK*: run `stream_v_gap`.
* *ACK over the next command*: run `net_v_bus`. `discover_and_assign` does not await the ACK of an
  `ASSIGN_ADDR`, nor does `start_network`. The frame of the master that the ACK overlaps is garbled:
  the next box keeps the number it had and its entry is renamed all the same (master/main_app.c:83), or
  a box does not hear the `SYNC` and does not stream. Of boxes numbered 1, 3 and 4 the second keeps
  3 in this way while the third is given slot 3: from then on two boxes answer to one number, and so
  they do when the master restarts. `DiscoveryArbitrated` and `DiscoveryComplete` therefore speak of
  boxes with different numbers.
* *A lost ASSIGN_ADDR* has the same effect on a bus that loses frames.
* *Failed clock switch.* When the PLL does not lock, `NIC_ACT_SWITCH_HSE` leaves UART2 off and the
  pin on the clock; "caller should recover" (nic_clocksync.h:42), and the caller does not. The
  node stays in LISTEN and its loop goes on (`NeverLocksUp`), but the pin is given back to UART2
  only by a clock loss after a repeated SYNC has locked, or by a restart of the processor.
* *SYNC is sent once.* A node that lost its clock and recovered is "automatically" to be resynced
  (SOFTWARE.md:156); the run loop marks it lost, stores a KO marker and sends no SYNC.
* *A resend in someone's slot.* `RESEND_DATA` is answered at once (node/main_app.c:322-324) while
  the self-timed slots of the other nodes go on.
* *A latch that outlives its clock.* `s_clock_lost` set during a switch that fails, or before a
  reset, stops the next stream on a healthy clock, and no SYNC follows. A
  restart of the master while its nodes switch leaves it behind: `HeardSyncStreams` says that
  streaming is reached, not that it lasts.
* *The wrong bank.* An init of the ICM-42688 that stops after nq_icm42688.c:37 leaves register bank 1
  selected, and nothing selects bank 0 but the next init. Until then `nq_icm42688_read` and
  `nq_icm42688_read_temp` return the content of other registers as samples and as a temperature.
  `HousekeepingIsReal` and `OneFailureOneSensor` say nothing of a sensor left like that (`Usable`).
* *Peak of the frame*: the LoRa frame carries the largest peak since the last frame
  (master/main_app.c:27), though nic_lora.h:20 calls it the "last event peak".
* *An answer to anybody.* In LISTEN a queued reply is sent upon any control frame the node decodes,
  also one for another node (node/main_app.c:391 is not conditional on `handle_ctrl`).
  `NeverAsynchronous` allows it: it asks for a frame, not for one with this node's address.
* *Init of a running ADXL355.* `HARD_RESET` leaves the sensors as they are, and the init then writes
  RANGE, which "may only be written in standby". After a change to 8 g the node believes 2 g; what
  the device does is open. `ClockedOnceInitialised` and `RangeChangeTakes` therefore speak of inits
  from standby and of range changes.
* *Gravity in the trigger.* `seismic_mag` sums the absolute values of all axes with gravity in
  them, about 16000 counts at rest. With a ratio of four an event takes more than four g, and its
  peak is always above the 8000 that make it "strong", although nq_detect.h:6-8 speaks of weak
  events. A change from 8 g to 2 g multiplies gravity itself by four. A primary node without an
  ADXL355 is read through the fields of another sensor (comment at master/main_app.c:41).
* *A calibration that gives up* is acknowledged like one that succeeded (node/main_app.c:435).
* *A suspect clock before anything streams*: `board_master_clock_suspect` is called in the first
  iteration, when no node can have been heard (master/main_app.c:179).
* *A stale payload length*: what `STATUS` announced at discovery is used for ever
  (nic_master.c:74).

## 6. Not modelled

* nq-cal and nic_math: floating-point matrices. TLA+ has no floating point, and over exact numbers
  the rounding that matters would be gone. NicNode keeps whether the levelling was rebuilt.
* `nq_scl3300_init_auto` and `nq_scl3300_read_ang`: no caller. The CRC-8 of the SCL3300 and the
  byte layouts of the drivers.
* Peripherals, flash, delays and start-up code: plain hardware access.
* Wi-Fi, NTP, the archive: behind stubs of `board_master.c` at this commit. nic-timesync is
  modelled, though neither application calls it yet.
* A power cut of a single node in a running Network (NicNode has it for a node alone).

## 7. What is left

1. Network: a node that restarts alone, and two restarts of the master; larger instances.
2. When `board_slot_due`, the silent slots and the archive stop being stubs: their models, and the
   departures above again.
