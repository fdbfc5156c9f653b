---------------------------- MODULE Acquisition ----------------------------
(***************************************************************************)
(* How the node's application uses the drivers: detection and the default  *)
(* configuration at boot, config slots, the sample taken on DRDY and the   *)
(* housekeeping poll, over SPI buses that may fail.  What a sensor         *)
(* measures is abstracted to which sensor measured it, and when.           *)
(***************************************************************************)
EXTENDS SensorDrivers, FiniteSets

CONSTANTS
  Fitted,       \* the sensors on the board
  AdxlRange,    \* NQ_ADXL355_RANGE_1..3, by what they mean
  IcmAccel,     \* the accelerometer ranges, in g
  IcmGyro,      \* the gyroscope ranges, in dps
  SclMode,      \* NQ_SCL3300_CMD_MODE1, 4
  MaxSamples,   \* bound: samples since power-up, calls that wait for one included
  MaxFailures   \* bound: SPI transfers that fail

ASSUME AcquisitionAssumption ==
  /\ Fitted \subseteq Sensors
  /\ SclMode \subseteq Modes
  /\ MaxSamples \in Nat /\ MaxFailures \in Nat

VARIABLES
  dev,       \* the registers of each device
  phase,     \* what the application does next: "detect", the init of a sensor, "run", "poll"
  sMap,      \* s_map: the sensors found
  sTilt,     \* s_scl_tilt: its three axes
  sTemp,     \* s_temp_adxl, s_temp_icm, s_temp_scl
  fields,    \* the fields of the last sample, in payload order
  samples,   \* samples taken
  spoiled,   \* history: the sensors that could not be read for the last of them
  failures,  \* calls that have failed
  promised,  \* history: each slot's setting as of the last call that reported it done
  inited,    \* history: sensors whose init has reported done since they had power,
             \* for the ADXL355 an init that found it in standby
  unfinished \* history: sensors whose last init since they had power did not report done

data  == <<sTilt, sTemp, fields, samples, spoiled>>
inits == <<inited, unfinished>>
avars == <<dev, phase, sMap, data, failures, promised, inits>>

None == "none"
Zero == [of |-> "static", at |-> 0]    \* what a static holds before it is written
Junk == [of |-> "stack", at |-> 0]     \* what an uninitialised local holds

\* The config slots of the seismo front and the register each sets.
CfgSlot    == {"ADXL_RANGE", "ICM_ACCEL", "ICM_GYRO", "SCL_MODE"}
Values(c)  == CASE c = "ADXL_RANGE" -> AdxlRange [] c = "ICM_ACCEL" -> IcmAccel
                [] c = "ICM_GYRO"   -> IcmGyro   [] c = "SCL_MODE"  -> SclMode
Of(c)      == CASE c = "ADXL_RANGE" -> "ADXL355" [] c = "SCL_MODE" -> "SCL3300"
                [] OTHER -> "ICM42688"
Setting(c) == CASE c = "ADXL_RANGE" -> dev["ADXL355"].RANGE
                [] c = "ICM_ACCEL"  -> dev["ICM42688"].ACCEL_CONFIG0
                [] c = "ICM_GYRO"   -> dev["ICM42688"].GYRO_CONFIG0
                [] c = "SCL_MODE"   -> dev["SCL3300"].MODE

\* CFG_ADXL_RANGE, CFG_ICM_ACCEL, the gyroscope's default and CFG_SCL_MODE.
Default(c) == CASE c = "ADXL_RANGE" -> "2g"    [] c = "ICM_ACCEL" -> "8g"
                [] c = "ICM_GYRO"   -> "15dps" [] c = "SCL_MODE"  -> "MODE1"

Init == /\ dev = PowerOn /\ phase = "detect" /\ sMap = {}
        /\ sTilt = <<Zero, Zero, Zero>> /\ sTemp = [s \in Sensors |-> Zero]
        /\ fields = <<>> /\ samples = 0 /\ spoiled = {} /\ failures = 0
        /\ promised = [c \in CfgSlot |-> None] /\ inited = {} /\ unfinished = {}

\* The calls in bad fail.
Failing(bad) == /\ failures' = failures + Cardinality(bad)
                /\ failures' <= MaxFailures

\* A call that sends ts to s and returns NIC_OK, or does not.
Sends(s, ts, ok) ==
  \E d \in IF ok THEN After(s, dev[s], ts) ELSE Abandoned(s, dev[s], ts) :
    dev' = [dev EXCEPT ![s] = d]
----------------------------------------------------------------------------
(* Configuration.                                                          *)

\* nq_sensors_detect: a probe that fails, or reads another identity, means absent.
Detect ==
  /\ phase = "detect"
  /\ \E bad \in SUBSET Fitted :
       /\ Failing(bad)
       /\ sMap' = {s \in Fitted \ bad : Identifies(s, dev[s])}
  /\ phase' = "ICM42688"
  /\ UNCHANGED <<dev, data, promised, inits>>

InitOf(s) == CASE s = "ICM42688" -> IcmInit(Default("ICM_ACCEL"))
               [] s = "ADXL355"  -> AdxlInit(Default("ADXL_RANGE"))
               [] s = "SCL3300"  -> SclInit(Default("SCL_MODE"))

\* configure_sensors: one init after the other, whatever they return.
Configure(s) ==
  /\ phase = s
  /\ IF s \in sMap
     THEN \E ok \in BOOLEAN :
            /\ Failing(IF ok THEN {} ELSE {s})
            /\ Sends(s, InitOf(s), ok)
            /\ promised' = [c \in CfgSlot |-> IF Of(c) # s THEN promised[c]
                                              ELSE IF ok THEN Default(c) ELSE None]
            /\ inited' = IF ok /\ (s = "ADXL355" => dev[s].POWER_CTL = "STANDBY")
                         THEN inited \cup {s} ELSE inited
            /\ unfinished' = IF ok THEN unfinished \ {s} ELSE unfinished \cup {s}
     ELSE UNCHANGED <<dev, failures, promised, inits>>
  /\ phase' = CASE s = "ICM42688" -> "ADXL355" [] s = "ADXL355" -> "SCL3300"
                [] s = "SCL3300" -> "run"
  /\ UNCHANGED <<sMap, data>>

Sets(c, v) == CASE c = "ADXL_RANGE" -> AdxlSetRange(v)
                [] c = "ICM_ACCEL"  -> IcmSetAccelRange(v)
                [] c = "ICM_GYRO"   -> IcmSetGyroRange(v)
                [] c = "SCL_MODE"   -> SclInit(v)

\* apply_cfg: whatever was detected, whatever the driver returns.
ApplyCfg(c, v) ==
  /\ phase = "run" /\ Of(c) \in Fitted
  /\ \E ok \in BOOLEAN :
       /\ Failing(IF ok THEN {} ELSE {c})
       /\ Sends(Of(c), Sets(c, v), ok)
       /\ promised' = [promised EXCEPT ![c] = IF ok THEN v ELSE None]
  /\ UNCHANGED <<phase, sMap, data, inits>>
----------------------------------------------------------------------------
(* Samples.                                                                *)

\* What a read of the sensor gives now: from the wrong bank another register.
From(s, what)    == IF Identifies(s, dev[s]) THEN what ELSE "bank 1"
Reading(s, what) == [of |-> From(s, what), at |-> samples']

Source == IF "ADXL355" \in sMap THEN "ADXL355"
          ELSE IF "ICM42688" \in sMap THEN "ICM42688" ELSE None

\* The source raises DRDY only while it measures.
DataReady == \/ Source = "ADXL355" /\ dev["ADXL355"].POWER_CTL = "MEASURE"
             \/ Source = "ICM42688" /\ dev["ICM42688"].PWR_MGMT0 = "ON"
                                    /\ dev["ICM42688"].INT_SOURCE0 = "DRDY"

Field(name, val) == [name |-> name, val |-> val]

\* Mutant of Fields: the sensors are read first, the fields are built after.
BugFields(a, b, gyr) ==
  (IF "ADXL355" \in sMap THEN <<Field("ADXL355", IF "ICM42688" \in sMap THEN b ELSE a)>>
                         ELSE <<>>)
  \o (IF "ICM42688" \in sMap THEN <<Field("ICM_ACCEL", b), Field("ICM_GYRO", gyr)>> ELSE <<>>)
  \o (IF "SCL3300" \in sMap THEN <<Field("SCL3300", sTilt)>> ELSE <<>>)

\* The payload's layout; a and b are the local "a" after the first and the second read.
Fields(a, b, gyr) ==
  (IF "ADXL355" \in sMap THEN <<Field("ADXL355", a)>> ELSE <<>>)
  \o (IF "ICM42688" \in sMap THEN <<Field("ICM_ACCEL", b), Field("ICM_GYRO", gyr)>> ELSE <<>>)
  \o (IF "SCL3300" \in sMap THEN <<Field("SCL3300", sTilt)>> ELSE <<>>)

\* sample_to_buffer: a read that fails leaves its local as it was, and the ICM's
\* accelerometer shares its local with the ADXL355.
SampleToBuffer(bad) ==
  /\ phase = "run" /\ DataReady /\ samples < MaxSamples
  /\ bad \subseteq sMap \ {"SCL3300"} /\ Failing(bad)
  /\ samples' = samples + 1 /\ spoiled' = bad
  /\ LET a   == IF "ADXL355" \in sMap \ bad THEN Reading("ADXL355", "ADXL355") ELSE Junk
         b   == IF "ICM42688" \in bad THEN a ELSE Reading("ICM42688", "ICM_ACCEL")
         gyr == IF "ICM42688" \in bad THEN Junk ELSE Reading("ICM42688", "ICM_GYRO")
     IN fields' = Fields(a, b, gyr)
  /\ phase' \in {"run", "poll"}       \* s_hk_div
  /\ UNCHANGED <<dev, sMap, sTilt, sTemp, promised, inits>>

Axes == <<"ACC_X", "ACC_Y", "ACC_Z">>

\* poll_housekeeping: what cannot be read keeps its last value, the tilt as a whole.
PollHousekeeping(bad) ==
  /\ phase = "poll" /\ phase' = "run"
  /\ bad \subseteq sMap \cup (IF "SCL3300" \in sMap THEN {"tilt"} ELSE {}) /\ Failing(bad)
  /\ \E n \in IF "tilt" \in bad THEN 0..2 ELSE {3} :       \* the axes that were read
       LET acc  == SclReadAcc(dev["SCL3300"])
           scl  == IF n = 0 THEN dev["SCL3300"] ELSE acc.dev[n]
           temp == SclRead(scl, "TEMP")
       IN IF "SCL3300" \notin sMap
          THEN /\ UNCHANGED <<dev, sTilt>>
               /\ sTemp' = [s \in Sensors |-> IF s \in sMap \ bad
                                              THEN [of |-> From(s, s), at |-> samples] ELSE sTemp[s]]
          ELSE /\ sTilt' = IF n = 3 THEN [i \in 1..3 |-> [of |-> acc.got[i], at |-> samples]]
                                    ELSE sTilt
               /\ dev' = [dev EXCEPT !["SCL3300"] = IF "SCL3300" \in bad THEN scl ELSE temp.dev]
               /\ sTemp' = [s \in Sensors |->
                              IF s \notin sMap \ bad THEN sTemp[s]
                              ELSE [of |-> IF s = "SCL3300" THEN temp.got ELSE From(s, s),
                                    at |-> samples]]
  /\ UNCHANGED <<sMap, fields, samples, spoiled, promised, inits>>
----------------------------------------------------------------------------
(* Restarts.                                                               *)

\* HARD_RESET goes back to BOOT: neither the statics nor the devices change.
HardReset == /\ phase = "run" /\ phase' = "detect"
             /\ UNCHANGED <<dev, sMap, data, failures, promised, inits>>

\* The watchdog resets the MCU: its statics are zeroed, the devices are not reset.
StaticsZeroed == /\ sTilt' = <<Zero, Zero, Zero>> /\ sTemp' = [s \in Sensors |-> Zero]
                 /\ fields' = <<>> /\ sMap' = {}

McuReset == /\ phase' = "detect" /\ StaticsZeroed
            /\ UNCHANGED <<dev, samples, spoiled, failures, promised, inits>>

PowerCycle == /\ dev' = PowerOn /\ phase' = "detect" /\ StaticsZeroed
              /\ promised' = [c \in CfgSlot |-> None]
              /\ inited' = {} /\ unfinished' = {}
              /\ UNCHANGED <<samples, spoiled, failures>>

Next == \/ Detect \/ \E s \in Sensors : Configure(s)
        \/ \E c \in CfgSlot : \E v \in Values(c) : ApplyCfg(c, v)
        \/ \E bad \in SUBSET (Sensors \cup {"tilt"}) :
             \/ SampleToBuffer(bad)
             \/ PollHousekeeping(bad)
        \/ HardReset \/ McuReset \/ PowerCycle

Spec == Init /\ [][Next]_avars
----------------------------------------------------------------------------
(* Properties.                                                             *)

\* An init of the ICM-42688 that stops half-way may leave it in register bank 1
\* (nq_icm42688.c:37-39): then its reads give some other register's content, as
\* long as that is its last init.  Of a sensor left like that nothing is said.
Usable(s) == s \notin unfinished

\* The tilt is always one poll's three axes in their places, and each temperature
\* its own sensor's, whatever transfers fail half-way: the SCL3300 answers one
\* command late, and its poll is left in the middle.
OnePoll(tilt) == \E n \in 1..samples : tilt = [i \in 1..3 |-> [of |-> Axes[i], at |-> n]]
IsTilt(tilt)  == tilt = <<Zero, Zero, Zero>> \/ OnePoll(tilt)
IsTemp(s, reg) == sTemp[s] = Zero \/ sTemp[s].of = reg
HousekeepingIsReal ==
  /\ IsTilt(sTilt)
  /\ IsTemp("ADXL355", "ADXL355") /\ IsTemp("SCL3300", "TEMP")
  /\ Usable("ICM42688") => IsTemp("ICM42688", "ICM42688")

\* A read that fails spoils the fields of its own sensor only: in every sample
\* the others hold what their sensor measured for it, at their own place - those
\* of the ICM-42688 unless its last init stopped half-way.
OneFailureOneSensor ==
  \A i \in DOMAIN fields :
    LET f   == fields[i]
        now == [of |-> f.name, at |-> samples]
    IN /\ f.name = "ADXL355" /\ "ADXL355" \notin spoiled => f.val = now
       /\ f.name = "SCL3300" => IsTilt(f.val)
       /\ f.name \in {"ICM_ACCEL", "ICM_GYRO"} /\ "ICM42688" \notin spoiled
            /\ Usable("ICM42688") => f.val = now

\* A range change the ADXL355 or the SCL3300 driver reports done is done, and
\* the device measures, from whatever state earlier failures had left it in.
RangeChangeTakes ==
  [][\A c \in {"ADXL_RANGE", "SCL_MODE"} :
       phase = "run" /\ promised'[c] \notin {promised[c], None} =>
         /\ Setting(c)' = promised'[c]
         /\ c = "ADXL_RANGE" => dev'["ADXL355"].POWER_CTL = "MEASURE"]_avars

\* Once its init has reported done, from standby, a sensor runs on the master's clock at the
\* network's rate until it loses power, through range changes, resets of the
\* MCU and inits that are repeated or abandoned.
ClockedOnceInitialised ==
  /\ "ADXL355" \in inited => dev["ADXL355"].FILTER = "ODR_125" /\ dev["ADXL355"].SYNC = "EXT_CLK"
  /\ "ICM42688" \in inited => /\ dev["ICM42688"].INTF_CONFIG5 = "CLKIN"
                              /\ dev["ICM42688"].INTF_CONFIG1 = "RTC"
                              /\ dev["ICM42688"].INT_SOURCE0 = "DRDY"
=============================================================================
