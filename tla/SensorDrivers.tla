--------------------------- MODULE SensorDrivers ---------------------------
(***************************************************************************)
(* The drivers nq-adxl355, nq-icm42688 and nq-scl3300: the SPI transfers   *)
(* each function makes, in their order, and what a device makes of them.   *)
(* A driver function gives up at the first transfer that fails.            *)
(***************************************************************************)
EXTENDS Naturals, Sequences

Sensors == {"ADXL355", "ICM42688", "SCL3300"}

Write(r, v) == [reg |-> r, val |-> v]

\* What a function sends to configure its device.
AdxlInit(range) == << Write("FILTER", "ODR_125"), Write("SYNC", "EXT_CLK"),
                      Write("RANGE", range), Write("POWER_CTL", "MEASURE") >>

\* Mutant of AdxlSetRange: the range is written while the device measures.
BugAdxlSetRange(range) == << Write("RANGE", range) >>

AdxlSetRange(range) == << Write("POWER_CTL", "STANDBY"), Write("RANGE", range),
                          Write("POWER_CTL", "MEASURE") >>

\* Mutant of IcmInit: the way back to bank 0 is forgotten.
BugIcmInit(accel) ==
  << Write("BANK_SEL", 1), Write("INTF_CONFIG5", "CLKIN"),
     Write("INTF_CONFIG1", "RTC"), Write("GYRO_CONFIG0", "15dps"), Write("ACCEL_CONFIG0", accel),
     Write("INT_CONFIG", "INT1"), Write("INT_SOURCE0", "DRDY"), Write("PWR_MGMT0", "ON") >>

IcmInit(accel) ==
  << Write("BANK_SEL", 1), Write("INTF_CONFIG5", "CLKIN"), Write("BANK_SEL", 0),
     Write("INTF_CONFIG1", "RTC"), Write("GYRO_CONFIG0", "15dps"), Write("ACCEL_CONFIG0", accel),
     Write("INT_CONFIG", "INT1"), Write("INT_SOURCE0", "DRDY"), Write("PWR_MGMT0", "ON") >>

IcmSetAccelRange(accel) == << Write("ACCEL_CONFIG0", accel) >>
IcmSetGyroRange(gyro)   == << Write("GYRO_CONFIG0", gyro) >>

\* The SCL3300 has commands, the last two of them the read of its status.
SclInit(m) == << Write("CMD", "SWRESET"), Write("CMD", m), Write("CMD", "ENABLE_ANGLE"),
                 Write("CMD", "STATUS"), Write("CMD", "STATUS") >>
----------------------------------------------------------------------------
(* The devices, by what the drivers' headers say of them.                  *)

\* The registers a device comes up with: "default/standby state" (D12).
PowerOn == [ADXL355  |-> [FILTER |-> "default", SYNC |-> "default", RANGE |-> "2g",
                          POWER_CTL |-> "STANDBY"],
            ICM42688 |-> [BANK_SEL |-> 0, INTF_CONFIG5 |-> "default",
                          INTF_CONFIG1 |-> "default", GYRO_CONFIG0 |-> "2000dps",
                          ACCEL_CONFIG0 |-> "16g", INT_CONFIG |-> "default",
                          INT_SOURCE0 |-> "default", PWR_MGMT0 |-> "OFF"],
            SCL3300  |-> [MODE |-> "MODE1", ANGLE |-> FALSE, ANSWER |-> "none"]]

\* "RANGE may only be written in standby": what a write that comes while the
\* device measures does is open.
AdxlTakes(d, t) ==
  {[d EXCEPT ![t.reg] = t.val]}
    \cup IF t.reg # "POWER_CTL" /\ d.POWER_CTL = "MEASURE" THEN {d} ELSE {}

\* INTF_CONFIG5 is in bank 1, the bank select in every bank, the rest in bank 0.
Bank(r) == IF r = "INTF_CONFIG5" THEN 1 ELSE 0
IcmTakes(d, t) == IF t.reg = "BANK_SEL" \/ d.BANK_SEL = Bank(t.reg)
                  THEN {[d EXCEPT ![t.reg] = t.val]} ELSE {d}

Modes == {"MODE1", "MODE4"}

\* The response to a command comes with the next one.
SclTakes(d, t) ==
  {[d EXCEPT !.MODE   = IF t.val = "SWRESET" THEN "MODE1" ELSE IF t.val \in Modes THEN t.val ELSE @,
             !.ANGLE  = IF t.val = "SWRESET" THEN FALSE
                        ELSE IF t.val = "ENABLE_ANGLE" THEN TRUE ELSE @,
             !.ANSWER = t.val]}

Takes(s, d, t) == CASE s = "ADXL355"  -> AdxlTakes(d, t)
                    [] s = "ICM42688" -> IcmTakes(d, t)
                    [] s = "SCL3300"  -> SclTakes(d, t)

\* The states device d may be in after transfers ts.
After(s, d, ts) ==
  LET reached[n \in 0..Len(ts)] ==
        IF n = 0 THEN {d} ELSE UNION {Takes(s, x, ts[n]) : x \in reached[n - 1]}
  IN reached[Len(ts)]

\* A call that fails has made some of its transfers; the one that was reported
\* as failed may have reached the device all the same.
Abandoned(s, d, ts) == UNION {After(s, d, SubSeq(ts, 1, k)) : k \in 0..Len(ts)}
----------------------------------------------------------------------------
(* Reading.                                                                *)

\* A probe reads the identity; only the ICM-42688's depends on its bank.
Identifies(s, d) == s = "ICM42688" => d.BANK_SEL = Bank("WHO_AM_I")

\* Mutant of SclRead: one exchange, whose response is taken for the answer.
BugSclRead(d, r) == [got |-> d.ANSWER, dev |-> CHOOSE x \in SclTakes(d, Write("CMD", r)) : TRUE]

\* scl_read: the command twice, the response to the second is the answer.
SclRead(d, r) ==
  LET first  == CHOOSE x \in SclTakes(d, Write("CMD", r)) : TRUE
      second == CHOOSE x \in SclTakes(first, Write("CMD", r)) : TRUE
  IN [got |-> first.ANSWER, dev |-> second]

\* scl_read3 for the accelerations: the three axes, and the device after each.
SclReadAcc(d) ==
  LET x == SclRead(d, "ACC_X")
      y == SclRead(x.dev, "ACC_Y")
      z == SclRead(y.dev, "ACC_Z")
  IN [got |-> <<x.got, y.got, z.got>>, dev |-> <<x.dev, y.dev, z.dev>>]
=============================================================================
