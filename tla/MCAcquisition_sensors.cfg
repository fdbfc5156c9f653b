CONSTANTS
  Fitted <- MCFitted
  AdxlRange = {"2g", "8g"}
  IcmAccel = {"8g"}
  IcmGyro = {"15dps"}
  SclMode = {"MODE1", "MODE4"}
  MaxSamples = 2
  MaxFailures = 2
SPECIFICATION Spec
INVARIANTS
  HousekeepingIsReal
  OneFailureOneSensor
  ClockedOnceInitialised
PROPERTY RangeChangeTakes
