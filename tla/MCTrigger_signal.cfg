SPECIFICATION Spec
CONSTANTS
  ByteBits   = 2
  Unit       = 2
  StaSpan    = 2
  LtaSpan    = 16
  OnRatio    = 4
  OffRatio   = 2
  StrongPeak = 8
  Drop       = 1
  Cap        = 6
  Motion     <- MCMotion
  Others     <- MCOthers
  Burst      <- MCBurst
  Unreadable = Unreadable
INVARIANTS DetectTypeOK MagnitudeIsMotion EventsHaveCause ReadOrRefused
PROPERTIES PeakIsOfThisEvent EventsEnd
