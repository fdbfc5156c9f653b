CONSTANTS
  Station <- MCOne
  Lens = {1}
  QueryOp = {"NODE_TYPE"}
  CritOp = {"ASSIGN_ADDR"}
  MaxNodes = 1
  IndexMod = 2
  NoOp = NoOp
  SecMod = 4
  LoraPeriod = 2
  StrongCooldown = 1
  MaxPeak = 2
  StrongPeak = 2
  StatusByte = {{"sat"}}
  MaxOwed = 2
  None = None
SPECIFICATION FairSpec
INVARIANTS
  EventsReportedOnce
  PeakOfCountedEvents
PROPERTIES
  Heartbeat
