CONSTANTS
  n1 = n1
  None = None
  Node <- MCNode
  HwAddr <- MCHwAddr
  Addr <- MCAddr
  Slot <- MCAddr
  SensorSets <- MCSensorSets
  FlashCal = {"identity"}
  QueryOp = {"VERSION"}
  CfgOp = {"CFG0"}
  Op <- AnyOp
  IndexMod = 2
  HkDiv = 2
SPECIFICATION FairSpec
INVARIANTS
  TypeOK
  StreamsOnMasterClock
  ReceiverOffClockPin
PROPERTIES
  NeverAsynchronous
  RepliesAreSent
  ImplementsService
  NeverLocksUp
  ClockLossRecovered
