CONSTANTS
  n1 = n1
  n2 = n2
  Master = Master
  None = None
  Node <- MCNode
  HwAddr <- MCHwAddr
  Addr = {1, 2, 3}
  Slot = {1, 2, 3}
  SensorSets <- MCSensorSets
  FlashCal = {"identity"}
  QueryOp = {"NODE_TYPE"}
  CfgOp = {}
  Op <- AnyOp
  IndexMod = 2
  HkDiv = 1
  MaxNodes = 3
  SecMod = 1
  Lossy = FALSE
  Sampling = {n1}
  Restarts = 1
SPECIFICATION FairNetSpec
INVARIANTS
  DiscoveryArbitrated
  DiscoveryComplete
PROPERTY HeardSyncStreams
