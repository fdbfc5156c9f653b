CONSTANTS
  n1 = n1
  Streamer = n1
  Master = Master
  None = None
  Node <- MCNode
  HwAddr <- MCHwAddr
  Addr = {1}
  Slot = {1}
  SensorSets <- MCSensorSets
  FlashCal = {"identity"}
  QueryOp = {"NODE_TYPE"}
  CfgOp = {}
  Op <- AnyOp
  IndexMod = 5
  HkDiv = 1
  MaxNodes = 1
  SecMod = 2
  Lossy = TRUE
  Sampling = {n1}
  Restarts = 1
  MaxSamples = 3
  MaxFrames = 2
SPECIFICATION StreamSpec
INVARIANTS
  GapsAreLosses
  NeverAheadOfNode
PROPERTY StoredAsTaken
