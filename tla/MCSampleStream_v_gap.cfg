CONSTANTS
  n1 = n1
  Streamer = n1
  Master = Master
  None = None
  Node <- MCNode
  HwAddr <- MCHwAddr
  Addr = {1}
  Slot = {1}
  SensorSets <- MCSensorSets
  FlashCal = {"identity"}
  QueryOp = {"NODE_TYPE"}
  CfgOp = {}
  Op <- AnyOp
  IndexMod = 5
  HkDiv = 1
  MaxNodes = 1
  SecMod = 2
  Lossy = FALSE
  Sampling = {n1}
  Restarts = 0
  MaxSamples = 3
  MaxFrames = 3
SPECIFICATION StreamSpec
INVARIANT GapIsMissed
