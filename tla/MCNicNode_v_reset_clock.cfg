CONSTANTS
  n1 = n1
  None = None
  Node <- MCNode
  HwAddr <- MCHwAddr
  Addr <- MCAddr
  Slot <- MCSlot
  SensorSets <- MCFullBoard
  FlashCal = {"identity", "level"}
  QueryOp = {"VERSION"}
  CfgOp = {"CFG0"}
  Op <- MCResetOps
  IndexMod = 2
  HkDiv = 2
SPECIFICATION PoweredSpec
PROPERTY LossAlwaysRecovered
