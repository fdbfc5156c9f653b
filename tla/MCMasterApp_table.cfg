CONSTANTS
  Station <- MCStation
  Lens = {1, 2}
  QueryOp = {"NODE_TYPE"}
  CritOp = {"ASSIGN_ADDR"}
  MaxNodes = 2
  IndexMod = 2
  NoOp = NoOp
  SecMod = 2
  LoraPeriod = 2
  StrongCooldown = 1
  MaxPeak = 0
  StrongPeak = 1
  StatusByte = {{}}
  MaxOwed = 0
  None = None
SPECIFICATION Spec
INVARIANTS
  AppTypeOK
  AssignedSoFar
