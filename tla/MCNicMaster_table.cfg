CONSTANTS
  Station <- MCStation
  Lens = {1, 2}
  QueryOp = {"NODE_TYPE"}
  CritOp = {"CALIBRATE"}
  MaxNodes = 2
  IndexMod = 3
  NoOp = NoOp
SPECIFICATION TableSpec
INVARIANTS
  TableTypeOK
  OneEntryPerStation
PROPERTIES
  PlacesAreKept
  ExpectationOnlyAdvances
