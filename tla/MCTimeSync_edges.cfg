SPECIFICATION Spec
CONSTANTS
  Second    = 1000
  Billion   = 1000
  Nominal   = 12
  Wander    = 1
  MaxMissed = 2
  MaxEdges  = 4
INVARIANTS TypeOK AnchoredTime DriftIsReal
PROPERTY StepIsBounded
CHECK_DEADLOCK FALSE
