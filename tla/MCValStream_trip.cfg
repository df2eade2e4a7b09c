SPECIFICATION Spec
CONSTANTS
  Wild = Wild
  Vals <- AllVals
  MaxVals = 3
  MaxNest = 4
INVARIANTS ReadBack InStep
PROPERTIES FailsAtEnd
CHECK_DEADLOCK FALSE
