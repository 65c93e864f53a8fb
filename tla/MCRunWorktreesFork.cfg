CONSTANTS
  MaxOps = 3
  MaxCreates = 1
  MaxMoves = 0
  MaxFaults = 0
SPECIFICATION Spec
CHECK_DEADLOCK FALSE
INVARIANTS
  OriginalPreserved
