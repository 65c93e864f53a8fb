CONSTANTS
  MaxOps = 4
  MaxCreates = 1
  MaxMoves = 1
  MaxFaults = 1
SPECIFICATION Spec
CHECK_DEADLOCK FALSE
INVARIANTS
  WorktreesHold
  AnsweredRunHasItsFiles
