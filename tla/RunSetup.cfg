SPECIFICATION SetupSpec
CONSTANTS
  SetupRuns = {1, 2}
  MaxSetupFaults = 1
  PageSize = 1
  MaxPages = 2
  AnchorAt = {1, 2, 3}
CHECK_DEADLOCK FALSE
INVARIANTS
  RiskyCallsAreAsked
