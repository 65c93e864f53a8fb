CONSTANTS
  MaxRequests = 3
  Asks <- MCAsks
  MaxFaults = 1
SPECIFICATION FairSpec
CHECK_DEADLOCK FALSE
INVARIANTS
  SwapsHold
PROPERTIES
  EveryRequestAnswered
  SoleRoleComesUp
