CONSTANTS
  MaxLog = 2
  PageSize = 1
  MaxFaults = 1
  Window = 1
  ErrorEvents = {2}
SPECIFICATION PageFairSpec
CHECK_DEADLOCK FALSE
INVARIANTS
  PageHolds
PROPERTIES
  ApprovalVisible
