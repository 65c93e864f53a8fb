CONSTANTS
  MaxLog = 3
  PageSize = 2
  MaxFaults = 2
  Cap = 3
  Drop = 1
SPECIFICATION FeedSpec
CHECK_DEADLOCK FALSE
INVARIANTS
  NoGap
  FeedHolds
PROPERTIES
  FinishedIsForgotten
  CatchesUp
  StatusReported
