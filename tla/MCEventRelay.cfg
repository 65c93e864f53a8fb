CONSTANTS
  MaxLog = 3
  PageSize = 2
  MaxFaults = 0
SPECIFICATION FairSpec
CHECK_DEADLOCK FALSE
PROPERTIES
  EveryEventForwarded
