CONSTANTS
  r1 = r1
  r2 = r2
  p1 = p1
  p2 = p2
  Runs = {r1, r2}
  Passes = {p1, p2}
  BatchSize = 2
  MaxStops = 2
  MaxFaults = 1
SPECIFICATION StoreFairSpec
CHECK_DEADLOCK FALSE
INVARIANTS
  StoreHolds
PROPERTIES
  EventuallyEmbedded
