CONSTANTS
  k1 = k1
  k2 = k2
  c1 = c1
  c2 = c2
  Key = {k1, k2}
  Conv = {c1, c2}
  ConvOf <- MCConvOf
  MaxCrashes = 1
  MaxClears = 1
SPECIFICATION FairSpec
INVARIANTS
  TypeOK
  NoPhantomResult
  ReexecutionsArePaid
PROPERTIES
  FirstMarkWins
  ImplementsContract
  CallReturns
CHECK_DEADLOCK FALSE
