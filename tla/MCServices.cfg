SPECIFICATION ServiceSpec
CONSTANTS
  Requests = {1, 2}
  MaxLaps = 2
  MaxLifeFaults = 1
  Cards = {1, 2}
  Samples <- MCSamples
  Environments <- MCEnv
  RingLen = 2
  MaxPolls = 3
  Manifest <- MCManifest
  Tagged = {"t2"}
  Strategies = {"head", "tag"}
  Limit = 1
  MaxCycles = 2
  MaxEvalFaults = 1
CHECK_DEADLOCK FALSE
INVARIANTS
  ServiceTypeOK
  StopLeavesAtRest
  HookHolds
PROPERTIES
  OkMeansStarted
  EveryWaitEnds
