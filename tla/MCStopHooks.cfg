CONSTANTS
  Sessions = {s1, s2}
  s1 = s1
  s2 = s2
  MaxIterations = 2
  MaxTasks = 1
  MaxKills = 1
  MaxBlocks = 2
SPECIFICATION FairSpec
CHECK_DEADLOCK FALSE
INVARIANTS
  RetryBound
  WithinBudget
  VerdictsHold
PROPERTIES
  AgentIsLetGo
