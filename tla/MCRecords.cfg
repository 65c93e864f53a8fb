SPECIFICATION RecordsSpec
CONSTANTS
  Paths = {p1}
  Contents = {c1, c2}
  Plans = {"l1"}
  MaxLog = 4
  MaxOpen = 2
  Tokens = 3
  Sayings <- MCSayings
  Results <- MCResults
  Commits = {1}
  MaxConvs = 2
  DashPlaces <- MCPlaces
  DayLen = 2
  PeriodDays <- MCPeriods
  ChartDays = 2
  PageLimit = 1
  FetchCap = 2
  LastTick = 3
  TaskList <- MCTasks
  WallLaps = 1
  ToolCap = 1
  MaxSessions = 2
  MaxMishaps = 2
  PatchPaths = {"p", "q"}
  MaxLines = 5
  MaxPairs = 4
  MaxModelLen = 12
  MaxTokensCeiling = 5
  MaxTokensFloor = 2
  SafetyMargin = 1
  Manifest <- MCTasks
  Tagged = {"t2"}
  Strategies = {"head", "tag"}
  Limit = 2
  MaxCycles = 1
  MaxEvalFaults = 2
  SetupRuns = {1, 2}
  MaxSetupFaults = 1
  PageSize = 1
  MaxPages = 2
  AnchorAt = {1, 2, 3}
  Writers = {"w1", "w2"}
  Sessions = {"s1", "s2"}
  MaxWrites = 3
  MaxSidecarFaults = 1
  Threads = {"a", "b"}
  Seeded = 2
  MaxOps = 3
  RegistryCalls = {1, 2, 3}
  MaxRefusals = 1
  Repos = {"r"}
  Files = {"p", "t"}
  TsFiles = {"t"}
  Names = {"a", "b"}
  Callers = {"c1", "c2"}
  GraphLimit = 2
  CallerLimit = 2
  CalleeLimit = 2
  BundleLimit = 3
  Trees <- MCTrees
  Drafts <- MCDrafts
  MaxEdits = 1
  MaxIndexes = 2
  MaxGraphFaults = 1
  Triples = {"s", "t", "u"}
  Words <- MCWords
  Corpora = {"main", "other"}
  Default = "main"
  Curators = {"x", "y"}
  TopK = 1
  MaxMemories = 2
  MaxMemoryFaults = 1
SYMMETRY MCSymmetry
CHECK_DEADLOCK FALSE
INVARIANTS
  RecordsTypeOK
  ReportsHold
  EveryStandingRunCounted
  SessionsHold
  SummaryIsHonest
  SetupIsSafe
  NoLostChange
  BffStateHolds
  RepoGraphHolds
  MemoryHolds
PROPERTIES
  ProposalsArePreserved
