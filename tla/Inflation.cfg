SPECIFICATION InflationSpec
CONSTANTS
  Ids <- MCIds
  Duration <- MCDuration
  StartTimes = {0, 3}
  GenesisTime = 1
  MaxTime = 6
  MaxImports = 1
  DayEpochID = "day"
  Addrs = {"alice", "module"}
  Replicas = {n1, n2}
  Spellings = {"lower", "upper"}
  MaxContracts = 2
  GenesisRoot = "alice"
  Node = n1
  Blocked = {"module"}
  Curves <- MCCurveFns
  Distributions <- MCDistributions
  Whole = 3
  EpochsPerPeriods = {0, 1, 2}
  MaxPeriods = {3}
  MaxEdits = 2
INVARIANT TimersFollowClock
PROPERTY HooksFollowEpochs
INVARIANTS EveryEpochAccounted NothingStranded PermissionsAgree
PROPERTY OnlyRootEdits
CHECK_DEADLOCK FALSE
