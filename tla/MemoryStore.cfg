SPECIFICATION Spec
CONSTANTS
  Handles = {h1, h2}
  ReindexLimit = 2
  TopK = 2
  Capacities <- MCCapacities
  Kinds <- MCKinds
  Times <- MCTimes
  MaxEvents = 3
  MaxFailures = 1
  MaxOpens = 2
SYMMETRY MCSymmetry
INVARIANTS
  FailureCostsOneLine
  IndexFollowsFile
  CompactionKeepsBest
CHECK_DEADLOCK FALSE
