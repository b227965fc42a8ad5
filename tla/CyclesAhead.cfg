CONSTANTS
  short = short
  medium = medium
  Horizons = {short, medium}
  Wirings <- MCFullWiring
  Distance <- MCDistance
  ReindexLimit = 3
  MaxAnomalies = 1
  MaxFailures <- MCNoFailures
  MaxCycles = 2
  MaxRestarts = 1
SPECIFICATION Spec
INVARIANTS
  ScoredCyclesAhead
CHECK_DEADLOCK FALSE
