CONSTANTS
  health = health
  short = short
  medium = medium
  t1 = t1
  Missing = Missing
  Fields = {health}
  Horizons = {short, medium}
  Threads = {t1}
  Unit = 4
  AbandonThreshold = 2
  Distance <- MCDistance
  Predicted <- MCPredicted
  Observed <- MCObserved
  Confidences <- MCConfidences
  MaxSamples = 3
  MaxForecasts = 2
  MaxCycles = 3
  MaxAborts = 1
  MaxRestarts = 1
SPECIFICATION Spec
INVARIANTS
  ScoredInTimeAndOnce
  FilesLagOnlyAfterFailure
  GateHolds
  SettledRefreshesLinked
PROPERTIES
  EndIsDurable
  ImplementsLedger
  EveryForecastSettles
CHECK_DEADLOCK FALSE
