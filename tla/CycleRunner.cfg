CONSTANTS
  short = short
  medium = medium
  Horizons = {short, medium}
  Wirings <- MCWirings
  Distance <- MCDistance
  ReindexLimit = 3
  MaxAnomalies = 1
  MaxFailures <- MCMaxFailures
  MaxCycles = 2
  MaxRestarts = 1
SPECIFICATION Spec
INVARIANTS
  SnapshotFilesAgree
  StaleReportIsFlagged
  GoodCycleIsPublished
  EveryModuleIsCalled
  FeedbackInTime
  MemoryTellsOfCycles
CHECK_DEADLOCK FALSE
