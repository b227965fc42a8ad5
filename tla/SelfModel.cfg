CONSTANTS
  a = a
  b = b
  Sources = {a, b}
  Readings <- MCReadings
  Rehearsed <- MCRehearsed
  Unit = 4
  HasStore = TRUE
  MinSamples = 3
  Window = 3
  Warn = 20
  Critical = 35
  MaxTicks = 4
  MaxRestarts = 1
SPECIFICATION Safety
INVARIANTS
  AnomaliesAccounted
  FamiliarIsQuiet
  SnapshotIsOneTick
  DroppedPullTheirShare
