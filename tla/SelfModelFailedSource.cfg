CONSTANTS
  a = a
  b = b
  Sources = {a, b}
  Readings <- MCReadings
  Rehearsed = {}
  Unit = 4
  HasStore = TRUE
  MinSamples = 3
  Window = 3
  Warn = 20
  Critical = 35
  MaxTicks = 2
  MaxRestarts = 0
SPECIFICATION Safety
INVARIANT FailedSourceScoresZero
