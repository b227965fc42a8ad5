CONSTANTS
  health = health
  short = short
  Fields = {health}
  Horizons = {short}
  Unit = 6
  Predicted <- MCPredicted
  Observed <- MCObserved
  MaxSamples = 4
SPECIFICATION CalibrationSpec
INVARIANTS
  ErrorsBounded
  DriftBounded
PROPERTIES
  SamplesAreKept
