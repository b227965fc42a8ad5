SPECIFICATION Spec
CONSTANTS
  a = a
  b = b
  c = c
  Nodes = {a, b, c}
  Outside = outside
  NoSeed = none
  Declared <- MCDeclared
  Graphs <- MCGraphs
  Seedings <- MCSeedings
  Unit = 40
  FixedValues = {30}
INVARIANTS
  SortIsRight
  UpstreamIsFinal
  InterventionIsLocal
  ReportIsBounded
CHECK_DEADLOCK FALSE
