SPECIFICATION Spec
CONSTANTS
  n = n
  g = g
  Nodes = {n}
  Scores = {0, 10}
  Interventions <- MCInterventions
  Other = other
  NoFile = none
  Threshold = 2
  Cycles = {0, 1, 3}
  MaxSamples = 2
  LambdaNum = 1
  LambdaDen = 2
  Decay <- MCDecay
  Graphs = {TRUE, FALSE}
  GraphNodes = {n, g}
  Spread <- MCSpread
  Index <- MCIndex
  Period = 12
  MaxWrites = 3
  MaxForks = 2
INVARIANTS
  VerdictFollowsFiles
  QuietVerdictIsProposal
  TwinIsIsolated
CHECK_DEADLOCK FALSE
