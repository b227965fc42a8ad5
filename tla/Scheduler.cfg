CONSTANTS
  none = none
  Unlimited = none
  MaxCyclesValues <- MCMaxCycles
  CycleBound = 4
SPECIFICATION SchedulerSpec
INVARIANTS
  AtMostOneMoreCycle
PROPERTIES
  Ends
  ImplementsService
CHECK_DEADLOCK FALSE
