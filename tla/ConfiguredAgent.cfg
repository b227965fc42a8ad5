SPECIFICATION Spec
CONSTANTS
  Systems <- MCSystems
  Package <- MCPackage
  Roots = {"configs"}
  Requests <- MCRequests
  Required <- MCRequired
  Null = null
  Wrong = wrong
  MaxDepth = 4
  Turns = {t1, t2}
  Nobody = nobody
  Calls <- MCCalls
  Replies <- MCReplies
  Outage = outage
SYMMETRY MCSymmetry
INVARIANTS
  CircleIsRefused
  NearestWins
  LinesAccounted
  StoredObeysConfiguration
  UnapprovedNeverActs
  PriorityIsMean
CHECK_DEADLOCK FALSE
