SPECIFICATION MCSpec
CONSTANTS
  i1 = i1
  i2 = i2
  Items = {i1, i2}
  Remote = {i2}
  MaxAttempts = 2
  MaxCrashes = 1
  MaxCancels = 1
  MaxFetchFails = 1
  MaxEvents = 2
INVARIANTS
  ClusterInv
  ClosedRunIsDone
  RunOutcome
PROPERTIES
  PromiseKept
  RunEnds
CHECK_DEADLOCK FALSE
