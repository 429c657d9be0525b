SPECIFICATION MCSpec
CONSTANTS
  i1 = i1
  i2 = i2
  Items = {i1, i2}
  Remote = {}
  MaxAttempts = 1
  MaxCrashes = 0
  MaxCancels = 1
  MaxFetchFails = 0
  MaxEvents = 2
INVARIANT RunFinalized
CHECK_DEADLOCK FALSE
