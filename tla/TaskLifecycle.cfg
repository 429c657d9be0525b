SPECIFICATION MCSpec
CONSTANTS
  t1 = t1
  t2 = t2
  Tasks = {t1, t2}
  MaxAttempts = 2
  MaxCrashes = 1
  MaxCancels = 1
  MaxEvents = 1
  NoTask = NoTask
INVARIANTS
  LifecycleInv
  ActiveUnique
  NobodyForgets
PROPERTIES
  EventuallyFree
CHECK_DEADLOCK FALSE
