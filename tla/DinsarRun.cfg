SPECIFICATION MCSpec
CONSTANTS
  r1 = r1
  r2 = r2
  NoRun = NoRun
  Runs = {r1, r2}
  Size <- TwoAndOne
  MaxEvents = 1
INVARIANTS
  DinsarInv
  CancelHeeded
  CountersTrue
PROPERTIES
  OneAtATime
  PromiseKept
  RunEnds
CHECK_DEADLOCK FALSE
