SPECIFICATION Spec
CONSTANTS
  r1 = r1
  r2 = r2
  NoRun = NoRun
  Runs = {r1, r2}
  Size <- TwoAndOne
  MaxEvents = 0
INVARIANT
  FailureShows
CHECK_DEADLOCK FALSE
