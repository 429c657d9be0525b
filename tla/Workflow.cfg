SPECIFICATION FairSpec
CONSTANTS
  a = a
  b = b
  c = c
  d = d
  e1 = e1
  e2 = e2
  c1 = c1
  c2 = c2
  Steps = {a, b, c, d}
  Deps <- Diamond
  Executors = {e1, e2}
  Clients = {c1, c2}
  MaxRetries = 3
  MaxLost = 1
  NoStep = NoStep
CHECK_DEADLOCK FALSE
INVARIANTS WorkflowInv DepsRespected OneJobPerStep NoStrandedRun CompletedRunIsDone
PROPERTY ReadyIsEnqueued
