SPECIFICATION FairSpec
CONSTANTS
  a = a
  b = b
  c = c
  d = d
  e1 = e1
  e2 = e2
  c1 = c1
  c2 = c2
  Steps = {a, b, c}
  Deps <- Join
  Executors = {e1, e2}
  Clients = {c1}
  MaxRetries = 0
  MaxLost = 0
  NoStep = NoStep
CHECK_DEADLOCK FALSE
PROPERTY ExecutableIsEnqueued
