SPECIFICATION FairSpec
CONSTANTS
  w1 = w1
  w2 = w2
  s1 = s1
  s2 = s2
  Jobs = {1, 2}
  Workers = {w1, w2}
  Slots = {s1, s2}
  WorkerOf <- TwoWorkers
  Priority <- TwoPriorities
  MaxAttempts <- TwoMax
  Allowed <- SecondRestricted
  WorkflowJobs = {1}
  MaxFaults = 1
  NoWorker = NoWorker
  NoJob = NoJob
CHECK_DEADLOCK FALSE
INVARIANTS QueueInv SingleExecutor AttemptsExact
PROPERTIES TerminalStable EventuallySettled
