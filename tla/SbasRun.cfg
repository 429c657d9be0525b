SPECIFICATION MCSpec
CONSTANTS
  e1 = e1
  e2 = e2
  Slots = {e1, e2}
  LastStep = 2
  Selections <- AllOrLast
  MaxAudits = 1
  MaxJobs = 3
  MaxFaults = 1
  MaxEvents = 3
SYMMETRY SlotSymmetry
INVARIANTS
  SbasInv
  StatusBacked
  RunningHasRunner
  RejectionStands
  WorkflowInOrder
PROPERTIES
  InputsReady
CHECK_DEADLOCK FALSE
