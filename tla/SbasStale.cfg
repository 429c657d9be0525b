SPECIFICATION MCSpec
CONSTANTS
  e1 = e1
  e2 = e2
  Slots = {e1, e2}
  LastStep = 1
  Selections <- AllOrLast
  MaxAudits = 1
  MaxJobs = 4
  MaxFaults = 0
  MaxEvents = 4
SYMMETRY SlotSymmetry
PROPERTY InputsFinished
CHECK_DEADLOCK FALSE
