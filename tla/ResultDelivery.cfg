SPECIFICATION MCSpec
CONSTANTS
  Products = {1, 2}
  Pairs = {"a"}
  PairOf <- OnePair
  Sessions = {s1, s2}
  Deliveries = {d1}
  MaxJobs = 3
  MaxLabels = 2
  MaxCleanups = 1
  MaxBoots = 1
  MaxCrashes = 1
  MaxDeliveries = 1
  Paths = {"x"}
  PathOf <- OnePath
  MaxEvents = 4
SYMMETRY Symm
INVARIANTS
  DeliveryInv
  NoticedAtBoot
  LabelsKept
  LabelsOwn
  ListedStays
  DeliveryTrue
CHECK_DEADLOCK FALSE
