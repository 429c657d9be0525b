SPECIFICATION Spec
CONSTANTS
  s1 = s1
  s2 = s2
  s3 = s3
  Scene = {s1, s2, s3}
  inventory = inventory
  scan = scan
  Writer = {inventory, scan}
  Scanner = {scan}
  good = good
  bad = bad
  Content = {good, bad}
  Usable = {good}
  Absent = Absent
  RatioPart = 1
  DirtyThreshold = 64
  MaxChanges = 3
SYMMETRY Symm
INVARIANTS
  PairingInv
  CacheTrue
CHECK_DEADLOCK FALSE
