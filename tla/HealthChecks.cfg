SPECIFICATION FairSpec
CONSTANTS
  Node = {n1, n2}
  Config = {c1, c2}
  Checked = {c1}
  Threshold = 2
  Recover = 1
  Overlap = FALSE
  MaxReload = 1
  MaxFlip = 2
  MaxFails = 3
  n1 = n1
  n2 = n2
  c1 = c1
  c2 = c2
INVARIANTS
  UnhealthyMeansFailing
  OnlyStoredManager
PROPERTIES
  StatusConverges
  ReloadCompletes
CHECK_DEADLOCK FALSE
