SPECIFICATION FairSpec
CONSTANTS
  Conn = {p1}
  Config = {c1, c2, c3}
  InitConfig = c1
  NoConfig = NoConfig
  MaxReload = 2
  Repeat = FALSE
  Stops = TRUE
  p1 = p1
  c1 = c1
  c2 = c2
  c3 = c3
INVARIANTS
  StaleIsDoomed
PROPERTIES
  ReloadSettles
  DoomedEnd
CHECK_DEADLOCK FALSE
