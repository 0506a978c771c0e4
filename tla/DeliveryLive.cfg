SPECIFICATION FairSpec
CONSTANTS
  N = 1
  MaxOpen = 2
  MaxConsume = 2
  MaxMsg = 2
  Gets = FALSE
  Multiple = TRUE
  Breaks = TRUE
INVARIANTS
  MultipleSettlesExactly
PROPERTIES
  QueuedIsDelivered
  GoroutinesEnd
CHECK_DEADLOCK FALSE
