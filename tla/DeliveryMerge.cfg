SPECIFICATION Spec
CONSTANTS
  N = 2
  MaxOpen = 1
  MaxConsume = 1
  MaxMsg = 2
  Gets = TRUE
  Multiple = FALSE
  Breaks = TRUE
INVARIANTS
  TypeOK
  SettlesMeant
  NeverRefused
  DeliveriesOrdered
  UnackedAccounted
CHECK_DEADLOCK FALSE
