SPECIFICATION FairSpec
CONSTANTS
  N = 2
  ConfirmBuf = 1
  MaxOpen = 1
  MaxSelect = 1
  MaxPublish = 2
  ReSelect = FALSE
INVARIANTS
  TypeOK
  ConfirmSound
  ConfirmConserved
  TagsFollowClient
PROPERTIES
  ConfirmDelivered
CHECK_DEADLOCK FALSE
