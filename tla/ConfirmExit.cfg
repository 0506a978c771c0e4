SPECIFICATION FairSpec
CONSTANTS
  N = 1
  ConfirmBuf = 1
  MaxOpen = 1
  MaxSelect = 1
  MaxPublish = 3
  ReSelect = FALSE
PROPERTIES
  ChannelsClosed
CHECK_DEADLOCK FALSE
