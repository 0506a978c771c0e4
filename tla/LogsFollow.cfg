SPECIFICATION FairSpec
CONSTANTS
  Listener = {"l1"}
  MaxSize = 2
  ChanSize = 1
  MaxAdd = 4
  Proxy = {"p1", "p2"}
  Goroutine = {"main", "consume"}
  Stream = {"s1"}
  BufferSize = 2
  Retained = 1
  MaxLog <- MCMaxLog
INVARIANTS
  LogFollowed
  ChannelOrderly
  ToldTruly
PROPERTIES
  RequestsProceed
CHECK_DEADLOCK FALSE
