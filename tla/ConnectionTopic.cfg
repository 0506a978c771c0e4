SPECIFICATION Spec
CONSTANTS
  KeyPatterns <- TopicKeyPatterns
  Key <- TopicKey
  Channel = {1}
  Size = {0}
  MaxFrame = 1
  MaxPublish = 1
  MaxLoss = 0
INVARIANTS
  RoutingMeans
CHECK_DEADLOCK FALSE
