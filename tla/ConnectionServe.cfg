SPECIFICATION FairSpec
CONSTANTS
  KeyPatterns <- MCKeyPatterns
  Key <- MCKey
  Channel = {1, 2}
  Size = {0, 1}
  MaxFrame = 2
  MaxPublish = 2
  MaxLoss = 1
INVARIANTS
  PublishIntact
  OkMeansApplied
  RoutedAsMeant
PROPERTIES
  Answered
  Ends
CHECK_DEADLOCK FALSE
