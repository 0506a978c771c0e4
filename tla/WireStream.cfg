SPECIFICATION WireSpec
CONSTANTS
  Leaders <- MCFrames
  Followers <- MCFollowers
  MaxFrame = 2
  MaxChunk = 2
  MaxTimeout = 1
  Writer = {"main", "deliver"}
  Length = {0, 1, 3}
  Piece = 2
  MaxSend = 2
  Window = 2
INVARIANTS
  FramesIntact
  StaysInSync
  NeverConfused
  OneReader
PROPERTIES
  StreamOfMessages
  WritersProceed
CHECK_DEADLOCK FALSE
