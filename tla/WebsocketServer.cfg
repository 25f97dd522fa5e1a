SPECIFICATION Spec
CONSTANTS
  MaxFrames = 4
  MaxChunk = 2
INVARIANTS
  TypeOK
  Watched
  Wire
  PongPending
PROPERTIES
  ImplementsSession
  HandshakeOrClose
  Reclaimed
CHECK_DEADLOCK FALSE
