SPECIFICATION Spec
CONSTANTS
  MaxFrames = 4
  MaxChunk = 2
INVARIANTS
  TypeOK
  Guarded
  Told
PROPERTIES
  ImplementsSession
  HandshakeOrClose
  CloseCompletes
CHECK_DEADLOCK FALSE
