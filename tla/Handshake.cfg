SPECIFICATION Spec
CONSTANTS
  HTTP_MAX_HEADER_SIZE = 100
  key_ <- MCKey
  Frames <- MCFrames
INVARIANTS
  TypeOK
  Agreement
  FramesKept
  Established
PROPERTY Opens
CHECK_DEADLOCK FALSE
