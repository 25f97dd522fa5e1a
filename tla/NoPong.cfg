SPECIFICATION Spec
CONSTANTS
  MaxFrames = 2
  MaxChunk = 2
PROPERTY ClosedForNoPong
CHECK_DEADLOCK FALSE
