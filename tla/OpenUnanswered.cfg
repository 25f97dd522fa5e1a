SPECIFICATION Spec
CONSTANTS
  MaxFrames = 1
  MaxChunk = 1
INVARIANT OpenIsUpgraded
CHECK_DEADLOCK FALSE
