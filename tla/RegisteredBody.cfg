SPECIFICATION Spec
CONSTANTS
  HTTP_MAX_HEADER_SIZE = 24
  Sessions <- MCSessions
  GetBodies <- MCGetBodies
  PostBodies <- MCPostBodies
INVARIANT RegisteredBody
CHECK_DEADLOCK FALSE
