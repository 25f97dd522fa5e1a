SPECIFICATION Spec
CONSTANTS
  HTTP_MAX_HEADER_SIZE = 20
  Sessions <- MCSessions
  Requests <- MCRequests
  MaxConnects = 2
INVARIANTS
  TypeOK
  ResponsesAsSent
  OwnRequest
  ClosedForCause
CHECK_DEADLOCK FALSE
