SPECIFICATION Spec
CONSTANTS
  HTTP_MAX_HEADER_SIZE = 24
  Sessions <- MCSessions
  GetBodies <- MCGetBodies
  PostBodies <- MCPostBodies
INVARIANTS
  TypeOK
  RequestsAsSent
  HeaderLimit
  ValuesKeepTheirNames
  SameAnswer
  ClientReads
PROPERTY NothingAfterClose
CHECK_DEADLOCK FALSE
