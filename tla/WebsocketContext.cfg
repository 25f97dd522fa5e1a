SPECIFICATION Spec
CONSTANT Streams <- MCStreams
INVARIANTS
  TypeOK
  Resumable
PROPERTY ImplementsReader
CHECK_DEADLOCK FALSE
