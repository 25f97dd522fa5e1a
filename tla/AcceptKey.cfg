SPECIFICATION Spec
CONSTANTS
  MaxKeyLength = 94
  RandomBytes <- MCRandomBytes
  ForeignKeys <- MCForeignKeys
  KnownAnswers <- MCKnownAnswers
INVARIANTS
  TypeOK
  Padded
  Answered
  EncodingInverts
CHECK_DEADLOCK FALSE
