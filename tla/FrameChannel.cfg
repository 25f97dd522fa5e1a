SPECIFICATION ChannelSpec
CONSTANTS
  ShortPayloads <- MCShortPayloads
  Keys <- MCKeys
  LongSizes = {125, 126, 256}
  Outboxes <- MCOutboxes
  Lengths <- MCLengths
  Streams <- PeerStreams
INVARIANTS
  RoundTrip
  LengthAgreed
CHECK_DEADLOCK FALSE
