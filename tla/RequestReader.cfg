SPECIFICATION FairSpec
CONSTANTS
  HeaderSize = 2
  BufferSize = 3
  MaxMessage = 4
  RetryLimit = 2
  MaxInt = 6
  Streams <- SmallStreams
  Claims <- SmallClaims
  MayExit = TRUE
INVARIANTS
  OkIsWholeMessage
  GoodMessageIsAccepted
  BufferIsInOrder
  BufferBounded
  VerdictIsTrue
PROPERTIES
  ReadEnds
