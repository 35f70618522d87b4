SPECIFICATION Spec
CONSTANTS
  HeaderSize = 2
  BufferSize = 3
  MaxMessage = 4
  RetryLimit = 0
  MaxInt = 6
  Streams <- FewStreams
  Claims <- SmallClaims
  MayExit = FALSE
INVARIANTS
  TriedBeforeGivingUp
