SPECIFICATION Spec
CONSTANTS
  Lengths <- SmallLengths
  BufferSize = 2
  RetryLimit = 2
  Half = 8
  MaxFailures = 2
  MayExit = FALSE
INVARIANTS
  OkMeansSent
