SPECIFICATION Spec
CONSTANTS
  Lengths <- SmallLengths
  BufferSize = 2
  RetryLimit = 2
  Half = 8
  MaxFailures = 4
  MayExit = FALSE
INVARIANTS
  RetriesBoundFailures
