SPECIFICATION FairSpec
CONSTANTS
  t1 = t1
  t2 = t2
  Threads <- TwoThreads
  NoThread = NoThread
  Called <- MCCalled
  Settings <- MCSettings
  FileMayFail = TRUE
  MaxCalls = 2
INVARIANTS
  LogHasNoGaps
  LinesAreWhole
PROPERTIES
  CallsReturn
