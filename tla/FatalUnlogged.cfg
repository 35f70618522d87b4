SPECIFICATION Spec
CONSTANTS
  t1 = t1
  t2 = t2
  Threads <- TwoThreads
  NoThread = NoThread
  Called <- MCCalled
  Settings <- Silent
  FileMayFail = TRUE
  MaxCalls = 2
INVARIANTS
  FatalSignalsExit
