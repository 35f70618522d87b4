SPECIFICATION FairSpec
CONSTANTS
  o1 = o1
  o2 = o2
  o3 = o3
  o4 = o4
  o5 = o5
  o6 = o6
  Objects <- SixObjects
  Pools <- TwoPools
  Size <- OneAndTwo
  AutocallRuns = TRUE
  MayTakePort = TRUE
  MayExit = TRUE
  Nobody = Nobody
  Settings <- MCSettings
  CountBits = 8
INVARIANTS
  ListensAsConfigured
  NoThreadIsLost
  OnlyTheEndedAreBuried
  NoThreadSurvives
PROPERTIES
  PortIsServed
  ExitEndsProcess
