SPECIFICATION FairSpec
CONSTANTS
  g1 = g1
  g2 = g2
  p1 = p1
  p2 = p2
  e1 = e1
  e2 = e2
  e3 = e3
  Getters <- TwoGetters
  Pushers <- TimedPusher
  TimedPushers <- TimedPusher
  Sweeper = main
  Elements <- TwoElements
  MaxBatch = 2
  Nobody = Nobody
INVARIANTS
  TypeOK
  MutualExclusion
PROPERTIES
  PushedIsServed
  DoneIsRemoved
