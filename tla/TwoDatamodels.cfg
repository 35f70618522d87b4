SPECIFICATION FairSpec
CONSTANTS
  Readers = {r1}
  Datamodels = {d1, d2}
  Writers = {w1}
  Listener = listener
  NoThread = NoThread
  NoConn = NoConn
  Conns = {c1}
  Elements = {1, 2}
  Fds = {1, 2}
  MaxClients = 1
  MaxRequests = 1
  RequestsMayBeBad = FALSE
  SelectMayFail = FALSE
  LockMayExpire = FALSE
  MayExit = FALSE
  AutocallRuns = {TRUE}
PROPERTIES
  RequestIsAnswered
