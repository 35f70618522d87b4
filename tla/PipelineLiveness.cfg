SPECIFICATION FairSpec
CONSTANTS
  Readers = {r1}
  Datamodels = {d1}
  Writers = {w1}
  Listener = listener
  NoThread = NoThread
  NoConn = NoConn
  Conns = {c1}
  Elements = {1, 2, 3}
  Fds = {1, 2, 3}
  MaxClients = 1
  MaxRequests = 2
  RequestsMayBeBad = FALSE
  SelectMayFail = FALSE
  LockMayExpire = FALSE
  MayExit = FALSE
  AutocallRuns = {TRUE}
PROPERTIES
  IdleStaysConnected
  RequestIsAnswered
  HangUpIsNoticed
  GoodRequestIsNotRefused
  CompletedIsReclaimed
