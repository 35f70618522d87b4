SPECIFICATION Spec
CONSTANTS
  Readers = {r1, r2}
  Datamodels = {d1}
  Writers = {w1}
  Listener = listener
  NoThread = NoThread
  NoConn = NoConn
  Conns = {c1, c2}
  Elements = {1, 2}
  Fds = {1, 2}
  MaxClients = 1
  MaxRequests = 2
  RequestsMayBeBad = FALSE
  SelectMayFail = FALSE
  LockMayExpire = FALSE
  MayExit = FALSE
  AutocallRuns = {TRUE}
PROPERTIES
  ServesRequests
