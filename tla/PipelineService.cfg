SPECIFICATION Spec
CONSTANTS
  Readers = {r1}
  Datamodels = {d1}
  Writers = {w1}
  Listener = listener
  NoThread = NoThread
  NoConn = NoConn
  Conns = {c1, c2}
  Elements = {1, 2, 3}
  Fds = {1, 2}
  MaxClients = 2
  MaxRequests = 1
  RequestsMayBeBad = FALSE
  SelectMayFail = FALSE
  LockMayExpire = FALSE
  MayExit = FALSE
  AutocallRuns = {TRUE}
SYMMETRY Symmetry
INVARIANTS
  DescriptorIsCurrent
PROPERTIES
  ServesRequests
