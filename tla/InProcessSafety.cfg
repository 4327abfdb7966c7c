SPECIFICATION Spec
CONSTANTS
  Clients = {c1, c2, c3}
  Managers = {c1, c2, c3}
  Workers = {w1, w2}
  Stoppers = {s1, s2}
  NumServices = 2
  LateOps <- LateCalls
  Nobody = Nobody
  SpuriousWakeups = FALSE
  Shared = {}
SYMMETRY ThreadSymmetry
INVARIANTS
  TypeOK
  CountMatches
  DispatchSafe
  InvokerOutlivesCallbacks
  RpcFlagAssertions
  ClientsManaged
  NoCookieLeftBehind
  OneDriver
  TeardownAfterManagers
CHECK_DEADLOCK FALSE
