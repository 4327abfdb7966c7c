SPECIFICATION FairSpec
CONSTANTS
  Clients = {c1, c2}
  Managers = {c1, c2}
  Workers = {w1, w2}
  Stoppers = {s1}
  NumServices = 2
  LateOps <- LateCalls
  Nobody = Nobody
  SpuriousWakeups = FALSE
  Shared = {}
PROPERTIES
  ShutdownEndsOrCycles
  CallsReturn
CHECK_DEADLOCK FALSE
