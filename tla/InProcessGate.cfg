SPECIFICATION Spec
CONSTANTS
  Clients = {c1, c2}
  Managers = {c1, c2}
  Workers = {w1, w2}
  Stoppers = {s1}
  NumServices = 2
  LateOps <- LateOpsButOpening
  Nobody = Nobody
  SpuriousWakeups = TRUE
  Shared = {c1}
PROPERTY
  ImplementsGate
CHECK_DEADLOCK FALSE
