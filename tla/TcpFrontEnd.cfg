SPECIFICATION FairSpec
CONSTANTS
  Clients = {c1, c2}
  Managers = {tfe}
  Workers = {w1}
  Stoppers = {s1}
  NumServices = 2
  LateOps <- NoLateOps
  Nobody = Nobody
  Tfe = tfe
  Main = main
  AcceptOutcomes = {TRUE}
  RequestSizes = {64}
  ResponseSizes = {64}
  InitialSize = 128
INVARIANTS
  TcpTypeOK
  OneActivity
  UsedConnectionsLive
PROPERTIES
  TcpImplementsGate
  DisconnectEndsOrStuck
  RequestsAnswered
CHECK_DEADLOCK FALSE
