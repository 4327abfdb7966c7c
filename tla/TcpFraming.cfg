SPECIFICATION Spec
CONSTANTS
  Clients = {c1}
  Managers = {tfe}
  Workers = {w1}
  Stoppers = {s1}
  NumServices = 2
  LateOps <- NoLateOps
  Nobody = Nobody
  Tfe = tfe
  Main = main
  AcceptOutcomes = {TRUE}
  RequestSizes = {16, 64}
  ResponseSizes = {16}
  InitialSize = 128
INVARIANT
  BodyFits
CHECK_DEADLOCK FALSE
