SPECIFICATION Spec
CONSTANTS
  Client = client
  Factories = {f1, f2}
  Invokers = {"in_process", "tcp"}
  ServiceNames <- Names
  DispatchTables <- Tables
  StubTypes <- Types
  NumServices = 3
  UserMethods = 2
  OrdinalWidth = 6
  RequestOrdinals <- Ordinals
  SubscribeEffects = {"accept"}
  None = None
SYMMETRY FactorySymmetry
INVARIANTS
  FactoryTypeOK
  CallsReachTheirMethod
  ViewsAgree
