SPECIFICATION Spec
CONSTANTS
  Addresses = {a1, a2}
  NumServices = 3
  UserMethods = 1
  OrdinalWidth = 8
  RequestOrdinals <- OrdinalsInRange
  SubscribeEffects <- WellBehaved
  None = None
SYMMETRY AddressSymmetry
INVARIANTS
  SessionsTypeOK
  DispatchAuthorised
  EstablishedOnce
  ServiceViewAgrees
  NoUserCookieLeft
  CookieDataOwned
  AnswersTrue
