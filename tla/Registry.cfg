SPECIFICATION Spec
CONSTANTS
  Spellings <- MCSpellings
  Lower <- MCLower
  TooLong = {"overlong"}
  MaxOrdinal = 2
  Hole = Hole
  BasicProtocol = "basic_protocol"
INVARIANTS
  RegistryTypeOK
  OrdinalsContiguous
  SealedWithoutHoles
PROPERTIES
  ErrorsHaveCulprits
  AllTornDown
  ServicesStable
  InitErrorEndsRegistration
CHECK_DEADLOCK FALSE
