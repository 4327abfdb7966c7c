SPECIFICATION Spec
CONSTANTS
  Spellings <- MCSpellings
  Lower <- MCLower
  TooLong = {"overlong"}
  MaxOrdinal = 2
  Hole = Hole
INVARIANTS
  TypeOK
  IndexAgrees
  ResponseExact
  SliceFaithful
PROPERTY
  ImplementsMap
