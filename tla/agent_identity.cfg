CONSTANTS
  Program = {p1, p2}
  MaxIdentity = 4
  ReadErrors = FALSE
  Missing = Missing
  Torn = Torn
SPECIFICATION Spec
INVARIANTS
  LoadedPairMatches
  IdentityPersists
PROPERTY StoredIdentityStays
\* programs may stop for good
CHECK_DEADLOCK FALSE
