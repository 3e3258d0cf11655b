SPECIFICATION FairSpec
CONSTANTS
  Kinds = {"declared", "preferences"}
  Gated = {"declared"}
  Screens = {"form"}
  MaxVersions <- MCVersions
  Marked = {"declared", "preferences"}
  MaxRows = 9
  MaxFaults = 2
INVARIANTS
  TypeOK
  MarkerMeansLogged
PROPERTIES
  DeclaredIsLogged
  NewestWins
CHECK_DEADLOCK FALSE
