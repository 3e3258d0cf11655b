SPECIFICATION FairSpec
CONSTANTS
  Kinds = {"saved", "cleared"}
  Screens = {"save"}
  MaxVersions <- MCVersions
  Marked = {}
  MaxClears = 1
  MaxRows = 8
  MaxFaults = 1
INVARIANTS
  TypeOK
  QuietSaveKept
PROPERTIES
  DraftIsLogged
  PhoneAndServerAgree
CHECK_DEADLOCK FALSE
