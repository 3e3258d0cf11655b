SPECIFICATION Spec
CONSTANTS
  Keys = {k1, k2}
  Savers = {s1, s2}
  Screens = {u1}
  Drains = {d1}
  Stamps <- MCStamps
  Cap = 1
  MaxRows = 3
  MaxFaults = 1
INVARIANTS
  TypeOK
  DuplicatesBounded
PROPERTY CapRestored
CHECK_DEADLOCK FALSE
