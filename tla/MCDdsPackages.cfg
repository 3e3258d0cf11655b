SPECIFICATION Spec
CONSTANTS
  Vouchers = {v1}
  Keys = {origin1, origin2, destination}
  DestinationKeys = {destination}
  Clients = {c1, c2}
  MaxPackages = 1
  MaxReferences = 3
  MaxFaults = 2
SYMMETRY Symmetry
INVARIANTS
  TypeOK
  ReferenceIsStable
  EmptyNotGenerated
CHECK_DEADLOCK FALSE
