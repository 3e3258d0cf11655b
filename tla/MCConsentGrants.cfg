SPECIFICATION Spec
CONSTANTS
  Requesters = {r1, r2}
  Vouchers = {v1}
  Packages = {k1, k2}
  Processors = {"screen"}
  Member = TRUE
  MaxGrants = 2
  MaxRows = 1
  MaxFaults = 0
INVARIANTS
  TypeOK
  GateFollowsFarmer
  OneOpenGrant
PROPERTIES
  SoldStaysReadable
SYMMETRY Alike
CHECK_DEADLOCK FALSE
