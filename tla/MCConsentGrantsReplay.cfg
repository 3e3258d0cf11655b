SPECIFICATION FairSpec
CONSTANTS
  Requesters = {r1}
  Vouchers = {}
  Packages = {}
  Processors = {"screen"}
  Member = TRUE
  MaxGrants = 1
  MaxRows = 3
  MaxFaults = 2
PROPERTIES
  NoDecisionUndone
  QueuedIsDecided
CHECK_DEADLOCK FALSE
