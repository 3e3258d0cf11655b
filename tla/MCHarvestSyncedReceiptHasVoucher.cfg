SPECIFICATION Spec
CONSTANTS
  Deliveries = {1}
  Pipelines = {p1}
  Screens = {s1}
  Nobody = Nobody
  PartialFetch = FALSE
  ServerCrashes = FALSE
  MaxPasses = 1
  MaxTransactions = 2
  MaxRows = 2
  MaxFaults = 0
INVARIANTS
  SyncedReceiptHasVoucher
CHECK_DEADLOCK FALSE
