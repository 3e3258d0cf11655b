SPECIFICATION Spec
CONSTANTS
  Deliveries = {1}
  Pipelines = {p1, p2}
  Screens = {}
  Nobody = Nobody
  PartialFetch = FALSE
  ServerCrashes = TRUE
  MaxPasses = 1
  MaxTransactions = 2
  MaxRows = 2
  MaxFaults = 1
INVARIANTS
  SyncedReceiptOnServer
  QrIsOwnVoucher
PROPERTY ImplementsLedger
CHECK_DEADLOCK FALSE
