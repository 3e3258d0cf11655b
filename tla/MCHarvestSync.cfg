SPECIFICATION FairSpec
CONSTANTS
  Deliveries = {1}
  Pipelines = {p1}
  Screens = {s1}
  Nobody = Nobody
  PartialFetch = TRUE
  ServerCrashes = TRUE
  MaxPasses = 2
  MaxTransactions = 2
  MaxRows = 3
  MaxFaults = 2
INVARIANTS
  TypeOK
  NoDeliveryLost
  SyncedReceiptOnServer
  EventRecordedOnce
PROPERTY QueuedIsRecorded
CHECK_DEADLOCK FALSE
