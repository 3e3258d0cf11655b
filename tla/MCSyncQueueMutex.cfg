SPECIFICATION FairSpec
CONSTANTS
  Calls = {c1, c2, c3, c4}
  PatientCalls = {c4}
  WaitMs = 1
  OpMs = 2
  MaxHoldMs = 3
  WorkPhases <- MCWorkPhases
INVARIANTS
  TypeOK
  HolderIsLive
  NoLostWakeup
  SnapshotConsistent
  OverlapOnlyAfterMaxHold
PROPERTIES
  FifoGrants
  ImplementsFencedLock
  QueueDrains
CHECK_DEADLOCK FALSE
