SPECIFICATION FairSpec
CONSTANTS
  LocalPlots <- TwoPlots
  NameOf <- Twins
  Walked = TRUE
  FirstRows <- OneOrphanOrNone
  Discrepant = {"south"}
  Pipelines = {p1}
  Screens = {s1}
  Nobody = Nobody
  MaxFaults = 2
INVARIANT NoDuplicateUpload
PROPERTY EndUpLinkedApart
CHECK_DEADLOCK FALSE
