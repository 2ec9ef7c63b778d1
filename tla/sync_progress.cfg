CONSTANTS
  c1 = c1
  c2 = c2
  Clusters = {c1}
  TargetIsNamespace = FALSE
  HostNamespace = {}
  AdoptResources = TRUE
  MaxResources = 1
  MaxEdits = 1
  MaxMemberEdits = 1
  MaxFaults = 1
  MaxFlips = 1
  MaxTimeouts = 0
  MaxCrashes = 1
  MaxDisturbances = 2
SPECIFICATION FairSpec
PROPERTIES DeletionCompletes OrphansReleased PropagatedOrReported
CHECK_DEADLOCK FALSE
