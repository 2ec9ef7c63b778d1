CONSTANTS
  c1 = c1
  c2 = c2
  Clusters = {c1, c2}
  TargetIsNamespace = TRUE
  HostNamespace = {c1}
  AdoptResources = FALSE
  MaxResources = 1
  MaxEdits = 1
  MaxMemberEdits = 1
  MaxFaults = 1
  MaxFlips = 0
  MaxTimeouts = 1
  MaxCrashes = 1
  MaxDisturbances = 1
SPECIFICATION Spec
INVARIANTS DeletionJustified
PROPERTIES NeverAdoptsUnwanted
CHECK_DEADLOCK FALSE
