CONSTANTS
  c1 = c1
  c2 = c2
  Clusters = {c1}
  TargetIsNamespace = FALSE
  HostNamespace = {}
  AdoptResources = FALSE
  MaxResources = 2
  MaxEdits = 1
  MaxMemberEdits = 1
  MaxFaults = 1
  MaxFlips = 1
  MaxTimeouts = 0
  MaxCrashes = 1
  MaxDisturbances = 2
SPECIFICATION Spec
INVARIANTS TypeOK FinalizerHeld NoSilentFailure
PROPERTIES NoManagedResourceLeft
CHECK_DEADLOCK FALSE
