CONSTANTS
  Keys = {k1, k2}
  NoKey = NoKey
  UpdateCapacity = 1
  TargetCapacity = 1
  RetryDelay = 1
  ClusterSyncDelay = 1
  SmallDelay = 1
  InitialBackoff = 1
  MaxBackoff = 1
  MaxInFlight = 3
SPECIFICATION FairSpec
INVARIANTS NothingLate
PROPERTIES EventuallyReconciled KeepsPromise
CHECK_DEADLOCK FALSE
