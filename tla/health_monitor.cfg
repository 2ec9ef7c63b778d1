CONSTANTS
  Endpoints = {1, 2}
  EditKinds <- Edits
  FailureThreshold = 3
  SuccessThreshold = 2
  MaxRun = 3
  MaxClusters = 2
  MaxEdits = 2
  MaxFaults = 1
  MaxRestarts = 1
  MaxDisturbances = 3
SPECIFICATION FairSpec
INVARIANTS TypeOK
PROPERTIES Damped HealthFollowed ClientFollows
