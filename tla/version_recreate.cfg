SPECIFICATION FairSpec
CONSTANTS
  Clusters = {c1}
  Templates = {A, B}
  NoTemplate = NoTemplate
  HasGeneration = TRUE
  MaxResources = 2
  MaxEdits = 2
  MaxMemberEdits = 1
  MaxWriteFailures = 1
  MaxForeignWrites = 1
  MaxTimeouts = 0
  MaxCrashes = 0
INVARIANTS NoMissedUpdate VersionsCurrent OwnedByResource
PROPERTIES Quiesces
CHECK_DEADLOCK FALSE
