SPECIFICATION Spec
CONSTANTS
  Clusters = {c1}
  Templates = {A, B}
  NoTemplate = NoTemplate
  HasGeneration = FALSE
  MaxResources = 1
  MaxEdits = 2
  MaxMemberEdits = 1
  MaxWriteFailures = 1
  MaxForeignWrites = 0
  MaxTimeouts = 1
  MaxCrashes = 1
INVARIANTS TypeOK NoUpdateSkipped
CHECK_DEADLOCK FALSE
