CONSTANTS
  Clusters = {"c1", "c2", "c3"}
  Kinds = {"FederatedDeployment", "FederatedReplicaSet"}
  Target = "FederatedDeployment"
  Specs <- MCSpecs
  Starts <- MCStarts
  Hash <- MCHash
  Template = 1
SPECIFICATION FairSpec
INVARIANTS PlanSound RunningKept Scheduled
PROPERTIES Settles SchedulersConverge
CHECK_DEADLOCK FALSE
