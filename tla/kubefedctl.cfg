CONSTANTS
  Clusters = {"c1", "c2"}
  HostCluster = "c1"
  JoinOptions <- MCJoinOptions
  UnjoinOptions <- MCUnjoinOptions
  Leftovers = {{}, {"Role", "ClusterRoleBinding", "HealthBinding"}}
  MaxCommands = 3
SPECIFICATION Spec
INVARIANTS JoinedUsable UnjoinLeavesNothing RerunCompletes
CHECK_DEADLOCK FALSE
