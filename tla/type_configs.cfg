CONSTANTS
  Types = {"namespaces", "t", "u"}
  NamespaceType = "namespaces"
  NamespacedTypes = {"t", "u"}
  StatusTypes = {"t"}
  Edited = {"namespaces", "t"}
  CRD <- MCCRD
  MaxEdits = 2
  MaxFaults = 1
  MaxCommands = 2
SPECIFICATION CommandsSpec
INVARIANTS NoOrphanController OneOfEquivalent
PROPERTIES Converges StatusSettles DeletionEnds DisableEnds
CHECK_DEADLOCK FALSE
