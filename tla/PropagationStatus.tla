-------------------------- MODULE PropagationStatus --------------------------
(***************************************************************************)
(* How the sync controller folds the outcome of one reconciliation into    *)
(* the status of a federated resource (pkg/controller/sync/status).        *)
(*                                                                         *)
(* status.clusters is a list of (cluster, propagation status) pairs with   *)
(* one pair per cluster at most; it is kept here as a function on Clusters *)
(* whose value is Absent where there is no pair.  The timestamps of the    *)
(* Propagation condition are left out.                                     *)
(***************************************************************************)
EXTENDS FiniteSets

CONSTANT Clusters       \* the names of the member clusters

ASSUME ClustersAssumption == IsFiniteSet(Clusters)

Absent == "Absent"                      \* no entry for the cluster
OK == "OK"                              \* ClusterPropagationOK, the empty string
Timeouts == {"CreationTimedOut", "UpdateTimedOut",
             "DeletionTimedOut", "LabelRemovalTimedOut"}

\* The distinct PropagationStatus values; the failures of one operation that
\* the controller treats alike are the one value Failed.
PropStatus == {OK, "WaitingForRemoval", "ClusterNotReady", "AlreadyExists",
               "ManagedLabelFalse", "Failed"} \union Timeouts

StatusMap == [Clusters -> PropStatus \union {Absent}]
EmptyMap == [c \in Clusters |-> Absent]

\* No condition yet, AggregateSuccess, CheckClusters.
Reasons == {"NoCondition", "Success", "CheckClusters"}

\* generationObserved stands for ObservedGeneration = metadata.generation.
Status == [clusters: StatusMap, reason: Reasons, generationObserved: BOOLEAN]

InitialStatus == [clusters |-> EmptyMap, reason |-> "NoCondition",
                  generationObserved |-> FALSE]

Listed(m) == {c \in Clusters : m[c] # Absent}

\* A read of a Go map: a missing key gives the zero value, which is OK.
Lookup(m, c) == IF m[c] = Absent THEN OK ELSE m[c]

differsLengthOnly(listed, m) ==
  Cardinality(Listed(listed)) # Cardinality(Listed(m))

\* clustersDiffers compares the lengths and then looks up, in the new map, the
\* clusters of the OLD list only.
clustersDiffers(listed, m) ==
  \/ Cardinality(Listed(listed)) # Cardinality(Listed(m))
  \/ \E c \in Listed(listed) : Lookup(m, c) # listed[c]

setClusters(listed, m) == IF clustersDiffers(listed, m) THEN m ELSE listed

reasonAlwaysSuccess(m) == "Success"

\* Success unless one or more of the clusters could not be reconciled.
aggregateReason(m) ==
  IF \A c \in Listed(m) : m[c] = OK THEN "Success" ELSE "CheckClusters"

\* The status to write for status map m.
update(s, m) ==
  [clusters |-> setClusters(s.clusters, m), reason |-> aggregateReason(m),
   generationObserved |-> TRUE]

\* Whether the status has to be written at all.
updateRequired(s, m, resourcesUpdated) ==
  \/ ~s.generationObserved
  \/ clustersDiffers(s.clusters, m)
  \/ Listed(m) # {} /\ resourcesUpdated
  \/ s.reason # aggregateReason(m)
=============================================================================
