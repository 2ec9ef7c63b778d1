------------------------- MODULE ClusterHealthProofs -------------------------
EXTENDS ClusterHealth, TLAPS

\* resultRun counts the probes since the readiness of an entry changed, and the
\* goroutine of a running check shares its entry with the map or owns it.
RunCounts(d) == d.status # "none" => d.since = d.resultRun
DampingInv ==
  TypeOK /\ RunCounts(data) /\ RunCounts(held) /\ (attached => Present(held))

LEMMA EmptyTypes ==
  /\ NoCluster \in Cluster /\ NoData \in ClusterData /\ RunCounts(NoData)
  /\ \A c \in Cluster : NewData(c) \in ClusterData /\ RunCounts(NewData(c))
<1>1. (CHOOSE e \in Endpoints : TRUE) \in Endpoints
  BY HealthAssumption
<1>2. NoCluster \in Cluster
  BY <1>1 DEF NoCluster, Cluster
<1>3. \A c \in Cluster : NewData(c) \in ClusterData /\ RunCounts(NewData(c))
  BY DEF NewData, ClusterData, Cluster, RunCounts
<1> QED BY <1>2, <1>3 DEF NoData

LEMMA SpendType ==
  ASSUME used \in [Bounds -> Nat], NEW b \in Bounds, Spend(b)
  PROVE  used' \in [Bounds -> Nat]
BY DEF Spend

LEMMA SaturateType == \A n \in Nat : Saturate(n) \in Nat
BY HealthAssumption DEF Saturate

\* What a probe makes of an entry.
LEMMA ProbeCounts ==
  ASSUME NEW d \in ClusterData, RunCounts(d), NEW s \in Healths
  PROVE  /\ Probed(d, s) \in ClusterData /\ RunCounts(Probed(d, s))
         /\ Probed(d, s).status = Adjusted(d, s) /\ Probed(d, s).cached = d.cached
         /\ d.status # "none" /\ ~clusterStatusEqual(d.status, Adjusted(d, s))
              => Adjusted(d, s) = s /\ d.resultRun >= Threshold(s)
<1>1. Adjusted(d, s) \in Healths \union {"none"} /\ Adjusted(d, s) # "none"
  BY DEF Adjusted, ClusterData, Healths
<1>2. ResultRun(d, s) \in Nat
  BY SaturateType DEF ResultRun, ClusterData
<1>3. /\ Probed(d, s) \in ClusterData /\ Probed(d, s).status = Adjusted(d, s)
      /\ Probed(d, s).cached = d.cached
  BY <1>1, <1>2, SaturateType DEF Probed, ClusterData
<1>4. RunCounts(Probed(d, s))
  BY <1>1, <1>2, SaturateType DEF Probed, ClusterData, RunCounts, ResultRun
<1>5. Threshold(s) \in Nat /\ d.resultRun \in Nat
  BY HealthAssumption DEF Threshold, ClusterData
<1> QED BY <1>3, <1>4, <1>5 DEF Adjusted, clusterStatusEqual

LEMMA DampingInit == Init => DampingInv
<1> SUFFICES ASSUME Init PROVE DampingInv
  OBVIOUS
<1>1. RunCounts(data) /\ RunCounts(held) /\ ~attached
  BY EmptyTypes DEF Init, RunCounts
<1>2. used \in [Bounds -> Nat]
  BY DEF Init
<1>3. TypeOK
  BY <1>2, EmptyTypes DEF Init, TypeOK
<1> QED BY <1>1, <1>3 DEF DampingInv

LEMMA AddKeeps ==
  ASSUME TypeOK, RunCounts(data), NEW c \in Cluster, addToClusterSet(c)
  PROVE  /\ data' \in ClusterData /\ RunCounts(data)'
         /\ used' \in [Bounds -> Nat]
         /\ Present(data) => data' = data
<1>1. CASE data' = Added(c) /\ UNCHANGED used
  BY <1>1, EmptyTypes DEF Added, TypeOK, RunCounts
<1>2. CASE ~Present(data) /\ Spend("faults") /\ UNCHANGED data
  BY <1>2, SpendType DEF TypeOK, RunCounts, Bounds
<1> QED BY <1>1, <1>2 DEF addToClusterSet

\* A step that leaves the entries alone.
LEMMA DampingFrame ==
  ASSUME DampingInv, UNCHANGED <<data, held, attached>>, TypeOK'
  PROVE  DampingInv'
BY DEF DampingInv, RunCounts, Present, Exists

LEMMA DampingStep == DampingInv /\ [Next]_vars => DampingInv'
<1> SUFFICES ASSUME DampingInv, [Next]_vars PROVE DampingInv'
  OBVIOUS
<1> USE DEF handlerVars, monitorVars
<1>0. /\ TypeOK /\ RunCounts(data) /\ RunCounts(held) /\ (attached => Present(held))
      /\ used["clusters"] \in Nat
  BY DEF DampingInv, TypeOK, Bounds
<1>1. CASE UNCHANGED vars
  BY <1>0, <1>1, DampingFrame DEF vars, TypeOK
<1>2. ASSUME NEW e \in Endpoints, Join(e) PROVE DampingInv'
  <2>1. used' \in [Bounds -> Nat]
    BY <1>0, <1>2, SpendType DEF Join, TypeOK, Bounds
  <2>2. api' \in Cluster
    BY <1>2, <2>1, EmptyTypes DEF Join, Cluster, Bounds
  <2> QED BY <1>0, <1>2, <2>1, <2>2, DampingFrame DEF Join, TypeOK
<1>3. CASE Unjoin
  BY <1>0, <1>3, DampingFrame, EmptyTypes DEF Unjoin, TypeOK
<1>4. ASSUME NEW e \in Endpoints, NEW kind \in EditKinds, Edit(kind, e) PROVE DampingInv'
  <2>1. used' \in [Bounds -> Nat]
    BY <1>0, <1>4, SpendType DEF Edit, TypeOK, Bounds
  <2>2. api' \in Cluster
    <3>1. api \in Cluster /\ api.annotations \in Nat /\ api.labels \in Nat
      BY <1>0 DEF TypeOK, Cluster
    <3> DEFINE a == IF "annotations" \in kind THEN api.annotations + 1 ELSE api.annotations
               l == IF "labels" \in kind THEN api.labels + 1 ELSE api.labels
    <3>2. api' = [api EXCEPT !.spec = e, !.annotations = a, !.labels = l]
      BY <1>4 DEF Edit
    <3>3. a \in Nat /\ l \in Nat
      BY <3>1
    <3> HIDE DEF a, l
    <3> QED BY <3>1, <3>2, <3>3 DEF Cluster
  <2> QED BY <1>0, <1>4, <2>1, <2>2, DampingFrame DEF Edit, TypeOK
<1>5. ASSUME NEW e \in Endpoints, NEW s \in Healths, HealthChanges(e, s) PROVE DampingInv'
  BY <1>0, <1>5, DampingFrame DEF HealthChanges, TypeOK
<1>6. CASE AddFunc
  <2>1. api \in Cluster
    BY <1>0 DEF TypeOK
  <2> QED BY <1>0, <1>6, <2>1, AddKeeps DEF AddFunc, TypeOK, DampingInv, Cluster, RunCounts,
                                           Present, Exists
<1>7. CASE DeleteFunc
  BY <1>0, <1>7, EmptyTypes DEF DeleteFunc, delFromClusterSet, TypeOK, DampingInv, RunCounts,
                                Exists
<1>8. CASE UpdateFunc
  <2>1. seen' \in Nat /\ changed' \in BOOLEAN /\ updating' \in Cluster
    BY <1>0, <1>8 DEF UpdateFunc, TypeOK, Cluster
  <2>2. CASE delFromClusterSet
    BY <1>0, <1>8, <2>1, <2>2, EmptyTypes DEF UpdateFunc, delFromClusterSet, TypeOK,
                                              DampingInv, RunCounts
  <2>3. CASE UNCHANGED <<data, attached>>
    BY <1>0, <1>8, <2>1, <2>3, DampingFrame DEF UpdateFunc, TypeOK
  <2> QED BY <1>8, <2>2, <2>3 DEF UpdateFunc
<1>9. CASE UpdateFuncAdds
  <2>1. updating \in Cluster
    BY <1>0 DEF TypeOK
  <2> QED BY <1>0, <1>9, <2>1, AddKeeps, EmptyTypes
          DEF UpdateFuncAdds, TypeOK, DampingInv, RunCounts, Present, Exists
<1>10. CASE List
  BY <1>0, <1>10, DampingFrame DEF List, TypeOK
<1>11. CASE Lookup
  <2>1. listed \in Cluster
    BY <1>0 DEF TypeOK
  <2>2. data' \in ClusterData /\ RunCounts(data') /\ used' \in [Bounds -> Nat]
        /\ (Present(data) => data' = data)
    BY <1>0, <1>11, <2>1, AddKeeps DEF Lookup, RunCounts
  <2>3. CASE Present(data')
    BY <1>0, <1>11, <2>2, <2>3 DEF Lookup, TypeOK, DampingInv, RunCounts, Present, Exists
  <2>4. CASE ~Present(data')
    BY <1>0, <1>11, <2>2, <2>4, EmptyTypes
    DEF Lookup, TypeOK, DampingInv, RunCounts, Present, Exists
  <2> QED BY <2>3, <2>4
<1>12. CASE Probe
  <2>1. held \in ClusterData /\ health[held.client] \in Healths
    BY <1>0 DEF TypeOK, ClusterData
  <2>2. /\ held' \in ClusterData /\ RunCounts(held') /\ held'.cached = held.cached
    BY <1>0, <1>12, <2>1, ProbeCounts DEF Probe
  <2> QED BY <1>0, <1>12, <2>2 DEF Probe, TypeOK, DampingInv, RunCounts, Present, Exists
<1>13. CASE UpdateStatus
  <2>1. used' \in [Bounds -> Nat]
    BY <1>0, <1>13, SpendType DEF UpdateStatus, TypeOK, Bounds
  <2>2. api' \in Cluster
    BY <1>0, <1>13 DEF UpdateStatus, TypeOK, Cluster, ClusterData
  <2> QED BY <1>0, <1>13, <2>1, <2>2, EmptyTypes
          DEF UpdateStatus, TypeOK, DampingInv, RunCounts
<1>14. CASE Restart
  <2>1. used' \in [Bounds -> Nat]
    BY <1>0, <1>14, SpendType DEF Restart, TypeOK, Bounds
  <2> QED BY <1>0, <1>14, <2>1, EmptyTypes DEF Restart, TypeOK, DampingInv, RunCounts, Exists
<1> QED
  BY <1>1, <1>2, <1>3, <1>4, <1>5, <1>6, <1>7, <1>8, <1>9, <1>10, <1>11, <1>12, <1>13, <1>14
  DEF Next, Monitor, Handler

\* For all thresholds, and whatever users, handlers, failures and restarts do: the
\* readiness kept for a cluster changes only after Threshold probes since its
\* last change.
THEOREM ReadinessIsDamped == Spec => Damped
<1>1. Init => DampingInv
  BY DampingInit
<1>2. DampingInv /\ [Next]_vars =>
        [/\ data.status # "none" /\ data'.status # "none"
         /\ ~clusterStatusEqual(data.status, data'.status)
         => data.since >= Threshold(data'.status)]_vars
  <2> SUFFICES ASSUME DampingInv, [Next]_vars, data.status # "none", data'.status # "none",
                      ~clusterStatusEqual(data.status, data'.status)
               PROVE  data.since >= Threshold(data'.status)
    OBVIOUS
  <2> USE DEF handlerVars, monitorVars
  <2>1. TypeOK /\ RunCounts(data) /\ RunCounts(held) /\ data # data'
    BY DEF DampingInv, clusterStatusEqual
  <2>2. \A c : Added(c).status \in {data.status, "none"}
    BY DEF Added, NewData
  <2>3. NoData.status = "none"
    BY DEF NoData, NewData
  <2>4. CASE Probe /\ attached
    <3>1. /\ held = data /\ held \in ClusterData /\ health[held.client] \in Healths
          /\ data' = Probed(held, health[held.client])
      BY <2>1, <2>4 DEF Probe, TypeOK, ClusterData
    <3> QED BY <2>1, <3>1, ProbeCounts DEF RunCounts, clusterStatusEqual
  <2>5. ~(delFromClusterSet \/ Restart \/ \E c : addToClusterSet(c))
    BY <2>1, <2>2, <2>3 DEF delFromClusterSet, Restart, addToClusterSet, clusterStatusEqual
  <2>6. Probe /\ attached
    BY <2>1, <2>5 DEF Next, Monitor, Handler, Join, Unjoin, Edit, HealthChanges, AddFunc,
       DeleteFunc, UpdateFunc, UpdateFuncAdds, List, Lookup, Probe, UpdateStatus, vars
  <2> QED BY <2>4, <2>6
<1> QED BY <1>1, <1>2, DampingStep, PTL DEF Spec, Damped

\* Every state of the cluster controller is typed, and the goroutine of updateClusterStatus
\* shares its entry with clusterDataMap as long as no handler has removed it, whatever
\* the thresholds, users, failures and restarts.
THEOREM HealthTypeCorrect == Spec => []TypeOK
<1>1. DampingInv => TypeOK
  BY DEF DampingInv
<1> QED BY <1>1, DampingInit, DampingStep, PTL DEF Spec
=============================================================================
