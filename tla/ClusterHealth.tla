---------------------------- MODULE ClusterHealth ----------------------------
(***************************************************************************)
(* The cluster controller (pkg/controller/kubefedcluster) for one          *)
(* KubeFedCluster.  Informer handlers keep clusterDataMap, the entry with  *)
(* the cluster's client; every period updateClusterStatus lists the        *)
(* clusters, probes /healthz through the entry's client, damps the result  *)
(* with thresholds and writes it to the cluster's status, which is what    *)
(* every other controller takes for the cluster's readiness.               *)
(*                                                                         *)
(* Clusters do not share state but the map's lock, so one stands for all.  *)
(* Probe and transition times, zones and regions are left out.             *)
(***************************************************************************)
EXTENDS Naturals

CONSTANTS
  Endpoints,         \* the values the spec of a KubeFedCluster may have
  EditKinds,         \* the sets of fields one edit may change
  FailureThreshold, SuccessThreshold,
  MaxRun,            \* resultRun saturates here: it is only compared with thresholds
  MaxClusters,       \* bound: how often the cluster is joined
  MaxEdits,          \* bound: edits of the KubeFedCluster
  MaxFaults,         \* bound: failures to build a client or to write a status
  MaxRestarts,       \* bound: restarts of the controller manager
  MaxDisturbances    \* bound: all of these together

Fields == {"spec", "annotations", "labels"}

ASSUME HealthAssumption ==
  /\ FailureThreshold \in Nat \ {0} /\ SuccessThreshold \in Nat \ {0}
  /\ MaxRun \in Nat /\ MaxRun >= FailureThreshold /\ MaxRun >= SuccessThreshold
  /\ EditKinds \subseteq SUBSET Fields /\ Endpoints # {}
  /\ {MaxClusters, MaxEdits, MaxFaults, MaxRestarts, MaxDisturbances} \subseteq Nat

VARIABLES
  api,        \* the KubeFedCluster in the host API server
  seen,       \* the uid the informer has delivered last, 0 after a deletion
  changed,    \* the informer has a change to deliver
  updating,   \* the cluster an UpdateFunc has deleted and not yet added again
  health,     \* what each endpoint answers to a probe
  data,       \* the entry of clusterDataMap
  pc,         \* where updateClusterStatus is
  listed,     \* the cluster as updateClusterStatus has listed it
  held,       \* the entry its goroutine works on
  attached,   \* that entry is still the one of the map
  used        \* how much of each bound has been spent

handlerVars == <<seen, changed, updating>>
monitorVars == <<pc, listed, held, attached>>
vars == <<api, handlerVars, health, data, monitorVars, used>>

Healths == {"ready", "notReady", "offline"}
IsClusterReady(s) == s = "ready"

\* The annotations and the labels of a cluster are versions of themselves.
Cluster == [uid: Nat, spec: Endpoints, annotations: Nat, labels: Nat,
            status: Healths \union {"none"}]
NoCluster == [uid |-> 0, spec |-> CHOOSE e \in Endpoints : TRUE, annotations |-> 0,
              labels |-> 0, status |-> "none"]
Exists(c) == c.uid # 0

\* ClusterData: client is the endpoint the client was built for, cached the
\* cluster it was built from; since is history only: the probes since the entry's
\* readiness changed.
ClusterData == [client: Endpoints, cached: Cluster, status: Healths \union {"none"},
                resultRun: Nat, since: Nat]
NewData(c) == [client |-> c.spec, cached |-> [c EXCEPT !.status = "none"],
               status |-> "none", resultRun |-> 0, since |-> 0]
\* No entry: the data of no cluster.
NoData == NewData(NoCluster)
Present(d) == Exists(d.cached)

Bounds == {"clusters", "edits", "faults", "restarts"}
Limit == [b \in Bounds |-> CASE b = "clusters" -> MaxClusters [] b = "edits" -> MaxEdits
                             [] b = "faults" -> MaxFaults [] b = "restarts" -> MaxRestarts]
Disturbances == used["clusters"] + used["edits"] + used["faults"] + used["restarts"]
Spend(b) ==
  /\ used[b] < Limit[b] /\ Disturbances < MaxDisturbances
  /\ used' = [used EXCEPT ![b] = @ + 1]

Init ==
  /\ api = NoCluster /\ seen = 0 /\ changed = FALSE /\ updating = NoCluster
  /\ health \in [Endpoints -> Healths]
  /\ data = NoData /\ pc = "idle" /\ listed = NoCluster
  /\ held = NoData /\ attached = FALSE
  /\ used = [b \in Bounds |-> 0]

-----------------------------------------------------------------------------
(* kubefedctl, users and endpoints *)

Join(e) ==
  /\ ~Exists(api) /\ Spend("clusters")
  /\ api' = [NoCluster EXCEPT !.uid = used'["clusters"], !.spec = e]
  /\ changed' = TRUE
  /\ UNCHANGED <<seen, updating, health, data, monitorVars>>

Unjoin ==
  /\ Exists(api) /\ api' = NoCluster /\ changed' = (seen # 0)
  /\ UNCHANGED <<seen, updating, health, data, monitorVars, used>>

Edit(kind, e) ==
  /\ Exists(api) /\ Spend("edits")
  /\ "spec" \in kind <=> e # api.spec
  /\ api' = [api EXCEPT !.spec = e,
                        !.annotations = IF "annotations" \in kind THEN @ + 1 ELSE @,
                        !.labels = IF "labels" \in kind THEN @ + 1 ELSE @]
  /\ changed' = TRUE
  /\ UNCHANGED <<seen, updating, health, data, monitorVars>>

HealthChanges(e, s) ==
  /\ health' = [health EXCEPT ![e] = s]
  /\ UNCHANGED <<api, handlerVars, data, monitorVars, used>>

-----------------------------------------------------------------------------
(* Informer handlers *)

delFromClusterSet == data' = NoData /\ attached' = FALSE

AddedAnew(c) == NewData(c)              \* mutant: an entry is replaced

\* An entry is only added where there is none.  Building the client may fail.
Added(c) == IF Present(data) THEN data ELSE NewData(c)
addToClusterSet(c) ==
  \/ data' = Added(c) /\ UNCHANGED used
  \/ ~Present(data) /\ Spend("faults") /\ UNCHANGED data

AddFunc ==
  /\ changed /\ seen = 0 /\ Exists(api) /\ ~Exists(updating)
  /\ addToClusterSet(api) /\ seen' = api.uid /\ changed' = FALSE
  /\ UNCHANGED <<api, updating, health, monitorVars>>

\* A deletion is delivered unless the cluster was created again and the informer
\* lists it anew, which makes it an update.
DeleteFunc ==
  /\ changed /\ seen # 0 /\ api.uid # seen /\ ~Exists(updating)
  /\ delFromClusterSet /\ seen' = 0 /\ changed' = Exists(api)
  /\ UNCHANGED <<api, updating, health, pc, listed, held, used>>

ReplacedNever(old, new) == FALSE        \* mutant: no client is ever replaced

\* The condition under which a client is replaced.
clusterChanged(old, new) ==
  /\ old.spec # new.spec /\ old.annotations # new.annotations
  /\ old.labels # new.labels

UpdateFunc ==
  /\ changed /\ seen # 0 /\ Exists(api) /\ ~Exists(updating)
  /\ seen' = api.uid /\ changed' = FALSE
  /\ IF Present(data) /\ clusterChanged(data.cached, api)
     THEN delFromClusterSet /\ updating' = [api EXCEPT !.status = "none"]
     ELSE UNCHANGED <<data, attached, updating>>
  /\ UNCHANGED <<api, health, pc, listed, held, used>>

\* The second half of UpdateFunc takes the lock again.
UpdateFuncAdds ==
  /\ Exists(updating)
  /\ addToClusterSet(updating) /\ updating' = NoCluster
  /\ UNCHANGED <<api, seen, changed, health, monitorVars>>

-----------------------------------------------------------------------------
(* updateClusterStatus *)

List ==
  /\ pc = "idle" /\ Exists(api)
  /\ listed' = api /\ pc' = "lookup"
  /\ UNCHANGED <<api, handlerVars, health, data, held, attached, used>>

\* A missing entry is added for the cluster that was listed, which may be gone.
Lookup ==
  /\ pc = "lookup"
  /\ addToClusterSet(listed)
  /\ IF Present(data')
     THEN pc' = "probe" /\ held' = data' /\ attached' = TRUE /\ UNCHANGED listed
     ELSE pc' = "idle" /\ listed' = NoCluster /\ UNCHANGED <<held, attached>>
  /\ UNCHANGED <<api, handlerVars, health>>

Saturate(n) == IF n < MaxRun THEN n + 1 ELSE n
Threshold(s) == IF IsClusterReady(s) THEN SuccessThreshold ELSE FailureThreshold

AdjustedAtOnce(d, s) == s               \* mutant: no damping

\* thresholdAdjustedClusterStatus: the status kept for result s of a probe.
Adjusted(d, s) ==
  IF d.status # "none" /\ d.resultRun < Threshold(s) THEN d.status ELSE s

clusterStatusEqual(s, t) == IsClusterReady(s) = IsClusterReady(t)

ResultRunStuck(d, s) == 1               \* mutant: the run is not counted

ResultRun(d, s) ==
  IF d.status # "none" /\ clusterStatusEqual(Adjusted(d, s), d.status)
  THEN Saturate(d.resultRun) ELSE 1

Probed(d, s) ==
  [d EXCEPT
     !.status = Adjusted(d, s), !.resultRun = ResultRun(d, s),
     !.since = IF d.status # "none" /\ clusterStatusEqual(Adjusted(d, s), d.status)
               THEN Saturate(@) ELSE 1]

Probe ==
  /\ pc = "probe"
  /\ held' = Probed(held, health[held.client])
  /\ data' = IF attached THEN held' ELSE data
  /\ pc' = "write"
  /\ UNCHANGED <<api, handlerVars, health, listed, attached, used>>

\* Every write changes the probe time, so every write is an event.  A failure,
\* a conflict included, is only logged: the next round writes again.
UpdateStatus ==
  /\ pc = "write"
  /\ \/ /\ listed = api
        /\ api' = [api EXCEPT !.status = held.status] /\ changed' = TRUE
        /\ UNCHANGED used
     \/ listed # api /\ UNCHANGED <<api, changed, used>>
     \/ Spend("faults") /\ UNCHANGED <<api, changed>>
  /\ pc' = "idle" /\ listed' = NoCluster /\ held' = NoData /\ attached' = FALSE
  /\ UNCHANGED <<seen, updating, health, data>>

\* A new manager starts with an empty map.
Restart ==
  /\ Spend("restarts")
  /\ seen' = 0 /\ changed' = Exists(api) /\ updating' = NoCluster
  /\ data' = NoData /\ pc' = "idle" /\ listed' = NoCluster
  /\ held' = NoData /\ attached' = FALSE
  /\ UNCHANGED <<api, health>>

Monitor == List \/ Lookup \/ Probe \/ UpdateStatus
Handler == AddFunc \/ DeleteFunc \/ UpdateFunc \/ UpdateFuncAdds

Next ==
  \/ \E e \in Endpoints : \/ Join(e)
                          \/ \E kind \in EditKinds : Edit(kind, e)
                          \/ \E s \in Healths : HealthChanges(e, s)
  \/ Unjoin \/ Handler \/ Monitor \/ Restart

Spec == Init /\ [][Next]_vars
\* wait.Until runs updateClusterStatus for ever; the informer delivers.
FairSpec == Spec /\ WF_vars(Monitor) /\ WF_vars(Handler)

-----------------------------------------------------------------------------
(* Properties *)

\* Types; and while its goroutine runs, the entry of the map is the one it holds
\* unless a handler has removed it.
TypeOK ==
  /\ api \in Cluster /\ listed \in Cluster /\ updating \in Cluster
  /\ seen \in Nat /\ changed \in BOOLEAN /\ attached \in BOOLEAN
  /\ health \in [Endpoints -> Healths]
  /\ data \in ClusterData /\ held \in ClusterData
  /\ pc \in {"idle", "lookup", "probe", "write"}
  /\ used \in [Bounds -> Nat]
  /\ attached => held = data

\* What the thresholds achieve: once the readiness kept for a cluster has changed
\* it stays for at least Threshold probes, however the endpoint flaps and
\* whatever handlers do to the map meanwhile.
Damped ==
  [][/\ data.status # "none" /\ data'.status # "none"
     /\ ~clusterStatusEqual(data.status, data'.status)
     => data.since >= Threshold(data'.status)]_vars

\* The endpoint of a cluster that stays ready, or stays not ready, is reported so in the
\* end: neither damping, failing writes nor a restart make the status stick.  The endpoint
\* is that of the client, which ClientFollows relates to the spec.
HealthFollowed ==
  \A r \in BOOLEAN :
    <>[](Exists(api) /\ Present(data) /\ IsClusterReady(health[data.client]) = r)
      => <>[](IsClusterReady(api.status) = r)

\* An edit that leaves the annotations or the labels as they are in the entry.
Overlooked ==
  data.cached.annotations = api.annotations \/ data.cached.labels = api.labels

\* A cluster that stays has an entry in the end, and a client for its spec, also when
\* updateClusterStatus adds the entry between the two halves of UpdateFunc or for a
\* cluster that is gone.  Updates are meant to be ignored "if there is no change between
\* the cached object and new" (kubefedcluster/controller.go:156), but the conditions at
\* :150 are joined by "and": an edit is ignored too if only two of spec, annotations and
\* labels changed, and the cluster is then probed at its old endpoint until a restart.
ClientFollows ==
  <>[]Exists(api) => <>[](Present(data) /\ (data.client = api.spec \/ Overlooked))
=============================================================================
