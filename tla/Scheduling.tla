------------------------------ MODULE Scheduling ------------------------------
(***************************************************************************)
(* Replica scheduling: the scheduling manager (pkg/controller/              *)
(* schedulingmanager), which starts and stops the scheduling preference     *)
(* controller and its plugins, that controller (schedulingpreference), and  *)
(* the replica scheduler and plugin it calls (pkg/schedulingtypes), which   *)
(* plan the replicas of one federated resource with Planner and write them  *)
(* into it.                                                                 *)
(*                                                                         *)
(* A reconciliation reads the preference and the clusters, then the stores  *)
(* and the pods of the members, then reads and writes the federated         *)
(* resource; one that a stopped scheduler has begun goes on to its end.     *)
(* The sync controller and the members' own controllers close the loop.     *)
(***************************************************************************)
EXTENDS Planner

CONSTANTS
  Clusters,
  Kinds, Target,     \* the federated kinds that can be scheduled, that of the resource
  Specs,             \* the preferences a user may give
  Starts,            \* where a behaviour begins
  Template           \* the replicas of the template

ASSUME ClustersAssumption == IsFiniteSet(Clusters) /\ "fed" \notin Clusters
ASSUME KindsAssumption == "RSP" \notin Kinds /\ Target \in Kinds
ASSUME HashAssumption == Hash \in [Clusters -> Int]
ASSUME TemplateAssumption == Template \in Nat

\* What a user asks for is counted in natural numbers.
ASSUME SpecsAssumption ==
  \A s \in Specs \cup {start.spec : start \in Starts} :
    /\ s.total \in Nat /\ s.rebalance \in BOOLEAN
    /\ \A c \in DOMAIN s.clusters : s.clusters[c] \in Preference

ASSUME StartsAssumption ==
  \A s \in Starts :
    /\ s.room \in [Clusters -> Nat] /\ s.ready \subseteq Clusters
    /\ DOMAIN s.replicas \subseteq Clusters /\ s.replicas \in [DOMAIN s.replicas -> Nat]
    /\ s.types \subseteq Kinds /\ s.plugins \subseteq Kinds

VARIABLES
  room,        \* how many pods fit into a cluster
  rsp,         \* the ReplicaSchedulingPreference and the copy of the controller
  fed,         \* the federated resource
  fedStore,    \* the plugin's store of it
  ready,       \* the clusters that are ready
  members,     \* the objects in the clusters and their pods
  store,       \* the target store of the plugin
  news,        \* changes the informers of the plugin have not delivered yet
  types,       \* the types whose FederatedTypeConfig is enabled, as the API and the manager have them
  manager,     \* what the scheduling manager has to do and has running
  queue,       \* the worker of the scheduling preference controller
  works,       \* reconciliations that have begun
  budget       \* how many events and faults there still are

vars == <<room, rsp, fed, fedStore, ready, members, store, news, types, manager, queue, works, budget>>

NoSpec == [total |-> 0, rebalance |-> FALSE, clusters |-> << >>]
NoObject == [exists |-> FALSE, replicas |-> 0, running |-> 0, stuck |-> 0]
NoFed == [exists |-> FALSE, placement |-> {}, replicas |-> << >>]
Member == [exists : BOOLEAN, replicas : Int, running : Nat, stuck : Nat]
Replicas(f) == DOMAIN f \subseteq Clusters /\ \A c \in DOMAIN f : f[c] \in Int

TypeOK ==
  /\ ready \subseteq Clusters
  /\ {rsp.api, rsp.cached} \subseteq Specs \cup {s.spec : s \in Starts} \cup {NoSpec}
  /\ \A f \in {fed, fedStore} :
       f.exists \in BOOLEAN /\ f.placement \subseteq Clusters /\ Replicas(f.replicas)
  /\ members \in [Clusters -> Member] /\ store \in [Clusters -> Member]
  /\ news \subseteq Clusters \cup {"fed"}
  /\ types.api \subseteq Kinds /\ types.cached \subseteq Kinds
  /\ manager.keys \subseteq Kinds /\ manager.running \in BOOLEAN
  /\ manager.plugins \subseteq Kinds /\ manager.synced \subseteq manager.plugins \cup {"RSP"}
  /\ queue \in [pending : BOOLEAN, all : BOOLEAN]
  /\ \A w \in works : w.phase \in {"checked", "planned"} /\ Replicas(w.result)
  /\ Cardinality({w \in works : w.live}) <= 1

Least(a, b) == IF a < b THEN a ELSE b

\* The members have settled.  Either the controller manager starts, or the plugins in
\* s.plugins have synced and the preference is about to be reconciled.
Init ==
  \E s \in Starts :
    /\ room = s.room
    /\ ready = s.ready
    /\ members = [c \in Clusters |->
         IF c \notin DOMAIN s.replicas THEN NoObject
         ELSE LET fits == Least(s.replicas[c], s.room[c])
              IN  [exists |-> TRUE, replicas |-> s.replicas[c], running |-> fits,
                   stuck |-> s.replicas[c] - fits]]
    /\ fed = [exists |-> TRUE, placement |-> DOMAIN s.replicas, replicas |-> s.replicas]
    /\ news = {}
    /\ works = {}
    /\ budget = [events |-> s.events, faults |-> s.faults]
    /\ IF s.plugins = {}
       THEN /\ rsp = [api |-> s.spec, cached |-> NoSpec]
            /\ fedStore = NoFed
            /\ store = [c \in Clusters |-> NoObject]
            /\ types = [api |-> s.types, cached |-> s.types]
            /\ manager = [keys |-> s.types, running |-> FALSE, plugins |-> {}, synced |-> {}]
            /\ queue = [pending |-> FALSE, all |-> FALSE]
       ELSE /\ rsp = [api |-> s.spec, cached |-> s.spec]
            /\ fedStore = fed
            /\ store = members
            /\ types = [api |-> s.types, cached |-> s.plugins]
            /\ manager = [keys |-> {}, running |-> TRUE, plugins |-> s.plugins,
                          synced |-> s.plugins \cup {"RSP"}]
            /\ queue = [pending |-> TRUE, all |-> FALSE]
-----------------------------------------------------------------------------
(* The environment                                                         *)

Spend(kind) == budget[kind] > 0 /\ budget' = [budget EXCEPT ![kind] = @ - 1]
Fault == Spend("faults")

UserChanges ==
  /\ Spend("events")
  /\ \/ /\ \E s \in Specs \cup {NoSpec} : s # rsp.api /\ rsp' = [rsp EXCEPT !.api = s]
        /\ UNCHANGED <<fed, ready, types>>
     \/ /\ fed' = IF fed.exists THEN NoFed ELSE [NoFed EXCEPT !.exists = TRUE]
        /\ UNCHANGED <<rsp, ready, types>>
     \/ /\ \E c \in fed.placement : fed' = [fed EXCEPT !.placement = @ \ {c}]
        /\ UNCHANGED <<rsp, ready, types>>
     \/ /\ \E c \in Clusters : ready' = SymDiff(ready, {c})
        /\ UNCHANGED <<rsp, fed, types>>
     \/ /\ \E k \in Kinds : types' = [types EXCEPT !.api = SymDiff(@, {k})]
        /\ UNCHANGED <<rsp, fed, ready>>
  \* the informer of the pods is told of a cluster
  /\ queue' = [queue EXCEPT !.all = @ \/ (ready' # ready /\ manager.running)]
  /\ news' = IF fed' = fed THEN news ELSE news \cup {"fed"}
  /\ UNCHANGED <<room, fedStore, members, store, manager, works>>

\* The sync controller, which runs while the type is enabled, brings a ready cluster to
\* what the federated resource says.
Propagated(c) ==
  LET n == IF c \in DOMAIN fed.replicas THEN fed.replicas[c] ELSE Template
      run == Least(members[c].running, n)
  IN  IF c \notin fed.placement THEN NoObject
      ELSE [exists |-> TRUE, replicas |-> n, running |-> run, stuck |-> Least(members[c].stuck, n - run)]

Sync(c) ==
  /\ Target \in types.api /\ c \in ready
  /\ (c \in fed.placement /\ c \in DOMAIN fed.replicas) => fed.replicas[c] >= 0
  /\ <<members[c].exists, members[c].replicas>> # <<Propagated(c).exists, Propagated(c).replicas>>
  /\ members' = [members EXCEPT ![c] = Propagated(c)]
  /\ news' = news \cup {c}
  /\ UNCHANGED <<room, rsp, fed, fedStore, ready, store, types, manager, queue, works, budget>>

\* Pods start as far as they fit; the others count as unschedulable after a while.
PodsRun(c) ==
  LET fits == Least(members[c].replicas, room[c])
  IN  /\ members[c].running < fits
      /\ members' = [members EXCEPT ![c].running = fits, ![c].stuck = 0]
      /\ news' = news \cup {c}
      /\ UNCHANGED <<room, rsp, fed, fedStore, ready, store, types, manager, queue, works, budget>>

PodsStuck(c) ==
  LET rest == members[c].replicas - members[c].running
  IN  /\ members[c].running = Least(members[c].replicas, room[c])
      /\ members[c].stuck < rest
      /\ members' = [members EXCEPT ![c].stuck = rest]
      /\ UNCHANGED <<room, rsp, fed, fedStore, ready, store, news, types, manager, queue, works, budget>>
-----------------------------------------------------------------------------
(* The scheduling manager                                                  *)

TypeInformed(k) ==
  /\ (k \in types.api) # (k \in types.cached)
  /\ types' = [types EXCEPT !.cached = SymDiff(@, {k})]
  /\ manager' = [manager EXCEPT !.keys = @ \cup {k}]
  /\ UNCHANGED <<room, rsp, fed, fedStore, ready, members, store, news, queue, works, budget>>

\* A plugin is started beside the scheduler; either may fail, and what has been
\* started stays for the retry.
startPlugin(k) ==
  /\ \/ /\ ~manager.running
        /\ Fault
        /\ UNCHANGED <<manager, queue>>
     \/ /\ manager' = [manager EXCEPT !.running = TRUE]
        /\ k \notin manager.plugins
        /\ Fault
        /\ UNCHANGED queue
     \/ /\ manager' = [manager EXCEPT !.running = TRUE, !.plugins = @ \cup {k}, !.keys = @ \ {k}]
        /\ UNCHANGED <<queue, budget>>
  /\ UNCHANGED <<fedStore, store, news, works, rsp>>

\* mutant: the scheduler goes with the first of its plugins
StoppedEarly(left) == TRUE
\* The scheduler goes with its last plugin.
Stopped(left) == left = {}

StopPlugin(k) ==
  /\ store' = IF k = Target THEN [c \in Clusters |-> NoObject] ELSE store
  /\ fedStore' = IF k = Target THEN NoFed ELSE fedStore
  /\ UNCHANGED news

stopScheduler(k) ==
  LET left == manager.plugins \ {k}
      stops == manager.running /\ Stopped(left)
  IN  /\ manager' = [keys |-> manager.keys \ {k}, running |-> manager.running /\ ~stops,
                     plugins |-> left, synced |-> IF stops THEN {} ELSE manager.synced \ {k}]
      /\ StopPlugin(k)
      /\ IF stops
         THEN /\ queue' = [pending |-> FALSE, all |-> FALSE]
              /\ works' = {[w EXCEPT !.live = FALSE] : w \in works}
              /\ rsp' = [rsp EXCEPT !.cached = NoSpec]
         ELSE UNCHANGED <<queue, works, rsp>>

reconcileType(k) ==
  /\ k \in manager.keys
  /\ \/ k \in types.cached /\ startPlugin(k)
     \/ k \notin types.cached /\ stopScheduler(k) /\ UNCHANGED budget
  /\ UNCHANGED <<room, fed, ready, members, types>>
-----------------------------------------------------------------------------
(* The scheduling preference controller                                    *)

\* The informers of a plugin list and watch: the federated resource and its target
\* objects are enqueued.
PluginSyncs(k) ==
  /\ k \in manager.plugins \ manager.synced
  /\ manager' = [manager EXCEPT !.synced = @ \cup {k}]
  /\ IF k = Target
     THEN /\ store' = members
          /\ fedStore' = fed
          /\ news' = {}
          /\ queue' = [queue EXCEPT !.pending = @ \/ fed.exists \/ \E c \in Clusters : members[c].exists]
     ELSE UNCHANGED <<store, fedStore, news, queue>>
  /\ UNCHANGED <<room, rsp, fed, ready, members, types, works, budget>>

RSPInformed ==
  /\ manager.running
  /\ "RSP" \notin manager.synced \/ rsp.cached # rsp.api
  /\ manager' = [manager EXCEPT !.synced = @ \cup {"RSP"}]
  /\ rsp' = [rsp EXCEPT !.cached = rsp.api]
  /\ queue' = [queue EXCEPT !.pending = @ \/ rsp.cached # rsp.api]
  /\ UNCHANGED <<room, fed, fedStore, ready, members, store, news, types, works, budget>>

FederatedInformed ==
  /\ Target \in manager.synced /\ "fed" \in news
  /\ fedStore' = fed
  /\ news' = news \ {"fed"}
  /\ queue' = [queue EXCEPT !.pending = TRUE]
  /\ UNCHANGED <<room, rsp, fed, ready, members, store, types, manager, works, budget>>

\* Target objects: their spec and status, so that unschedulable pods are no event.
TargetInformed(c) ==
  /\ Target \in manager.synced /\ c \in news \cap ready
  /\ news' = news \ {c}
  /\ store' = [store EXCEPT ![c] = members[c]]
  /\ queue' = [queue EXCEPT !.pending = TRUE]
  /\ UNCHANGED <<room, rsp, fed, fedStore, ready, members, types, manager, works, budget>>

\* mutant: a change of the clusters does not enqueue the preferences
reconcileNothingOnClusterChange ==
  /\ queue.all
  /\ queue' = [queue EXCEPT !.all = FALSE]
  /\ UNCHANGED <<room, rsp, fed, fedStore, ready, members, store, news, types, manager, works, budget>>
reconcileOnClusterChange ==
  /\ queue.all
  /\ queue' = [pending |-> queue.pending \/ rsp.cached # NoSpec, all |-> FALSE]
  /\ UNCHANGED <<room, rsp, fed, fedStore, ready, members, store, news, types, manager, works, budget>>

isSynced == manager.synced = manager.plugins \cup {"RSP"}

\* reconcile up to the plan; without preference, clusters, plugin or resource there is
\* nothing to do.
Check ==
  /\ queue.pending /\ isSynced
  /\ \A w \in works : ~w.live
  /\ queue' = [queue EXCEPT !.pending = FALSE]
  /\ works' = IF rsp.cached # NoSpec /\ ready # {} /\ Target \in manager.plugins /\ fedStore.exists
              THEN works \cup {[live |-> TRUE, phase |-> "checked", spec |-> rsp.cached,
                                available |-> ready, input |-> << >>, result |-> << >>]}
              ELSE works
  /\ UNCHANGED <<room, rsp, fed, fedStore, ready, members, store, news, types, manager, budget>>

\* clustersReplicaState: the replicas come from the store, the pods from the cluster.
\* The ready replicas are looked up under another name than the status has, so that the
\* pods are always counted when there are replicas.
Found(w) == {c \in w.available : w.live /\ Target \in manager.plugins /\ store[c].exists}
current(w) == [c \in Found(w) |-> IF store[c].replicas = 0 THEN 0 ELSE members[c].running]
estimatedCapacity(w) ==
  [c \in {d \in Found(w) : store[d].replicas # 0 /\ members[d].stuck > 0} |->
     store[c].replicas - members[c].stuck]

\* Without preferences for clusters all of them have weight 1.
Defaulted(clusters) ==
  IF clusters = << >> THEN [c \in {"*"} |-> [weight |-> 1, minimum |-> 0, maxima |-> {}]] ELSE clusters

Input(spec, available, cur, cap) ==
  [total |-> spec.total, rebalance |-> spec.rebalance, clusters |-> Defaulted(spec.clusters),
   available |-> available, current |-> cur, capacity |-> cap]

\* schedule: the plan, and what it would like to have beside it.
schedule(i) == LET p == Plan(i) IN [c \in i.available |-> p.plan[c] + p.overflow[c]]

Returns(w, ok) == queue' = [queue EXCEPT !.pending = @ \/ (w.live /\ ~ok)]

GetSchedulingResult(w) ==
  /\ w.phase = "checked"
  /\ \/ LET i == Input(w.spec, w.available, current(w), estimatedCapacity(w))
        IN  /\ works' = (works \ {w}) \cup
                 {[w EXCEPT !.phase = "planned", !.input = i, !.result = schedule(i)]}
            /\ UNCHANGED <<queue, budget>>
     \/ /\ \E c \in Found(w) : store[c].replicas # 0
        /\ Fault
        /\ works' = works \ {w}
        /\ Returns(w, FALSE)
  /\ UNCHANGED <<room, rsp, fed, fedStore, ready, members, store, news, types, manager>>

PlacementUpdateNeeded(w) == fed.placement # DOMAIN w.result
OverrideUpdateNeeded(w) == fed.replicas # w.result

\* Plugin.Reconcile: the update may fail or conflict; the worker tries again.
ReconcilePlugin(w) ==
  /\ w.phase = "planned"
  /\ works' = works \ {w}
  /\ LET dirty == fed.exists /\ (PlacementUpdateNeeded(w) \/ OverrideUpdateNeeded(w))
     IN  \/ /\ ~dirty
            /\ UNCHANGED <<fed, news, queue, budget>>
         \/ /\ dirty
            /\ fed' = [fed EXCEPT !.placement = DOMAIN w.result, !.replicas = w.result]
            /\ news' = news \cup {"fed"}
            /\ UNCHANGED <<queue, budget>>
         \/ /\ fed.exists
            /\ Fault
            /\ Returns(w, FALSE)
            /\ UNCHANGED <<fed, news>>
  /\ UNCHANGED <<room, rsp, fedStore, ready, members, store, types, manager>>
-----------------------------------------------------------------------------
Next ==
  \/ UserChanges
  \/ \E c \in Clusters : Sync(c) \/ PodsRun(c) \/ PodsStuck(c) \/ TargetInformed(c)
  \/ \E k \in Kinds : TypeInformed(k) \/ reconcileType(k) \/ PluginSyncs(k)
  \/ RSPInformed
  \/ FederatedInformed
  \/ reconcileOnClusterChange
  \/ Check
  \/ \E w \in works : GetSchedulingResult(w) \/ ReconcilePlugin(w)

Spec == Init /\ [][Next]_vars

\* Informers deliver, the sync controller and the members act, workers take what is
\* pending, and a reconciliation that has begun comes to its end.
Fairness ==
  /\ \A c \in Clusters : /\ WF_vars(Sync(c))
                         /\ WF_vars(PodsRun(c))
                         /\ WF_vars(PodsStuck(c))
                         /\ WF_vars(TargetInformed(c))
  /\ \A k \in Kinds : WF_vars(TypeInformed(k)) /\ WF_vars(reconcileType(k)) /\ WF_vars(PluginSyncs(k))
  /\ WF_vars(RSPInformed) /\ WF_vars(FederatedInformed)
  /\ WF_vars(reconcileOnClusterChange)
  /\ WF_vars(Check)
  /\ []<>(works = {})

FairSpec == Spec /\ Fairness
-----------------------------------------------------------------------------
(* Properties                                                              *)

\* As long as the store is not so far behind the pods that a capacity is negative, a
\* plan hands out every replica that the limits allow, in few passes.
Readable(i) == \A c \in DOMAIN i.capacity : i.capacity[c] >= 0
PlanSound ==
  \A w \in works : w.phase = "planned" /\ Readable(w.input) =>
    LET p == Plan(w.input) IN Complete(w.input, p) /\ Quick(w.input, p)

\* "if set to false, up and running replicas will not be moved" (scheduling/v1alpha1/
\* replicaschedulingpreference_types.go:43), when the minima leave enough for them.
RunningKept ==
  \A w \in works : w.phase = "planned" /\ Readable(w.input) /\ ~w.input.rebalance =>
    Kept(w.input, Plan(w.input))

\* Nothing is under way and every store has what there is.
Quiet ==
  /\ manager.keys = {} /\ types.cached = types.api
  /\ manager.running => isSynced /\ rsp.cached = rsp.api
  /\ Target \in manager.plugins => news \cap (ready \cup {"fed"}) = {}
  /\ ~queue.pending /\ ~queue.all /\ works = {}

\* When nothing is under way and all the pods run, the federated resource has the
\* placement and the replicas that follow from the preference and from what the ready
\* clusters run: no order of starting plugins, changing clusters, stale stores, failed
\* writes and late reconciliations leaves an older plan in it.
\* The stores that count as synced are those of plugins that run (TypeOK).
Scheduled ==
  /\ TypeOK
  /\ (/\ Quiet /\ Target \in manager.plugins
      /\ rsp.api # NoSpec /\ fed.exists /\ ready # {}
      /\ \A c \in Clusters : members[c].running = members[c].replicas)
     => LET runs == [c \in {d \in ready : members[d].exists} |-> members[c].running]
            result == schedule(Input(rsp.api, ready, runs, << >>))
        IN  fed.placement = ready /\ fed.replicas = result

\* With rebalancing the loop of planning, propagating and counting pods comes to rest,
\* when every cluster with a minimum has a weight.  Without a weight a cluster loses what
\* does not fit, is no longer known to be full and gets its minimum again; without
\* rebalancing the plan follows what runs at the moment, which may follow the plan.
Weighted(spec) == \A c \in DOMAIN spec.clusters : spec.clusters[c].minimum > 0 => spec.clusters[c].weight > 0
Settles == <>[](rsp.api.rebalance /\ Weighted(rsp.api) => Quiet)

\* The plugins that run are those of the types that are enabled, and the scheduling
\* preference controller runs from the first to the last of them.
SchedulersConverge ==
  <>[](manager.plugins = types.api /\ (manager.running <=> types.api # {}))
=============================================================================
