# KubeFed: a TLA+ verification project

KubeFed propagates *federated resources*, which users write in a host cluster, to
member clusters. This project models the controllers that do it, model-checks
them with TLC on small instances, and proves their central safety properties with
TLAPS for every instance. Paths below are relative to `src/`.

## 1. The system and its parts

| Part | State it keeps | Operations | What makes it correct |
|---|---|---|---|
| Sync controller (`pkg/controller/sync/controller.go`), one per federated type | a queue of keys, informer stores of the federated type and of each member cluster, finalizers and statuses in the host API | `reconcile`, `syncToClusters`, `setFederatedStatus`, `ensureDeletion`, `removeManagedLabel`, `deleteFromClusters`, `ensureRemovedOrUnmanaged`, `ensureFinalizer`, `removeFinalizer` | objects exist where the placement says or the status tells; a resource goes only after the objects it manages; foreign objects are left alone |
| Dispatchers (`sync/dispatch`) | goroutines in flight, collected statuses and versions | create, update, delete, remove the label, check; `Wait` with a timeout | nothing started on behalf of a resource outlives it |
| Propagation status (`sync/status`) | condition and cluster list of a resource | `update`, `setClusters`, `setPropagationCondition` | the status shows the last outcome |
| Version manager (`sync/version`) | versions last written, in memory and as PropagatedVersion resources | `Get`, `Update`, `Delete`, `load`, `writeVersion` | an update is left out only when it is needless |
| KubeFedCluster controller (`kubefedcluster`) | client and probe history of each cluster | informer handlers, the periodic `updateClusterStatus` | readiness is damped and follows the endpoint |
| Federated informer (`util/federated_informer.go`) | one target informer per ready cluster | `addCluster`, `deleteCluster`, handlers | exactly the ready clusters have a store |
| Reconcile worker and delaying deliverer (`util/worker.go`, `util/delaying_deliverer.go`) | heap of delayed keys, channels, work queue, backoff | `Enqueue*`, `deliver`, `run`, `worker` | no key that was enqueued is lost |
| FederatedTypeConfig controller, scheduling manager | stop channels of the controllers they run | start, stop, refresh | what runs is what the type configuration asks for |
| Scheduling preference controller, replica scheduler, planner | override and placement of the scheduled resource | `Plan`, `Reconcile` | replicas add up and respect minima and maxima |
| Status controller; service, ingress and endpoint DNS controllers | collected statuses, DNS records | `reconcile` | what is collected matches the stores |
| `kubefedctl` `join`, `unjoin` (`pkg/kubefedctl/join.go`, `unjoin.go`) | none: namespaces, accounts, roles and secrets in members and host, and the KubeFedCluster | the API calls of a command, in their order | what was joined stays usable, an unjoin leaves nothing, a command can be run again |
| `kubefedctl` `enable`, `disable` (`enable/`, `disable.go`) | none: FederatedTypeConfigs and CRDs | the same | one of several equivalent types is enabled; what was disabled goes |
| Webhooks and validation, controller manager, leader election | none of their own, or that of libraries | | |

How they interact: `kubefedctl join` creates a KubeFedCluster; its controller
writes readiness to the KubeFedCluster status; the federated informer of every
sync controller starts and stops target informers with that readiness and
triggers a reconciliation of everything. The FederatedTypeConfig controller starts
one sync controller per type, and `kubefedctl enable` and `disable` write the
FederatedTypeConfigs it follows; the scheduling manager follows the same ones. Every
controller gets its keys from a reconcile worker. The sync controller reads stores, writes finalizer
and status to the host, and writes to members through dispatchers, consulting the
version manager on whether an update is needed. Scheduling writes the placement and
overrides that the sync controller then propagates, and reads what came of it in the
members. The status and DNS controllers collect from the members' stores into objects of
the host, from which the DNS endpoint controllers make DNSEndpoints.

What is hard: all stores lag behind their API servers; a dispatcher's operations
are goroutines that a timeout abandons without cancelling; the manager may stop
between any two requests; clusters become unready during a deletion; users of
member clusters edit, unlabel, delete and create the very objects; users of the
host delete and recreate a resource under its name; everybody who wants a
reconciliation sends to one bounded channel; a command line tool has no memory of
what an interrupted run of it has left. `PROJECT.json` lists the
hazards at their lines.

## 2. Modules

| Module | Models |
|---|---|
| `PropagationStatus` | `sync/status/status.go` |
| `SyncController` | `sync/controller.go`, `sync/dispatch`, the lookup in `sync/accessor.go`, what is needed of informers and worker |
| `VersionManager` | `sync/version`, `util/propagatedversion.go`, and the dispatcher operations that read or record versions |
| `ClusterHealth` | `kubefedcluster` |
| `KeyQueue` | abstract: what a worker promises its controller |
| `ReconcileWorker` | `util/worker.go`, `util/delaying_deliverer.go`, `util/backoff.go`; implements `KeyQueue` |
| `TypeConfigs` | `federatedtypeconfig` |
| `TypeCommands` | `kubefedctl/enable`, `kubefedctl/disable.go`, composed with `TypeConfigs` |
| `FederatedInformer` | `util/federated_informer.go` |
| `DNSEndpoints` | the names and targets of `dnsendpoint`, as operators |
| `Collectors` | `status`, `servicedns`, `ingressdns`, `dnsendpoint`, composed with `FederatedInformer` and `DNSEndpoints` |
| `Planner` | `util/planner`, as operators |
| `Scheduling` | `schedulingmanager`, `schedulingpreference`, `pkg/schedulingtypes`, composed with `Planner` |
| `Registration` | `kubefedctl/join.go`, `unjoin.go` |
| `MC...` | the instances for TLC |
| `SyncControllerProofs`, `VersionManagerProofs`, `ClusterHealthProofs`, `ReconcileWorkerProofs`, `TypeCommandsProofs`, `CollectorsProofs`, `SchedulingProofs`, `RegistrationProofs` | inductive invariants, lemmas and theorems about the module of that name |

`SyncController` and `VersionManager` are two views of the same controller. The
first has all of its control and abstracts the *content* of objects away (an update
of a labelled object may or may not be needed); the second has contents and
versions and abstracts deletion, faults and readiness away. Each says in its
heading what it leaves to the other.

### SyncController

One federated resource and the target objects of its name. An object in a member
cluster is its managed label (`"true"`, `"false"`, none, or no object) and its
deletion mark. `fedStore` and `store` are the informers' copies; `FedEvent` and
`TargetEvent` bring them up to date and enqueue. `reconcile` takes a key and a copy
of the resource; `pc` then walks through the functions of `controller.go`, one
action per function between two requests to an API server; dispatching puts
operations into `ops`, `clusterOperation` performs one request of one of them,
`OperationFails` loses the request or only its response, `WaitEnds` and
`WaitTimesOut` are the two ends of `Wait`, the latter leaving the operations in
`ops` marked late. `Restart` stops the manager anywhere: what was in flight has
landed before or is lost.

Decisions:

- *Resource versions.* An update carries the object it was computed from and is
  refused if the object differs now. The program compares versions, so a sequence
  of writes that restores an object is refused there and accepted here: the model
  allows more.
- *Watches* deliver every change of a labelled object, in the end in its latest
  form; a store jumps over intermediate states.
- *Dispatching* reads all stores in one step. The loop takes microseconds and every
  read is of a lagging store anyway.
- *Placement* is a set of clusters, the intersection with that of a FederatedNamespace
  included. Failures to list clusters or to compute a placement, the
  NamespaceNotFederated reason, the deletion of the namespace that hosts a
  FederatedNamespace, and the removal of a member cluster are left out.
- *Faults.* A write of finalizer or status that fails may have been done, its response lost;
  a failed status write also stands for conflicts during the five seconds of `PollImmediate`.
  The creation of a namespace that ends with ServerTimeout is taken for one that exists.
- *Statuses* have no timestamps; a write that changes only timestamps still wakes
  the worker (`setFederatedStatus`).
- *Keys.* For FederatedNamespaces the key of a member's namespace differs from that
  of the federated resource; `TargetKey` says so.

### VersionManager

The version manager's `versions` entry, the `persisted` PropagatedVersion, and the
objects with content and version. `HasGeneration` chooses between types whose version
is the generation, 1 at every creation, and types versioned by resource version;
`log` records what each resource version was. `UpdateVersions` changes memory before
the API is written, as `Update` does; `createVersion`, `updateVersionStatus`,
`refreshVersion` and `writeVersionFails` are the steps of the retry loop in
`writeVersion`; `load` and `Sync` follow a restart. A template stands for template and
overrides, as their two hashes do. A user's edit takes effect when the informer
delivers it; a deletion removes the objects in one step; all clusters are ready.
A member's user who deletes an object and recreates it *with* the managed label is
not modelled: that label belongs to KubeFed. An operation that a timeout has left behind looks
the versions up when it acts, where the program keeps the map it read first
(`sync/resource.go:111`). A conflicting update of a member's object is not requeued by its
failure: `syncToClusters` drops the result of `Wait` (`sync/controller.go:366`), and the event
of the write it conflicted with brings the key back.

### ClusterHealth

One cluster: `api` is the KubeFedCluster, `data` the entry of `clusterDataMap`, and
`held` the entry the check's goroutine works on, `attached` while it still is the
map's. Handlers and check interleave as their lock allows: `UpdateFunc` and
`UpdateFuncAdds` are the two halves of the update handler, which takes the lock
twice. `resultRun` saturates at `MaxRun`; it is only compared with thresholds not
larger than that. `since` is history for `Damped`.

### KeyQueue and ReconcileWorker

`ReconcileWorker` follows a key from an event to its reconciliation: the bounded `update`
channel, the `heap` with one entry per key, the bounded `target` channel and the work
`queue`, moved on by the deliverer's loop, its handler and the worker. `work` is what the
worker does; in its phase `send` it is itself a sender to the channel that only the loop
empties. `gated` is whether a controller waits for its first list before it starts the
worker. Delivery times are kept as time left, and `Tick` lets it pass. `Promise` maps
everything under way to the set `pending` of `KeyQueue` and checks that each step is one
of the abstract queue: nothing is lost, nothing is reconciled that nobody asked for, one
key at a time. `TypeConfigs`, `Collectors` and `Scheduling` use the abstract set.

### TypeConfigs and TypeCommands

`api` holds the FederatedTypeConfigs, `store` the informer's cache, `sync` and `status` the
controllers that run and the configuration they were started with. `reconcile(t)` is one
action per path of `reconcile`, failures included: a write is refused when the cached
object is not the one of the API. `Restart` loses what runs. `TypeCommands` adds the two
commands, one step per API call, with the CRDs they create and delete; a command stops
where it is `Interrupted`. Three types are enough for what types have to do with each
other: the namespaces, which all namespaced types need, and two types that share a CRD.
Dry runs end before the first write and are left out.

### FederatedInformer, DNSEndpoints and Collectors

A view is one federated informer: its store of KubeFedClusters `known`, the change whose
handler has not run (`handling`), the `informers` of the ready clusters and the cached
`clients`. A deletion may come as a tombstone, which the handler ignores; `deaf` remembers
what that left behind. `Collectors` runs one of five features over it: the status
controller, service DNS with or without the test for endpoints, ingress DNS, or, as
`"sync"`, just a user of the clients. A reconciliation is two steps, `Check` for the synced
test and `Collect` for the rest, because the stores change in between. `Collect` reads the
clusters and their stores at one moment, the program one after the other
(`status/controller.go:261`); every change that falls in between enqueues the key again. What an object has
to say is a value: 0 no object, 1 and 2 without and with what the feature looks for.
`DNSEndpoints` computes the endpoints of a record, those of each name merged one after the
other (`MergedOf`) in any order of the clusters, since the code sorts them with an unstable
sort, and resolves a name as a client would. An address is the cluster's own.

### Planner and Scheduling

`Plan` is `planner.go` as folds over the clusters in their order, by weight and hash;
`Complete`, `Kept` and `Quick` say what a plan promises without computing it. Weights,
minima and maxima are any natural numbers: no validation relates them, so a minimum may be
above its maximum, and then it is what the plan goes up to. `Scheduling` closes the loop
around it: the manager starts and stops plugins and the controller, a reconciliation
(`works`) reads preference and clusters, then stores and pods, then reads and writes the
resource; `Sync`, `PodsRun` and `PodsStuck` are the sync controller and the members.
A reconciliation goes on after its scheduler has been stopped, so there may be several.
Three things are coarser than the program. A change of clusters is not delivered again while
the informers are not synced (`schedulingpreference/controller.go:185`), so there is less to
rely on than in the program. Readiness reaches the informers of pods and of plugins at once,
and a store is not listed anew when its cluster is ready again (`replicascheduler.go:143`). And
the plugin is looked up once for all the clusters of a reconciliation, not once for each
(`replicascheduler.go:319`).

### Registration

A command is the list of calls it has still to make (`cmd.todo`); each either succeeds,
or ends the command with an error, and it may be `Interrupted` at any of them or, when
forced, go on. Accounts have uids so that a token can be that of an account which is gone;
namespaces take time to go; roles and bindings may be those of an earlier release.
Names of secrets are those of a cluster, generated or given. One command runs at a time.

## 3. Runs

Bounds are constants of the modules (`MaxEdits`, `MaxFaults`, ...); each counts how
often an actor outside the controller may do something. `MaxDisturbances` bounds
their sum, so that a run covers *every combination* of that many disturbances
instead of one chosen scenario. The controller itself is never bounded.

| Run | Properties | Result |
|---|---|---|
| `sync_lifecycle` | `TypeOK`, `FinalizerHeld`, `NoSilentFailure`, `NoManagedResourceLeft` | pass: two lives of a resource, one cluster, any two disturbances (3.6 million states) |
| `sync_namespace` | `DeletionJustified`, `NeverAdoptsUnwanted` | pass: a FederatedNamespace, two clusters one of which is the host, any one disturbance, a timeout included, with all clusters ready (3.6 million) |
| `sync_progress` | `DeletionCompletes`, `OrphansReleased`, `PropagatedOrReported` | pass: liveness with any two disturbances (650 thousand) |
| `health_monitor` | `TypeOK`, `Damped`, `HealthFollowed`, `ClientFollows` | pass: two endpoints, two lives of the cluster, edits of everything, of the spec or of the metadata, a fault and a restart, any three of these (one million) |
| `version_revisions` | `TypeOK`, `NoUpdateSkipped` | pass: versions are resource versions, with faults, a timeout and a restart (2.5 million) |
| `version_recreate` | `NoMissedUpdate`, `VersionsCurrent`, `OwnedByResource`, `Quiesces` | pass: versions are generations, two lives, no restart (1.7 million) |
| `worker_queue` | `NothingLate`, `EventuallyReconciled`, `KeepsPromise` | pass: two keys, a first list of none, one or both, channels of one place, delays of one tick (370 thousand) |
| `type_configs` | `NoOrphanController`, `OneOfEquivalent`, `Converges`, `StatusSettles`, `DeletionEnds`, `DisableEnds` | pass: three types, two writes of users or two commands, a fault or restart, both scopes of the control plane (240 thousand) |
| `collectors` | `InformersCurrent`, `NearestServed`, `Reported`, `Served` | pass: two clusters of one region, five features, two events and two faults (190 thousand) |
| `scheduling` | `PlanSound`, `RunningKept`, `Scheduled`, `Settles`, `SchedulersConverge` | pass: 768 inputs of the planner for three clusters, and the whole loop for two of them with an event or a fault, as types are enabled, or as one of two, or the only one, is disabled (280 thousand) |
| `kubefedctl` | `JoinedUsable`, `UnjoinLeavesNothing`, `RerunCompletes` | pass: three commands on a member and on the host as a member (2.3 million) |
| `dns_offline` | `OfflineKept` | violated: a cluster of a ServiceDNSRecord that is no longer ready loses its entry |

Why these bounds suffice: every guard that depends on counting compares with zero,
one or a threshold, so two lives of a resource, two clusters and two disturbances
reach every branch and every pair of causes; clusters interact only through the
resource's status and finalizer, for which a second cluster matters
(`sync_namespace`) and a third does not. Where a property is
also proved, no bound matters. In `worker_queue` a first list of two keys is longer than the
update channel, and later the channels fill up because asks of a key are sent again while the
first is under way. `sync_progress` also passes with a
timeout among its disturbances (1.3 million states), which is left out for its running time. In `health_monitor` three disturbances are a cluster that leaves and
joins again or is edited twice, with one more at any moment. In `kubefedctl`
three commands are the least that has an interrupted one, one that meets what it left,
and one that undoes or repeats the second; in `type_configs` two commands do, since the
states a first one leads to when it ends are initial states. In `collectors` and
`scheduling` two events or faults pair every cause with every other, where a change of a
cluster counts once for each informer that hears of it. `scheduling` starts with nothing, or
with plugins one of whose types has just been disabled, and may be enabled again while the
stopped scheduler still reconciles; the planner's inputs
are enumerated apart from the loop, in states where the only plugin has just been disabled.
The types of the newer modules are conjuncts of one of their invariants.

Deadlock is not checked where users, faults and commands are bounded: with them spent and
nothing left to do the system rests. `health_monitor` does check it, its monitor runs for
ever.

What `dns_offline` shows: the comment at `servicedns/controller.go:337` says that entries
of offline clusters are to be kept, but the record is built anew without a status, so there
is nothing to keep them from.

### Known behaviour the properties leave out

These are not runs; each is a condition of a property above, and the reason for it.

- *Sync.* A creation that the worker stopped waiting for (`sync/dispatch/operation.go:96`) may
  land between the check of the API servers and the removal of the finalizer
  (`sync/controller.go:553`); its object keeps the managed label without a federated resource
  until an event of its own. So `NoManagedResourceLeft` has `MaxTimeouts = 0`.
  `clustersDiffers` (`sync/status/status.go:201`) looks up only clusters of the old list: a
  failing cluster that replaces a healthy one is not listed, so `NoSilentFailure` speaks of
  the reason. When a label removal fails after the finalizer of a FederatedNamespace is gone,
  the retry has a key for which no orphan is looked for (`sync/accessor.go:227`), so
  `OrphansReleased` is of other types.
- *Cluster health.* The run compared with a threshold is that of the kept status
  (`kubefedcluster/controller.go:285`): after a healthy time one failed probe makes a cluster not
  ready, where `kubefedconfig_types.go:96` speaks of consecutive failures. What the thresholds
  do achieve is `Damped`. A client is replaced only if spec, annotations and labels all
  changed: the three comparisons at `:150` are joined by "and", where the comment at `:156`
  means to ignore an update "if there is no change between the cached object and new". An
  edit of the spec alone is ignored, and the cluster is probed at its old endpoint until the
  manager restarts. `ClientFollows` excepts edits that leave the annotations or the labels as
  they are in the entry (`Overlooked`), and `HealthFollowed` is about the endpoint of the
  client; without the exception TLC refutes `ClientFollows` with one edit of the spec.
- *Versions.* After a restart a recreated object of generation 1 passes for the one recorded
  earlier (`propagatedversion.go:51`), and a loaded entry keeps the owner of a deleted
  resource, so `version_recreate` has no restart.
- *Worker.* After a stop the worker may block for ever sending a retry to a full channel
  (`worker.go:121`); the properties end with `stopped`. The FederatedTypeConfig controller and
  the scheduling manager wait for the first list of their informer before they start the
  worker (`federatedtypeconfig/controller.go:117`, `schedulingmanager/controller.go:126`). Nothing
  empties the update channel before that: with more objects than its 1000 places
  (`delaying_deliverer.go:27`) the informer's handler blocks in its send,
  `WaitForCacheSync` waits for the handler, and the controller never starts.
  `EventuallyReconciled` has the condition `FirstListFits` for these controllers;
  `worker_queue` contains lists that do not fit.
- *Type configurations.* Without the FederatedTypeConfig of namespaces a namespaced type does
  not start after a restart while its status still says Running. A change of
  generation starts the sync controller of a disabled type for a moment
  (`federatedtypeconfig/controller.go:241`). In a namespaced control plane the deletion of a
  cluster-scoped type that is enabled and has the finalizer does not end. There, too, a
  namespaced type that was stopped because the FederatedTypeConfig of namespaces was gone, and
  whose status says so, is not started again when it comes back: the namespaced types are
  enqueued when namespaces get their finalizer (`controller.go:204`), which they do not when
  they are enabled and out of scope (`controller.go:154`). `Converges` and `StatusSettles`
  except it (`Forgotten`); it takes four edits and a fault, more than the bounds of
  `type_configs`.
- *enable and disable.* With `--delete-crd`, disabling a type that was never enabled deletes the
  CRD of the equivalent one that is; `enable` then does not find it and both are enabled,
  against `enable/deprecatedapis.go:28` (`OneOfEquivalent` excepts CRDs in `dropped`). The
  status that `disable` waits for may be older than its own update, so the CRD may go while
  the sync controller still runs. `enable` of a FederatedTypeConfig that is being deleted
  updates it and reports success.
- *Informers and DNS.* The deletion of a cluster that comes as a tombstone leaves its informer,
  and `ClustersSynced` stays false until a restart; an `addCluster` that fails is not
  repeated. A ready cluster without region and zones keeps every ServiceDNSRecord from being
  written. When no cluster has an address the CNAMEs lead to a name that has none.
  Endpoints that are deleted while their informer is started anew, because the spec of the
  cluster was edited, are missed: the informer of Endpoints has no lifecycle handler
  (`servicedns/controller.go:182`), its first list is empty, and if the record was collected
  for the handler of the services before, the address of a service without Endpoints stays.
  That takes three events of one cluster, which `collectors` does not reach; on an
  instance of `Collectors` with one cluster, three events and up to two faults (450 thousand
  states), or four events (one million), TLC finds that case and no other. `Reported` and
  `Served` except these.
- *Planner and scheduler.* The bound on the passes at `planner.go:163` is not logarithmic but
  linear (`Quick`). Minima are assigned without regard to maxima, and may move what runs
  although `rebalance` is false. A store behind its pods gives a negative capacity, and then a
  plan may be negative (`PlanSound` excepts it). A cluster with a minimum that does not fit
  and without a weight gets and loses it for ever; without rebalancing the loop
  may follow its own timing; hence the conditions of `Settles`. A pod that becomes
  unschedulable is no event of the object the plugin watches.
- *join and unjoin.* Repeated joins leave secrets with generated names in the host. A given
  `--secret-name` that exists is an error even with `--error-on-existing=false`. An unjoin
  that failed after it deleted the namespace completes only with `--force`, and a forced
  one reports success although the KubeFedCluster could not be deleted. A namespace that
  another control plane uses is deleted too. Two clusters may be given the same
  `--secret-name` one after the other (`join.go:866`): if the unjoin of the first was interrupted
  after it deleted the secret, a second unjoin of it deletes that of the other
  (`unjoin.go:247`). In the model a given name is one per cluster (`Names`). A join is kept from
  a namespace that is being deleted only because the service account cannot be created in it.

## 4. Fairness

Weak fairness of the worker, of the informers, of the deliverer and of each cluster's
operations: these are goroutines that nothing blocks for ever, and client calls that
return. A queued key is taken in the end, since the work queue is first-in first-out
and the worker's retries come with a bounded backoff (`WF` of `reconcile(k)` for each
key). A cluster that fails its checks passes them again some day, and objects marked
for deletion are collected (`ClusterAvailable`, `CollectGarbage`): without the first a
deletion rightly waits for ever. Users, faults, timeouts and restarts owe nothing. In
`ClusterHealth`, `wait.Until` runs the monitor for ever. In
`ReconcileWorker` the goroutines are weakly fair, and the `select` of the deliverer and the
senders to its channel (`Send`, `InformerAdds`) strongly: Go chooses among ready cases at random
and serves blocked senders in their order, so what is possible again and again happens. No reconciliation is assumed to succeed. In `TypeConfigs`
and `Collectors` each informer and each worker is weakly fair, in `Scheduling` also the sync
controller and the members, and `[]<>(works = {})` says that reconciliations that have begun
end. Commands may stop anywhere: that is an interruption. In `VersionManager` a refresh
of a resource that is gone ends with the 30 seconds of `PollImmediate`.

## 5. Theorems

All proofs are checked by TLAPS. They hold for every set of clusters, types, keys and
templates (finite where something counts them), every bound, and every value of the other
constants that the named `ASSUME`s allow; where a theorem needs more, its statement says so.

**SyncController.**

- `TypeCorrect`: the stores of target informers only hold labelled objects.
- `FinalizerIsHeld`. The property is not inductive: it needs that the worker's copy and
  the store *trail* the resource. `LifetimeInv` says that uids only grow (`Uids`), that
  a store or copy of the living resource which has the finalizer or the deletion mark
  is right about it (`StoreTrails`, `CopyTrails`), and that past `ensureFinalizer` the
  copy is of the living resource. `PhaseInv` ties the kinds of operations in flight to
  the place of the worker.
- `DeletionIsJustified` follows from `PhaseInv`.
- `NothingManagedIsLeft`, for `MaxTimeouts = 0` (with timeouts it is false, see
  section 3). `CheckInv`: while the checks are out, a cluster without one has
  been released; a released cluster stays so, since nothing in flight labels an object.
- `OnlyTheWantedIsAdopted` by `AdoptInv`: every operation that is about to write carries an object that
  may be adopted, and is refused when the object differs.
- `FailuresAreTold`, also with timeouts and restarts. `TellInv`: a key that is not
  queued, and a worker that is past reading the resource, leave nothing undone that is not
  noted (`CalmInv`): while the checks or the operations are out, each cluster that is not as
  the placement wants it has an operation, an event to come, or a note in the status the
  worker collects; while the status is written, the note is in it; at rest, in the resource.
  All of it is relative to the resource in the *store*: a second edit may undo the first
  before the store hears of either, and no key is queued then.

**VersionManager.**

- `VersionTypeCorrect`.
- `SkippedUpdatesAreNeedless`, for types versioned by resource version. `RevisionInv`:
  every version that memory, the API or the dispatcher holds for a template is, in the
  log of its cluster, a labelled object with that template's content.
- `NoUpdateIsMissed`. `UpdatesInv`: a store that is behind its cluster has an event to come,
  and without event and key a labelled object has the template's content or an operation
  that started from it (`ContentInv`). An operation may end without a write only if the
  recorded version tells the content (`SkipsSound`). For resource versions `RevisionInv`
  gives that, with timeouts and restarts. For generations `GenerationInv` does: the last
  write that labelled the object is recorded, and since then its generation has grown or its
  content stayed. That needs `MaxTimeouts = 0` and `MaxCrashes = 0`, and TLC refutes the
  property without either: an operation left behind by a timeout, or interrupted before its
  version is recorded, may create an object of another template whose generation is the
  recorded one.
- `VersionsAreCurrent`, for `MaxTimeouts = 0`, restarts included. `KnownInv`: what the entry
  will say of a cluster when the wait ends is the version in the store, or its operation has
  not looked yet. With timeouts it is false, as TLC shows: the version that an update
  without effect finds after a restart is dropped with the operation.
- `VersionsAreOwned`, for `MaxCrashes = 0`: `OwnerInv`, no entry outlives its resource. A
  restarted manager may load the PropagatedVersion of an earlier resource of the name.

**ClusterHealth.** `HealthTypeCorrect`, and `ReadinessIsDamped` by `DampingInv`: the run
counted in an entry is the number of probes since its readiness changed, in the map and in
the goroutine's hand.

**ReconcileWorker.** `DeliveredInTime`: the property is inductive together with the types of
heap, channels and work. `WorkerImplementsQueue` shows `Spec => Promise!Spec`: under the
mapping of section 2 a send is `Ask`, the worker's taking of a key `Begin`, its end `End`,
and the moves between channel, heap and queue leave the union of keys as it is.

**TypeConfigs and TypeCommands.** `ControllersServe`: `CacheTrails`, a cache that does not
know of a deletion is right about the finalizer. `OneIsEnabled`: either only users have
written, of whose types no two are equivalent (`CommandsAssumption`), or every type that
exists, and every enable past its look at the CRD, is `Checked`: the CRD is there, and no
equivalent type, unless a disable has deleted the CRD. `AtRestConverged` is the safety half of
`Converges`, `StatusSettles` and `DeletionEnds`: a type that is not pending and whose
configuration the cache has is as the configuration wants it, and is left being deleted only
where a namespaced control plane leaves it aside. `RestInv` says that the cache is never ahead
of an object and has the configuration whose generation the status tells (`Trails`, which needs that
uids are not used twice), that a sync controller which is not refreshed runs with that
configuration (`RunsObserved`), that namespaces are unknown only while they have no finalizer
(`NamespacesTrail`), and what the last reconciliation of a type at rest has left (`Handled`).
What stays with TLC is that every type comes to rest.

**FederatedInformer, DNSEndpoints and Collectors.** `InformersAreCurrent`: informer and client
follow what the handlers have *seen*, the old cluster of a change whose handler is yet to run;
a client may be that of the store already. `NearestIsServed` has two parts. `MergesTo` says
what the endpoints of a name have been merged to after any number of them: an A record with
all the targets if one of them is an A record, else the CNAME that all of them are, in
whatever order they came; so a zone resolves to its own addresses, or those of its region, or
all of them. `CollectorsInv` says that these are the endpoints of the record the DNS endpoint
controller has, whenever it is done with it and has not given up (`UpToDate`), and that a DNS
record without an owner has no entries (`Owned`). `RecordsAreServed` is the safety half of
`Served`, for ingresses too: what stays with TLC is that the controller hears of the record
and is done in the end. `ReportsAreTrue` is the safety half of `Reported`. `ReportInv` says
that every ready cluster has its informer unless a handler is about to start one or everything
is about to be reconciled (`Attended`), that uids are not used twice (`Fresh`), and that the
cached report of a controller with nothing to do says what the stores hold, or is behind the
report it has written and cannot be what that becomes once its garbage is collected (`Noted`).
The theorem follows because stores that have heard of every event hold what the members do; that
they hear of it, and that the controller comes to rest, stays with TLC. `InformerAssumption`
and `CollectorsAssumption` say that there is a largest value an object can have, that no cluster
has the name that stands for none, and that the views of the features are among `AllViews`.

**Planner and Scheduling.** `PlansSound` and `PlansKeepRunning` are about every plan the loop
makes: any clusters, natural preferences, pods and capacities. Each stage of the
planner is a sequence of steps, one per cluster in its order (`Trace`), and each step keeps
`Balanced`: plan and remainder add up to the total, within the limits, and no more is
preallocated than planned. A step that modifies the plan adds to `Settled`, which the total
bounds, and so bounds the passes; when the passes end with a remainder, each weighted cluster
was full. `Floor`, what runs within the limits, stays below the plan from the second stage on.
The order of clusters that agree in weight and hash does not matter. `AtRestScheduled`:
`SchedulingInv` has the types of stores, pods, budgets and reconciliations, and `UpToDate`:
when nothing is due that would prompt a reconciliation, one is under way with the current
view, or what is written is its result. `SpecsAssumption` and `StartsAssumption` say that
preferences and initial states are of their types, `HashAssumption` that hashes are integers,
which need not differ.

Induction over numbers of endpoints, steps and passes is done by least counterexamples: `WFMin`
of `WellFoundedInduction` takes a set, where the induction theorems take an operator, which the
provers cannot instantiate. Recursive functions and folds are shown to exist the same way.

**Registration.** `JoinedStayUsable`, `UnjoinIsComplete` and `RerunsComplete` follow from one
invariant (`RegistrationInv`): the steps that a command has passed stay done while it runs
(`Did`, `Undid`), names of secrets are never used twice (`NamesKept`), and what is joined is
usable.

Only model-checked: the liveness properties, which need fairness and `ENABLED`. These are
`DeletionCompletes`, `OrphansReleased`, `PropagatedOrReported`, `HealthFollowed`,
`ClientFollows`, `Quiesces`, `EventuallyReconciled`, `Converges`, `StatusSettles`,
`DeletionEnds`, `DisableEnds`, `Reported`, `Served`, `Settles` and `SchedulersConverge`. Every
invariant and every action property of a passing run is also proved.

## 6. What is left

1. An abstract specification of propagation (objects follow the placement of an existing
   resource, released before it goes) and `SyncController` shown to implement it.
2. The safety halves of further liveness properties, as `RecordsAreServed` is that of `Served`,
   `ReportsAreTrue` that of `Reported` and `AtRestConverged` that of `Converges`: of the sync
   controller (`PropagatedOrReported`) and of the cluster controller (`HealthFollowed`).
3. `ClusterHealth` composed with `FederatedInformer`, whose readiness is now any.

Not modelled, and not planned:

- field retention, overrides and object comparison: pure rewriting of JSON documents, of
  which the models keep only whether the result differs;
- webhooks and validation: stateless checks of one object; the assumptions on constants are
  what they guarantee;
- the set-up in the controller manager, and leader election: the first reads a configuration
  once, the second is a library; what their failure means, a restart, is an action of the
  modules with state worth losing;
- `kubefedctl federate` and `orphaning-deletion`: a conversion of objects, and one annotation;
- commands that run at the same time on the same cluster or type;
- metrics, API types and generated code.
