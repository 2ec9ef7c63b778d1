---------------------------- MODULE SyncController ----------------------------
(***************************************************************************)
(* The sync controller of one federated type, for one federated resource   *)
(* (pkg/controller/sync): a single worker reconciles the resource named by *)
(* a queue key; it reads informer stores that lag behind the API servers,  *)
(* keeps a finalizer on the federated resource, and dispatches creations,  *)
(* updates, deletions and label removals to member clusters as goroutines  *)
(* it waits for with a timeout and never cancels.                          *)
(*                                                                         *)
(* Resource versions.  An Update carries the resource version of the       *)
(* object it was computed from and the API server refuses it when the      *)
(* object was written since.  Here the whole object it was computed from   *)
(* is carried and compared, so a sequence of writes that restores an       *)
(* object is not told from no write at all: more updates succeed in the    *)
(* model than in the program.                                              *)
(*                                                                         *)
(* The content of the propagated objects is left to VersionManager: here   *)
(* an object is present or absent, labelled or not, being deleted or not.  *)
(***************************************************************************)
EXTENDS PropagationStatus, Naturals

CONSTANTS
  TargetIsNamespace,    \* the federated type is FederatedNamespace
  HostNamespace,        \* the clusters whose object is the host's own namespace
  AdoptResources,       \* ~ skipAdoptingResources
  MaxResources,         \* bound: how often the user creates the resource
  MaxEdits,             \* bound: changes of placement or orphan annotation
  MaxMemberEdits,       \* bound: changes made to objects in member clusters
  MaxFaults,            \* bound: API requests that fail for no reason we model
  MaxFlips,             \* bound: health changes of member clusters
  MaxTimeouts,          \* bound: dispatcher waits that time out
  MaxCrashes,           \* bound: restarts of the controller manager
  MaxDisturbances       \* bound: all of these together, creations apart

ASSUME ConstantsAssumption ==
  /\ TargetIsNamespace \in BOOLEAN /\ AdoptResources \in BOOLEAN
  /\ HostNamespace \subseteq Clusters
  /\ HostNamespace # {} => TargetIsNamespace
  /\ {MaxResources, MaxEdits, MaxMemberEdits, MaxFaults,
      MaxFlips, MaxTimeouts, MaxCrashes, MaxDisturbances} \subseteq Nat

VARIABLES
  fed,          \* the federated resource in the host API server
  fedStore,     \* the same in the federated type's informer store
  ready,        \* the clusters whose KubeFedCluster is Ready
  informer,     \* per cluster, the state of its target informer
  obj,          \* per cluster, the target object in its API server
  store,        \* per cluster, the target object in the informer store
  clusterEvent, \* an allClustersKey item waits in the clusterDeliverer
  queue,        \* the worker's keys for this resource
  pc,           \* where the worker is in reconcile
  key,          \* the key being reconciled
  copy,         \* the worker's own copy of the federated resource
  ops,          \* the dispatched operations that have not ended
  ok,           \* no failure so far in the current deletion phase
  remaining,    \* managed objects were left when deletion was dispatched
  statusMap,    \* the managed dispatcher's statusMap
  updated,      \* the managed dispatcher's resourcesUpdated
  used          \* how much of each bound has been spent

hostVars == <<fed, fedStore>>
memberVars == <<ready, informer, obj, store, clusterEvent>>
waitVars == <<ok, remaining, statusMap, updated>>
workerVars == <<pc, key, copy>>
vars == <<hostVars, memberVars, queue, workerVars, ops, waitVars, used>>

-----------------------------------------------------------------------------
(* The objects of the host cluster and of the member clusters *)

\* The user's n-th resource has uid n; uid 0 stands for no resource.
FedResource ==
  [uid: Nat, placement: SUBSET Clusters, orphan: BOOLEAN, deleting: BOOLEAN,
   finalizer: BOOLEAN, status: Status]
NoFed == [uid |-> 0, placement |-> {}, orphan |-> FALSE, deleting |-> FALSE,
          finalizer |-> FALSE, status |-> InitialStatus]
Exists(r) == r.uid # 0

\* The label kubefed.io/managed of an object; "absent" when there is no object.
Labels == {"true", "false", "none", "absent"}
TargetObject == [label: Labels, deleting: BOOLEAN]
NoObj == [label |-> "absent", deleting |-> FALSE]
Unlabeled == [label |-> "none", deleting |-> FALSE]

Present(o) == o.label # "absent"
HasManagedLabel(o) == o.label = "true"
IsExplicitlyUnmanaged(o) == o.label = "false"

CachedUnfiltered(o) == o                \* mutant: no label selector

\* Target informers list and watch with the managed label as their selector.
Cached(o) == IF HasManagedLabel(o) THEN o ELSE NoObj

\* A target informer, once it has listed its cluster, is synced when its store
\* is current and stale when the watch has events to deliver; a write that
\* concerns a labelled object is always delivered.
InformerStates == {"none", "listing", "synced", "stale"}

Write(c, o) ==
  /\ obj' = [obj EXCEPT ![c] = o]
  /\ informer' = IF /\ informer[c] = "synced" /\ o # obj[c]
                    /\ HasManagedLabel(o) \/ HasManagedLabel(obj[c])
                 THEN [informer EXCEPT ![c] = "stale"] ELSE informer
NoWrite == UNCHANGED <<obj, informer>>

\* The worker's keys.  An event of a member namespace has another key than one
\* of its FederatedNamespace; for every other type the two keys are the same.
Keys == {"federated", "target"}
TargetKey == IF TargetIsNamespace THEN "target" ELSE "federated"

OpKinds == {"create", "get", "update", "delete", "unlabel", "check"}
\* seen is the object an Update request is computed from; late is 0 while the
\* worker waits for the operation, n when the n-th timeout left it behind.
Operation == [cluster: Clusters, kind: OpKinds,
              seen: TargetObject, late: Nat]

Waits == {"syncWait", "deleteWait", "labelWait", "checkWait"}
PCs == {"idle", "ensureFinalizer", "syncToClusters", "setFederatedStatus",
        "ensureDeletion", "deleteFromClusters", "ensureRemovedOrUnmanaged",
        "removeFinalizer", "removeManagedLabel"} \union Waits

Bounds == {"resources", "edits", "memberEdits", "faults", "flips",
           "timeouts", "crashes"}
Limit == [b \in Bounds |->
  CASE b = "resources" -> MaxResources [] b = "edits" -> MaxEdits
    [] b = "memberEdits" -> MaxMemberEdits [] b = "faults" -> MaxFaults
    [] b = "flips" -> MaxFlips [] b = "timeouts" -> MaxTimeouts
    [] b = "crashes" -> MaxCrashes]
Disturbances == used["edits"] + used["memberEdits"] + used["faults"]
                + used["flips"] + used["timeouts"] + used["crashes"]
Spend(b) ==
  /\ used[b] < Limit[b]
  /\ b = "resources" \/ Disturbances < MaxDisturbances
  /\ used' = [used EXCEPT ![b] = @ + 1]

Init ==
  /\ fed = NoFed /\ fedStore = NoFed
  /\ ready = Clusters /\ informer = [c \in Clusters |-> "listing"]
  /\ obj \in [Clusters -> {NoObj, Unlabeled}]
  /\ store = [c \in Clusters |-> NoObj]
  /\ clusterEvent = FALSE /\ queue = {}
  /\ pc = "idle" /\ key = "federated" /\ copy = NoFed
  /\ ops = {} /\ ok = TRUE /\ remaining = FALSE
  /\ statusMap = EmptyMap /\ updated = FALSE
  /\ used = [b \in Bounds |-> 0]

-----------------------------------------------------------------------------
(* Users of the host cluster *)

UserCreates(placement, orphan) ==
  /\ ~Exists(fed) /\ Spend("resources")
  /\ fed' = [uid |-> used'["resources"], placement |-> placement,
             orphan |-> orphan, deleting |-> FALSE, finalizer |-> FALSE,
             status |-> InitialStatus]
  /\ UNCHANGED <<fedStore, memberVars, queue, workerVars, ops, waitVars>>

UserMoves(placement) ==
  /\ Exists(fed) /\ fed.placement # placement /\ Spend("edits")
  /\ fed' = [fed EXCEPT !.placement = placement,
                        !.status = [@ EXCEPT !.generationObserved = FALSE]]
  /\ UNCHANGED <<fedStore, memberVars, queue, workerVars, ops, waitVars>>

UserTogglesOrphaning ==
  /\ Exists(fed) /\ Spend("edits")
  /\ fed' = [fed EXCEPT !.orphan = ~@]
  /\ UNCHANGED <<fedStore, memberVars, queue, workerVars, ops, waitVars>>

\* With a finalizer the API server only sets the deletion timestamp.
UserDeletes ==
  /\ Exists(fed) /\ ~fed.deleting
  /\ fed' = IF fed.finalizer THEN [fed EXCEPT !.deleting = TRUE] ELSE NoFed
  /\ UNCHANGED <<fedStore, memberVars, queue, workerVars, ops, waitVars, used>>

-----------------------------------------------------------------------------
(* Member clusters *)

\* What a user of a member cluster may make of its object.  The managed label
\* belongs to KubeFed: users remove it or set it to "false".
MemberEdits(o) ==
  IF Present(o)
  THEN {[o EXCEPT !.deleting = TRUE], [o EXCEPT !.label = "none"],
        [o EXCEPT !.label = "false"]} \ {o}
  ELSE [label: {"none", "false"}, deleting: {FALSE}]

MemberEdit(c) ==
  /\ Spend("memberEdits")
  /\ \E o \in MemberEdits(obj[c]) : Write(c, o)
  /\ UNCHANGED <<hostVars, ready, store, clusterEvent, queue,
                 workerVars, ops, waitVars>>

\* The member's own controllers let go of an object marked for deletion.
CollectGarbage(c) ==
  /\ Present(obj[c]) /\ obj[c].deleting
  /\ Write(c, NoObj)
  /\ UNCHANGED <<hostVars, ready, store, clusterEvent, queue,
                 workerVars, ops, waitVars, used>>

\* A cluster that is no longer Ready loses its target informer, store included.
ClusterUnavailable(c) ==
  /\ c \in ready /\ Spend("flips")
  /\ ready' = ready \ {c} /\ clusterEvent' = TRUE
  /\ informer' = [informer EXCEPT ![c] = "none"]
  /\ store' = [store EXCEPT ![c] = NoObj]
  /\ UNCHANGED <<hostVars, obj, queue, workerVars, ops, waitVars>>

ClusterAvailable(c) ==
  /\ c \notin ready
  /\ ready' = ready \union {c} /\ clusterEvent' = TRUE
  /\ informer' = [informer EXCEPT ![c] = "listing"]
  /\ UNCHANGED <<hostVars, obj, store, queue, workerVars, ops, waitVars, used>>

-----------------------------------------------------------------------------
(* Informers and the cluster deliverer *)

\* Any change of the federated resource enqueues it.
FedEvent ==
  /\ fedStore # fed
  /\ fedStore' = fed /\ queue' = queue \union {"federated"}
  /\ UNCHANGED <<fed, memberVars, workerVars, ops, waitVars, used>>

TargetEventUnqueued(c) ==               \* mutant: no trigger for target objects
  /\ informer[c] \in {"listing", "stale"}
  /\ informer' = [informer EXCEPT ![c] = "synced"]
  /\ store' = [store EXCEPT ![c] = Cached(obj[c])]
  /\ UNCHANGED <<hostVars, ready, obj, clusterEvent, queue, workerVars, ops,
                 waitVars, used>>

\* Any change of a labelled object in a member cluster does too.
TargetEvent(c) ==
  /\ informer[c] \in {"listing", "stale"}
  /\ informer' = [informer EXCEPT ![c] = "synced"]
  /\ store' = [store EXCEPT ![c] = Cached(obj[c])]
  /\ queue' = IF informer[c] = "stale" \/ store' # store
              THEN queue \union {TargetKey} ELSE queue
  /\ UNCHANGED <<hostVars, ready, obj, clusterEvent, workerVars, ops, waitVars,
                 used>>

isSynced == \A c \in ready : informer[c] \in {"synced", "stale"}

\* Every federated resource in the store is enqueued, synced or not; the item
\* is delivered again as long as the informers are not synced.
reconcileOnClusterChange ==
  /\ clusterEvent
  /\ clusterEvent' = ~isSynced
  /\ queue' = IF Exists(fedStore) THEN queue \union {"federated"} ELSE queue
  /\ UNCHANGED <<hostVars, ready, informer, obj, store, workerVars, ops,
                 waitVars, used>>

-----------------------------------------------------------------------------
(* reconcile *)

ResetWait ==
  /\ ok' = TRUE /\ remaining' = FALSE
  /\ statusMap' = EmptyMap /\ updated' = FALSE

Leave == pc' = "idle" /\ copy' = NoFed /\ key' = "federated" /\ ResetWait

FinishForgetting(retry) ==              \* mutant: errors are not retried
  Leave /\ UNCHANGED queue

\* The worker is done with the key: StatusAllOK forgets it; StatusError and
\* StatusNeedsRecheck put it back into the queue.
Finish(retry) ==
  Leave /\ queue' = IF retry THEN queue \union {key} ELSE queue

Goto(label) == pc' = label /\ UNCHANGED <<key, copy, queue>>

possibleOrphanNever(k) == FALSE         \* mutant: orphans are not looked for

\* Without a federated resource the objects of that name may be orphans, unless
\* the key is that of a FederatedNamespace.
possibleOrphan(k) == ~(TargetIsNamespace /\ k = "federated")

\* While the informers are not synced, StatusNotSynced keeps the key queued.
reconcile(k) ==
  /\ pc = "idle" /\ k \in queue /\ isSynced
  /\ queue' = queue \ {k} /\ key' = k
  /\ copy' = fedStore
  /\ pc' = IF Exists(fedStore)
           THEN IF fedStore.deleting THEN "ensureDeletion" ELSE "ensureFinalizer"
           ELSE IF possibleOrphan(k) THEN "removeManagedLabel" ELSE "idle"
  /\ UNCHANGED <<hostVars, memberVars, ops, waitVars, used>>

ensureFinalizerByName ==                \* mutant: no precondition on the update
  /\ pc = "ensureFinalizer" /\ Exists(fed)
  /\ fed' = [fed EXCEPT !.finalizer = TRUE]
  /\ Goto("syncToClusters")
  /\ UNCHANGED <<fedStore, memberVars, ops, waitVars, used>>

ensureFinalizer ==
  /\ pc = "ensureFinalizer"
  /\ \/ /\ copy.finalizer
        /\ Goto("syncToClusters") /\ UNCHANGED <<fed, waitVars, used>>
     \/ /\ ~copy.finalizer /\ copy = fed
        /\ fed' = [copy EXCEPT !.finalizer = TRUE] /\ copy' = fed'
        /\ pc' = "syncToClusters" /\ UNCHANGED <<key, queue, waitVars, used>>
     \/ /\ ~copy.finalizer /\ copy # fed
        /\ Finish(TRUE) /\ UNCHANGED <<fed, used>>
     \/ /\ ~copy.finalizer /\ Spend("faults") /\ Finish(TRUE)
        /\ fed' = fed \/ (copy = fed /\ fed' = [copy EXCEPT !.finalizer = TRUE])
  /\ UNCHANGED <<fedStore, memberVars, ops>>

NewOp(c, kind, seen) == [cluster |-> c, kind |-> kind, seen |-> seen, late |-> 0]

RemovalOfAny(c) == NewOp(c, "delete", NoObj)    \* mutant: host namespace forgotten

\* An object that must not stay in a ready cluster: the host's namespace only
\* loses its label, everything else is deleted.
Removal(c) ==
  IF c \in HostNamespace THEN NewOp(c, "unlabel", store[c])
                         ELSE NewOp(c, "delete", NoObj)

Propagation(c) ==
  IF Present(store[c]) THEN NewOp(c, "update", store[c])
                     ELSE NewOp(c, "create", NoObj)

Removable == {c \in ready : Present(store[c]) /\ ~store[c].deleting}

\* Every operation starts with the status of its timeout; see Wait.
DispatchStatus(c) ==
  IF c \in copy.placement
  THEN IF c \notin ready THEN "ClusterNotReady"
       ELSE IF Present(store[c]) THEN "UpdateTimedOut" ELSE "CreationTimedOut"
  ELSE IF c \notin ready \/ ~Present(store[c]) THEN Absent
       ELSE IF store[c].deleting THEN "WaitingForRemoval"
       ELSE IF c \in HostNamespace THEN "LabelRemovalTimedOut" ELSE "DeletionTimedOut"

syncToClusters ==
  /\ pc = "syncToClusters"
  /\ ops' = ops \union {Propagation(c) : c \in copy.placement \intersect ready}
                \union {Removal(c) : c \in Removable \ copy.placement}
  /\ statusMap' = [c \in Clusters |-> DispatchStatus(c)]
  /\ Goto("syncWait")
  /\ UNCHANGED <<hostVars, memberVars, ok, remaining, updated, used>>

\* A conflict makes the worker fetch the resource and compute its status again;
\* a write that changes timestamps only is an event too.  A fault is a request
\* that fails, its response that is lost, or conflicts for five seconds.
setFederatedStatus ==
  /\ pc = "setFederatedStatus"
  /\ LET required == updateRequired(copy.status, statusMap, updated) IN
     \/ /\ ~required
        /\ Finish(FALSE) /\ UNCHANGED <<fed, used>>
     \/ /\ required /\ copy = fed
        /\ fed' = [fed EXCEPT !.status = update(@, statusMap)]
        /\ Leave
        /\ queue' = IF fed' = fed THEN queue \union {"federated"} ELSE queue
        /\ UNCHANGED used
     \/ /\ required /\ copy # fed /\ Exists(fed)
        /\ copy' = fed /\ UNCHANGED <<fed, pc, key, queue, waitVars, used>>
     \/ /\ required /\ ~Exists(fed)
        /\ Finish(TRUE) /\ UNCHANGED <<fed, used>>
     \/ /\ required /\ Spend("faults") /\ Finish(TRUE)
        /\ fed' = fed \/ (copy = fed /\ fed' = [fed EXCEPT !.status = update(@, statusMap)])
  /\ UNCHANGED <<fedStore, memberVars, ops>>

-----------------------------------------------------------------------------
(* ensureDeletion *)

ensureDeletion ==
  /\ pc = "ensureDeletion"
  /\ \/ ~copy.finalizer /\ Finish(FALSE)
     \/ /\ copy.finalizer /\ UNCHANGED waitVars
        /\ Goto(IF copy.orphan THEN "removeFinalizer" ELSE "deleteFromClusters")
  /\ UNCHANGED <<hostVars, memberVars, ops, used>>

\* Removing the last finalizer of a resource marked for deletion deletes it.
\* The label of an orphan's objects is removed after that.
removeFinalizer ==
  /\ pc = "removeFinalizer"
  /\ \/ /\ copy = fed /\ fed' = NoFed /\ UNCHANGED used
        /\ IF copy.orphan
           THEN Goto("removeManagedLabel") /\ UNCHANGED waitVars
           ELSE Finish(FALSE)
     \/ copy # fed /\ Finish(TRUE) /\ UNCHANGED <<fed, used>>
     \/ /\ Spend("faults") /\ Finish(TRUE)
        /\ fed' = fed \/ (copy = fed /\ fed' = NoFed)
  /\ UNCHANGED <<fedStore, memberVars, ops>>

\* The three phases below visit the ready clusters; a cluster that is not ready
\* makes the whole phase fail.
allReady == ready = Clusters

removeManagedLabel ==
  /\ pc = "removeManagedLabel"
  /\ ops' = ops \union {NewOp(c, "unlabel", store[c]) : c \in Removable}
  /\ ok' = allReady
  /\ Goto("labelWait")
  /\ UNCHANGED <<hostVars, memberVars, remaining, statusMap, updated, used>>

\* The host's own namespace need not be gone when it is being deleted.
deleteFromClusters ==
  /\ pc = "deleteFromClusters"
  /\ ops' = ops \union {Removal(c) : c \in Removable}
  /\ remaining' = \E c \in ready : /\ Present(store[c])
                                   /\ ~(c \in HostNamespace /\ store[c].deleting)
  /\ ok' = allReady
  /\ Goto("deleteWait")
  /\ UNCHANGED <<hostVars, memberVars, statusMap, updated, used>>

\* Ask the API servers themselves: the stores may not hold the objects yet.
ensureRemovedOrUnmanaged ==
  /\ pc = "ensureRemovedOrUnmanaged"
  /\ ops' = ops \union {NewOp(c, "check", NoObj) : c \in ready}
  /\ ok' = allReady
  /\ Goto("checkWait")
  /\ UNCHANGED <<hostVars, memberVars, remaining, statusMap, updated, used>>

-----------------------------------------------------------------------------
(* Operations on member clusters *)

Managed == [label |-> "true", deleting |-> FALSE]

\* Whether the member's API server accepts the request of an operation, and
\* what it makes of the object.
Accepted(o) ==
  LET cur == obj[o.cluster] IN
  CASE o.kind = "create"              -> ~Present(cur)
    [] o.kind = "delete"              -> Present(cur)
    [] o.kind = "unlabel"             -> Present(cur) /\ cur = o.seen
    [] o.kind = "update"              -> /\ Present(cur) /\ cur = o.seen
                                         /\ ~IsExplicitlyUnmanaged(o.seen)
    [] OTHER                          -> FALSE

Apply(o) ==
  LET cur == obj[o.cluster] IN
  Write(o.cluster,
        CASE o.kind = "create"  -> Managed
          [] o.kind = "delete"  -> [cur EXCEPT !.deleting = TRUE]
          [] o.kind = "update"  -> [cur EXCEPT !.label = "true"]
          [] o.kind = "unlabel" -> [cur EXCEPT !.label = "none"])

\* recordOperationError: the status of the cluster, for the managed dispatcher.
\* Nobody reads what a late operation records.
Record(o, propStatus) ==
  statusMap' = IF o.late = 0 /\ pc = "syncWait"
               THEN [statusMap EXCEPT ![o.cluster] = propStatus] ELSE statusMap

Succeed(o) == ops' = ops \ {o} /\ UNCHANGED <<ok, statusMap>>
Fail(o, propStatus) ==
  /\ ops' = ops \ {o} /\ Record(o, propStatus)
  /\ ok' = (ok /\ o.late # 0)

OpUnchanged == UNCHANGED <<hostVars, ready, store, clusterEvent, queue,
                           workerVars, remaining>>

\* An existing object is retrieved, to be updated instead.
Retrieve(o) ==
  ops' = (ops \ {o}) \union {[o EXCEPT !.kind = "get"]} /\ UNCHANGED <<ok, statusMap>>

\* For a namespace, a request that times out counts as one for an existing object.
Create(o) ==
  /\ o.kind = "create"
  /\ \/ Accepted(o) /\ Apply(o) /\ Succeed(o) /\ UNCHANGED used
     \/ ~Accepted(o) /\ NoWrite /\ Retrieve(o) /\ UNCHANGED used
     \/ /\ TargetIsNamespace /\ Spend("faults") /\ Retrieve(o)
        /\ NoWrite \/ (Accepted(o) /\ Apply(o))
  /\ UNCHANGED updated /\ OpUnchanged

AdoptUnasked(o) ==                      \* mutant: skipAdoptingResources ignored
  /\ o.kind = "get" /\ Present(obj[o.cluster])
  /\ ops' = (ops \ {o}) \union
              {[o EXCEPT !.kind = "update", !.seen = obj[o.cluster]]}
  /\ Record(o, "UpdateTimedOut")
  /\ NoWrite /\ UNCHANGED <<ok, updated, used>> /\ OpUnchanged

Adopt(o) ==
  /\ o.kind = "get"
  /\ \/ ~Present(obj[o.cluster]) /\ Fail(o, "Failed")
     \/ /\ Present(obj[o.cluster]) /\ ~AdoptResources /\ o.cluster \notin HostNamespace
        /\ ops' = ops \ {o} /\ Record(o, "AlreadyExists") /\ UNCHANGED ok
     \/ /\ Present(obj[o.cluster]) /\ (AdoptResources \/ o.cluster \in HostNamespace)
        /\ ops' = (ops \ {o}) \union
                    {[o EXCEPT !.kind = "update", !.seen = obj[o.cluster]]}
        /\ Record(o, "UpdateTimedOut") /\ UNCHANGED ok
  /\ NoWrite /\ UNCHANGED <<updated, used>> /\ OpUnchanged

\* Whether a labelled object needs an update depends on its recorded version.
Update(o) ==
  /\ o.kind = "update"
  /\ \/ /\ IsExplicitlyUnmanaged(o.seen) /\ Fail(o, "ManagedLabelFalse")
        /\ NoWrite /\ UNCHANGED updated
     \/ o.seen.label = "true" /\ Succeed(o) /\ NoWrite /\ UNCHANGED updated
     \/ /\ Accepted(o)
        /\ Apply(o) /\ Succeed(o)
        /\ updated' = (updated \/ o.late = 0)
     \/ /\ ~IsExplicitlyUnmanaged(o.seen) /\ ~Accepted(o)
        /\ Fail(o, "Failed") /\ NoWrite /\ UNCHANGED updated
  /\ UNCHANGED used /\ OpUnchanged

\* A deletion has no precondition, and NotFound is success.
Delete(o) ==
  /\ o.kind = "delete"
  /\ IF Accepted(o) THEN Apply(o) ELSE NoWrite
  /\ Succeed(o)
  /\ UNCHANGED <<updated, used>> /\ OpUnchanged

RemoveManagedLabel(o) ==
  /\ o.kind = "unlabel"
  /\ \/ Accepted(o) /\ Apply(o) /\ Succeed(o)
     \/ ~Accepted(o) /\ Fail(o, "Failed") /\ NoWrite
  /\ UNCHANGED <<updated, used>> /\ OpUnchanged

RemovedFromStore(c) == ~Present(store[c])   \* mutant: ask the informer instead

RemovedOrUnlabeled(c) ==
  \/ ~Present(obj[c])
  \/ obj[c].deleting /\ c \in HostNamespace
  \/ ~obj[c].deleting /\ ~HasManagedLabel(obj[c])

CheckRemovedOrUnlabeled(o) ==
  /\ o.kind = "check"
  /\ IF RemovedOrUnlabeled(o.cluster) THEN Succeed(o) ELSE Fail(o, "Failed")
  /\ NoWrite /\ UNCHANGED <<updated, used>> /\ OpUnchanged

\* A request fails, or succeeds with its response lost.
OperationFails(o) ==
  /\ Spend("faults") /\ Fail(o, "Failed")
  /\ \/ NoWrite
     \/ Accepted(o) /\ Apply(o)
  /\ UNCHANGED updated /\ OpUnchanged

clusterOperation(o) ==
  \/ Create(o) \/ Adopt(o) \/ Update(o) \/ Delete(o)
  \/ RemoveManagedLabel(o) \/ CheckRemovedOrUnlabeled(o)

-----------------------------------------------------------------------------
(* Waiting for the dispatched operations *)

Live == {o \in ops : o.late = 0}

\* Without a timeout every operation has ended: a timeout status means success.
Settled(propStatus) ==
  CASE propStatus \in {"CreationTimedOut", "UpdateTimedOut"} -> OK
    [] propStatus = "DeletionTimedOut"     -> "WaitingForRemoval"
    [] propStatus = "LabelRemovalTimedOut" -> Absent
    [] OTHER                               -> propStatus

\* syncToClusters goes on whatever the outcome; deletion phases stop on failure.
WaitEnds ==
  /\ pc \in Waits /\ Live = {}
  /\ \/ /\ pc = "syncWait" /\ Goto("setFederatedStatus")
        /\ statusMap' = [c \in Clusters |-> Settled(statusMap[c])]
        /\ UNCHANGED <<ok, remaining, updated>>
     \/ /\ pc = "deleteWait" /\ ok /\ ~remaining
        /\ Goto("ensureRemovedOrUnmanaged") /\ UNCHANGED waitVars
     \/ pc = "deleteWait" /\ (~ok \/ remaining) /\ Finish(TRUE)
     \/ pc = "labelWait" /\ Finish(~ok)
     \/ pc = "checkWait" /\ ok /\ Goto("removeFinalizer") /\ UNCHANGED waitVars
     \/ pc = "checkWait" /\ ~ok /\ Finish(TRUE)
  /\ UNCHANGED <<hostVars, memberVars, ops, used>>

\* Operations are not cancelled on a timeout.
WaitTimesOut ==
  /\ pc \in Waits /\ Live # {} /\ Spend("timeouts")
  /\ ops' = (ops \ Live) \union {[o EXCEPT !.late = used'["timeouts"]] : o \in Live}
  /\ IF pc = "syncWait" THEN Goto("setFederatedStatus") /\ UNCHANGED waitVars
                        ELSE Finish(TRUE)
  /\ UNCHANGED <<hostVars, memberVars>>

\* The controller manager stops anywhere and starts again (or another replica
\* takes the lead) with new stores, once its informers have listed the host.
Restart ==
  /\ Spend("crashes")
  /\ Leave /\ ops' = {}
  /\ fedStore' = fed /\ queue' = IF Exists(fed) THEN {"federated"} ELSE {}
  /\ informer' = [c \in Clusters |-> IF c \in ready THEN "listing" ELSE "none"]
  /\ store' = [c \in Clusters |-> NoObj]
  /\ clusterEvent' = (ready # {})
  /\ UNCHANGED <<fed, ready, obj>>

Worker ==
  \/ \E k \in Keys : reconcile(k)
  \/ ensureFinalizer \/ syncToClusters \/ setFederatedStatus
  \/ ensureDeletion \/ removeFinalizer \/ removeManagedLabel
  \/ deleteFromClusters \/ ensureRemovedOrUnmanaged
  \/ WaitEnds

Next ==
  \/ \E p \in SUBSET Clusters, orphan \in BOOLEAN : UserCreates(p, orphan)
  \/ \E p \in SUBSET Clusters : UserMoves(p)
  \/ UserTogglesOrphaning \/ UserDeletes
  \/ \E c \in Clusters : \/ MemberEdit(c) \/ CollectGarbage(c)
                         \/ ClusterUnavailable(c) \/ ClusterAvailable(c)
                         \/ TargetEvent(c)
  \/ FedEvent \/ reconcileOnClusterChange
  \/ Worker
  \/ \E o \in ops : clusterOperation(o) \/ OperationFails(o)
  \/ WaitTimesOut \/ Restart

Spec == Init /\ [][Next]_vars

\* The worker, the informers, the deliverer and every client call make progress;
\* a cluster that fails its health checks passes them again some day, and an
\* object marked for deletion is collected.  Users, faults, timeouts, failing
\* health checks and restarts never have to happen.
Fairness ==
  /\ WF_vars(Worker) /\ \A k \in Keys : WF_vars(reconcile(k))
  /\ WF_vars(FedEvent) /\ WF_vars(reconcileOnClusterChange)
  /\ \A c \in Clusters : /\ WF_vars(TargetEvent(c))
                         /\ WF_vars(CollectGarbage(c))
                         /\ WF_vars(ClusterAvailable(c))
                         /\ WF_vars(\E o \in ops : o.cluster = c /\ clusterOperation(o))

FairSpec == Spec /\ Fairness

-----------------------------------------------------------------------------
(* Properties *)

\* Types of the variables; the stores of the target informers hold labelled
\* objects only, which is what lets syncToClusters take a stored object for a
\* managed one.
TypeOK ==
  /\ fed \in FedResource /\ fedStore \in FedResource
  /\ copy \in FedResource
  /\ ready \subseteq Clusters
  /\ informer \in [Clusters -> InformerStates]
  /\ obj \in [Clusters -> TargetObject]
  /\ store \in [Clusters -> {o \in TargetObject : o.label = "true" \/ o = NoObj}]
  /\ clusterEvent \in BOOLEAN /\ queue \subseteq Keys
  /\ pc \in PCs /\ key \in Keys
  /\ ops \subseteq Operation
  /\ ok \in BOOLEAN /\ remaining \in BOOLEAN
  /\ statusMap \in StatusMap /\ updated \in BOOLEAN
  /\ used \in [Bounds -> Nat]

\* Whoever creates or updates an object on behalf of a federated resource does so
\* while that very resource exists and carries the finalizer, however stale the
\* worker's copy is: reconcile calls ensureFinalizer before syncToClusters.
FinalizerHeld ==
  \A o \in Live : o.kind \in {"create", "get", "update"} =>
                    Exists(fed) /\ fed.finalizer /\ fed.uid = copy.uid

\* An operation that deletes an object belongs to a reconciliation that found the
\* cluster outside the placement or the resource deleted without the orphan
\* annotation, and never concerns the host's own namespace.
DeletionJustified ==
  \A o \in Live : o.kind = "delete" =>
    /\ o.cluster \notin HostNamespace
    /\ o.cluster \notin copy.placement \/ (copy.deleting /\ ~copy.orphan)

\* deleteFromClusters: "Managed resources no longer exist in any member cluster"
\* at the step that gives up the finalizer of a resource that is not orphaned.
NoManagedResourceLeft ==
  [][(Exists(fed) /\ fed.finalizer /\ ~fed.orphan /\ ~Exists(fed'))
       => \A c \in Clusters : HasManagedLabel(obj[c]) =>
            c \in HostNamespace /\ obj[c].deleting]_vars

\* No step labels an object that is explicitly unmanaged or, when adoption is
\* disabled, an object KubeFed did not create (the host's namespace excepted):
\* an update computed from a stale object must not get through.
NeverAdoptsUnwanted ==
  [][\A c \in Clusters :
       /\ Present(obj[c])
       /\ obj[c].label = "false" \/ (obj[c].label = "none" /\ ~AdoptResources
                                     /\ c \notin HostNamespace)
       => ~HasManagedLabel(obj'[c])]_vars

InPlace(c) == HasManagedLabel(obj[c]) <=> (Exists(fed) /\ c \in fed.placement)

\* Nothing is left to do or to be delivered.
Quiescent ==
  /\ pc = "idle" /\ queue = {} /\ ops = {}
  /\ fedStore = fed /\ ~clusterEvent /\ \A c \in ready : informer[c] = "synced"

\* When everything has come to rest, no federated resource is left half deleted,
\* and one whose objects are not where its placement wants them says so in the
\* reason of its Propagation condition: syncToClusters returns StatusAllOK even
\* when operations failed, so the status is all that is left of a failure.
NoSilentFailure ==
  Quiescent /\ Exists(fed) =>
    /\ ~(fed.deleting /\ fed.finalizer)
    /\ (\E c \in ready : ~InPlace(c)) => fed.status.reason = "CheckClusters"
    /\ ~(fed.placement \subseteq ready) => fed.status.reason = "CheckClusters"

\* A federated resource that is being deleted is gone in the end: its finalizer
\* is removed however often clusters fail, requests fail or the manager restarts.
DeletionCompletes == (Exists(fed) /\ fed.deleting) ~> ~Exists(fed)

\* Without their federated resource, objects lose the managed label (or go), also
\* when a restart or a failure comes between the removal of the finalizer and
\* that of the labels.
OrphansReleased ==
  <>[](~Exists(fed)) => <>[](\A c \in Clusters : ~HasManagedLabel(obj[c]))

\* A federated resource that stays is propagated to all the clusters of its
\* placement and to no other, or its status says CheckClusters from some time on.
PropagatedOrReported ==
  <>[](Exists(fed) /\ ~fed.deleting) =>
     \/ <>[](\A c \in Clusters : InPlace(c))
     \/ <>[](Exists(fed) => fed.status.reason = "CheckClusters")
=============================================================================
