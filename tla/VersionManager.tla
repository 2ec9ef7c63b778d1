---------------------------- MODULE VersionManager ----------------------------
(***************************************************************************)
(* The versions of propagated objects (pkg/controller/sync/version and     *)
(* util/propagatedversion.go) and the updates the sync controller leaves   *)
(* out because of them.  For one federated resource the manager remembers  *)
(* which version of the object in each cluster it last wrote for which     *)
(* template; a PropagatedVersion in the host cluster keeps that memory     *)
(* across restarts.                                                        *)
(*                                                                         *)
(* A version is the object's generation where the type has one: 1 for a    *)
(* new object, one more with each change of the spec.  Otherwise it is the *)
(* object's resource version, which no two writes of a cluster share.      *)
(*                                                                         *)
(* SyncController has the rest of the sync controller: finalizers, failed  *)
(* requests, unready clusters, statuses.  Here a user's edit takes effect  *)
(* when the informer of the federated type delivers it, and a deletion     *)
(* removes the objects of all clusters in one step.                        *)
(***************************************************************************)
EXTENDS Naturals, Sequences

CONSTANTS
  Clusters,
  Templates,            \* template and overrides, as their hashes tell them apart
  NoTemplate,           \* the status of a PropagatedVersion not written yet
  HasGeneration,        \* objects of the target type have a generation
  MaxResources,         \* bound: how often the user creates the resource
  MaxEdits,             \* bound: changes of template or placement
  MaxMemberEdits,       \* bound: changes made to objects in member clusters
  MaxWriteFailures,     \* bound: writes of the PropagatedVersion given up
  MaxForeignWrites,     \* bound: other writes of the PropagatedVersion
  MaxTimeouts,          \* bound: dispatcher waits that time out
  MaxCrashes            \* bound: restarts of the controller manager

ASSUME VersionAssumption ==
  /\ HasGeneration \in BOOLEAN /\ NoTemplate \notin Templates
  /\ {MaxResources, MaxEdits, MaxMemberEdits, MaxWriteFailures,
      MaxForeignWrites, MaxTimeouts, MaxCrashes} \subseteq Nat

VARIABLES
  fed,          \* the federated resource
  obj,          \* per cluster, the object in its API server
  log,          \* per cluster, what each resource version of the object was
  store,        \* per cluster, the object in the informer store
  lag,          \* the clusters whose watch has an event to deliver
  queue,        \* the resource is in the worker's queue
  hasSynced,    \* the manager has loaded the persisted versions
  versions,     \* the manager's entry for the resource
  persisted,    \* the PropagatedVersion in the host API server
  pc,           \* where the worker is
  copy,         \* the federated resource being reconciled
  recorded,     \* the managed dispatcher's versionMap
  known,        \* writeVersion's resourceVersion
  ops,          \* the dispatched operations that have not ended
  used          \* how much of each bound has been spent

memberVars == <<obj, log, store, lag>>
managerVars == <<hasSynced, versions, persisted, known>>
workerVars == <<pc, copy, recorded>>
vars == <<fed, memberVars, queue, managerVars, workerVars, ops, used>>

-----------------------------------------------------------------------------
(* State *)

FedResource == [uid: Nat \ {0}, template: Templates,
                placement: SUBSET Clusters, deleting: BOOLEAN]
NoFed == [uid |-> 0, template |-> NoTemplate, placement |-> {},
          deleting |-> FALSE]
Exists(r) == r.uid # 0

\* Version 0 is the empty string: no object, or no version recorded.
Object == [content: Templates, managed: BOOLEAN, version: Nat \ {0}]
NoObj == [content |-> NoTemplate, managed |-> FALSE, version |-> 0]
Present(o) == o.version # 0

CachedUnfiltered(o) == o                \* mutant: no label selector

\* Target informers select labelled objects.
Cached(o) == IF o.managed THEN o ELSE NoObj

VersionMap == [Clusters -> Nat]
NoVersions == [c \in Clusters |-> 0]

\* How a known resource version stands to that of the PropagatedVersion.
ResourceVersions == {"none", "current", "stale"}
PropagatedVersion ==
  [owner: Nat, template: Templates \union {NoTemplate}, map: VersionMap]
Nothing == [owner |-> 0, template |-> NoTemplate, map |-> NoVersions]
Entry == [owner: Nat, template: Templates \union {NoTemplate},
          map: VersionMap, rv: ResourceVersions]
NoEntry == [owner |-> 0, template |-> NoTemplate, map |-> NoVersions,
            rv |-> "none"]
Recorded(v) == v.owner # 0

\* template is the one of the reconciliation the operation belongs to; late is
\* 0 while the worker waits for it, n when the n-th timeout left it behind.
Operation == [cluster: Clusters, kind: {"create", "update", "put", "delete"},
              template: Templates, seen: Object \union {NoObj}, late: Nat]

WritePCs == {"create", "updateStatus", "refresh"}

Bounds == {"resources", "edits", "memberEdits", "writeFailures",
           "foreignWrites", "timeouts", "crashes"}
Limit == [b \in Bounds |->
  CASE b = "resources" -> MaxResources [] b = "edits" -> MaxEdits
    [] b = "memberEdits" -> MaxMemberEdits
    [] b = "writeFailures" -> MaxWriteFailures
    [] b = "foreignWrites" -> MaxForeignWrites
    [] b = "timeouts" -> MaxTimeouts [] b = "crashes" -> MaxCrashes]
Spend(b) == used[b] < Limit[b] /\ used' = [used EXCEPT ![b] = @ + 1]

Init ==
  /\ fed = NoFed /\ queue = FALSE
  /\ obj = [c \in Clusters |-> NoObj] /\ log = [c \in Clusters |-> <<>>]
  /\ store = obj /\ lag = {}
  /\ hasSynced = TRUE /\ versions = NoEntry /\ persisted = Nothing
  /\ known = "none"
  /\ pc = "idle" /\ copy = NoFed /\ recorded = NoVersions
  /\ ops = {} /\ used = [b \in Bounds |-> 0]

-----------------------------------------------------------------------------
(* A member cluster's API server *)

Same(o, content, managed) ==
  Present(o) /\ o.content = content /\ o.managed = managed

NextVersion(c, content) ==
  IF HasGeneration
  THEN IF Present(obj[c])
       THEN obj[c].version + (IF obj[c].content = content THEN 0 ELSE 1)
       ELSE 1
  ELSE Len(log[c]) + 1

\* What is stored when a request gives the object this content and label; a
\* request that changes nothing is not a write.
Stored(c, content, managed) ==
  IF Same(obj[c], content, managed) THEN obj[c]
  ELSE [content |-> content, managed |-> managed,
        version |-> NextVersion(c, content)]

\* A write that concerns a labelled object is always delivered by the watch.
Write(c, o) ==
  /\ obj' = [obj EXCEPT ![c] = o]
  /\ log' = IF HasGeneration \/ ~Present(o) \/ o = obj[c] THEN log
            ELSE [log EXCEPT ![c] =
                    Append(@, [content |-> o.content, managed |-> o.managed])]
  /\ lag' = IF o # obj[c] /\ (o.managed \/ obj[c].managed)
            THEN lag \union {c} ELSE lag
  /\ UNCHANGED store

-----------------------------------------------------------------------------
(* Users of the host cluster and of member clusters *)

UserCreates(template, placement) ==
  /\ ~Exists(fed) /\ Spend("resources")
  /\ fed' = [uid |-> used'["resources"], template |-> template,
             placement |-> placement, deleting |-> FALSE]
  /\ queue' = TRUE
  /\ UNCHANGED <<memberVars, managerVars, workerVars, ops>>

UserEdits(template, placement) ==
  /\ Exists(fed) /\ Spend("edits")
  /\ template # fed.template \/ placement # fed.placement
  /\ fed' = [fed EXCEPT !.template = template, !.placement = placement]
  /\ queue' = TRUE
  /\ UNCHANGED <<memberVars, managerVars, workerVars, ops>>

UserDeletes ==
  /\ Exists(fed) /\ ~fed.deleting
  /\ fed' = [fed EXCEPT !.deleting = TRUE] /\ queue' = TRUE
  /\ UNCHANGED <<memberVars, managerVars, workerVars, ops, used>>

\* A user changes the spec of an object, takes its label away, deletes it, or
\* makes one of his own.
MemberEdit(c) ==
  /\ Spend("memberEdits")
  /\ \/ \E content \in Templates : Write(c, Stored(c, content, obj[c].managed))
     \/ Present(obj[c]) /\ Write(c, Stored(c, obj[c].content, FALSE))
     \/ Present(obj[c]) /\ Write(c, NoObj)
  /\ UNCHANGED <<fed, queue, managerVars, workerVars, ops>>

TargetEvent(c) ==
  /\ c \in lag /\ lag' = lag \ {c}
  /\ store' = [store EXCEPT ![c] = Cached(obj[c])]
  /\ queue' = TRUE
  /\ UNCHANGED <<fed, obj, log, managerVars, workerVars, ops, used>>

-----------------------------------------------------------------------------
(* reconcile *)

NewOp(c) ==
  [cluster |-> c, template |-> fed.template, seen |-> store[c], late |-> 0,
   kind |-> IF c \notin fed.placement THEN "delete"
            ELSE IF Present(store[c]) THEN "update" ELSE "create"]

syncToClusters ==
  /\ pc = "idle" /\ queue /\ hasSynced /\ Exists(fed) /\ ~fed.deleting
  /\ queue' = FALSE /\ pc' = "wait" /\ copy' = fed /\ recorded' = NoVersions
  /\ ops' = ops \union {NewOp(c) : c \in {d \in Clusters :
                                     d \in fed.placement \/ Present(store[d])}}
  /\ UNCHANGED <<fed, memberVars, managerVars, used>>

DeleteNothing == versions               \* mutant: the entry is kept

\* Delete forgets the entry; the garbage collector removes what is persisted.
Delete == NoEntry

ensureDeletion ==
  /\ pc = "idle" /\ queue /\ hasSynced /\ fed.deleting
  /\ queue' = FALSE /\ fed' = NoFed /\ versions' = Delete
  /\ obj' = [c \in Clusters |-> IF obj[c].managed THEN NoObj ELSE obj[c]]
  /\ lag' = lag \union {c \in Clusters : obj[c].managed}
  /\ UNCHANGED <<log, store, hasSynced, persisted, known, workerVars, ops, used>>

\* Orphans are SyncController's concern.
reconcileNothing ==
  /\ pc = "idle" /\ queue /\ hasSynced /\ ~Exists(fed)
  /\ queue' = FALSE
  /\ UNCHANGED <<fed, memberVars, managerVars, workerVars, ops, used>>

-----------------------------------------------------------------------------
(* Operations on member clusters *)

GetAnyTemplate(template) ==             \* mutant: the template is not compared
  versions.map

\* The recorded versions are of no use to another template.
Get(template) ==
  IF Recorded(versions) /\ versions.template = template
  THEN versions.map ELSE NoVersions

\* A change of labels or annotations leaves the generation as it is.
ObjectNeedsUpdate(seen, version) ==
  version # seen.version \/ (HasGeneration /\ ~seen.managed)

Record(op, version) ==
  recorded' = IF op.late = 0 THEN [recorded EXCEPT ![op.cluster] = version]
              ELSE recorded

\* An object that exists is fetched and updated instead.
Create(op) ==
  LET c == op.cluster IN
  /\ op.kind = "create"
  /\ IF Present(obj[c])
     THEN /\ ops' = (ops \ {op}) \union
                      {[op EXCEPT !.kind = "update", !.seen = obj[c]]}
          /\ UNCHANGED <<memberVars, recorded>>
     ELSE /\ ops' = ops \ {op}
          /\ Write(c, Stored(c, op.template, TRUE)) /\ Record(op, obj'[c].version)

Update(op) ==
  /\ op.kind = "update"
  /\ ops' = (ops \ {op}) \union
       (IF ObjectNeedsUpdate(op.seen, Get(op.template)[op.cluster])
        THEN {[op EXCEPT !.kind = "put"]} ELSE {})
  /\ UNCHANGED <<memberVars, recorded>>

\* The request carries the resource version of the object it was computed from.
Put(op) ==
  LET c == op.cluster IN
  /\ op.kind = "put"
  /\ ops' = ops \ {op}
  /\ IF obj[c] = op.seen
     THEN Write(c, Stored(c, op.template, TRUE)) /\ Record(op, obj'[c].version)
     ELSE UNCHANGED <<memberVars, recorded>>

\* The deletion of an object records no version.
DeleteObject(op) ==
  /\ op.kind = "delete"
  /\ ops' = ops \ {op}
  /\ Write(op.cluster, NoObj)
  /\ UNCHANGED recorded

clusterOperation(op) ==
  /\ Create(op) \/ Update(op) \/ Put(op) \/ DeleteObject(op)
  /\ UNCHANGED <<fed, queue, managerVars, pc, copy, used>>

-----------------------------------------------------------------------------
(* Update: the manager's memory, then the API *)

updateClusterVersionsAll(old) ==        \* mutant: unselected clusters are kept
  [c \in Clusters |-> IF recorded[c] # 0 THEN recorded[c] ELSE old[c]]

\* Versions of selected clusters that were not written are retained.
updateClusterVersions(old) ==
  [c \in Clusters |->
     IF recorded[c] # 0 THEN recorded[c]
     ELSE IF c \in copy.placement THEN old[c] ELSE 0]

UpdatedEntry(map) ==
  [owner |-> IF Recorded(versions) THEN versions.owner ELSE copy.uid,
   template |-> copy.template, map |-> map, rv |-> versions.rv]

NewEntry == UpdatedEntry(updateClusterVersions(Get(copy.template)))

Leave == pc' = "idle" /\ copy' = NoFed /\ known' = "none"

\* Memory changes before the write and stays changed when the write fails; an
\* equivalent status is not written, whether or not the last write succeeded.
UpdateVersions ==
  /\ versions' = NewEntry /\ recorded' = NoVersions
  /\ IF NewEntry = versions THEN Leave
     ELSE /\ known' = versions.rv /\ UNCHANGED copy
          /\ pc' = IF versions.rv = "none" THEN "create" ELSE "updateStatus"

Waiting == {op \in ops : op.late = 0}

WaitEnds ==
  /\ pc = "wait" /\ Waiting = {}
  /\ UpdateVersions
  /\ UNCHANGED <<fed, memberVars, queue, hasSynced, persisted, ops, used>>

WaitTimesOut ==
  /\ pc = "wait" /\ Waiting # {} /\ Spend("timeouts")
  /\ ops' = (ops \ Waiting) \union
              {[op EXCEPT !.late = used'["timeouts"]] : op \in Waiting}
  /\ UpdateVersions
  /\ UNCHANGED <<fed, memberVars, queue, hasSynced, persisted>>

\* The API server drops the status of a resource it creates.
createVersion ==
  /\ pc = "create"
  /\ IF Recorded(persisted)
     THEN pc' = "refresh" /\ UNCHANGED <<versions, persisted, known>>
     ELSE /\ persisted' = [Nothing EXCEPT !.owner = versions.owner]
          /\ versions' = IF versions.rv = "none" THEN versions
                         ELSE [versions EXCEPT !.rv = "stale"]
          /\ known' = "current" /\ pc' = "updateStatus"
  /\ UNCHANGED <<fed, memberVars, queue, hasSynced, copy, recorded, ops, used>>

updateVersionStatus ==
  /\ pc = "updateStatus"
  /\ \/ /\ Recorded(persisted) /\ known = "current"
        /\ persisted' = [persisted EXCEPT !.template = versions.template,
                                          !.map = versions.map]
        /\ versions' = [versions EXCEPT !.rv = "current"]
        /\ Leave
     \/ /\ Recorded(persisted) /\ known # "current"
        /\ pc' = "refresh" /\ UNCHANGED <<versions, persisted, known, copy>>
     \/ /\ ~Recorded(persisted)
        /\ pc' = "create" /\ UNCHANGED <<versions, persisted, known, copy>>
  /\ UNCHANGED <<fed, memberVars, queue, hasSynced, recorded, ops, used>>

refreshForgotten ==                     \* mutant: the new version is not kept
  /\ pc = "refresh" /\ Recorded(persisted)
  /\ pc' = "updateStatus"
  /\ UNCHANGED <<fed, memberVars, queue, managerVars, copy, recorded, ops, used>>

refreshVersion ==
  /\ pc = "refresh" /\ Recorded(persisted)
  /\ known' = "current" /\ pc' = "updateStatus"
  /\ UNCHANGED <<fed, memberVars, queue, hasSynced, versions, persisted, copy,
                 recorded, ops, used>>

\* Forbidden, or 30 seconds of failures: refreshing never finds a resource that
\* was removed in the meantime.
writeVersionFails ==
  /\ pc \in WritePCs /\ Leave
  /\ IF pc = "refresh" /\ ~Recorded(persisted) THEN UNCHANGED used
     ELSE Spend("writeFailures")
  /\ UNCHANGED <<fed, memberVars, queue, hasSynced, versions, persisted,
                 recorded, ops>>

-----------------------------------------------------------------------------
(* The PropagatedVersion in the host cluster; restarts *)

Outdated(rv) == IF rv = "current" THEN "stale" ELSE rv

ForeignWrite ==
  /\ Recorded(persisted) /\ Spend("foreignWrites")
  /\ versions' = [versions EXCEPT !.rv = Outdated(@)]
  /\ known' = Outdated(known)
  /\ UNCHANGED <<fed, memberVars, queue, hasSynced, persisted, workerVars, ops>>

\* A PropagatedVersion goes with the federated resource that owns it.
GarbageCollect ==
  /\ Recorded(persisted) /\ persisted.owner # fed.uid
  /\ persisted' = Nothing
  /\ UNCHANGED <<fed, memberVars, queue, hasSynced, versions, known, workerVars,
                 ops, used>>

Restart ==
  /\ Spend("crashes")
  /\ hasSynced' = FALSE /\ versions' = NoEntry /\ known' = "none"
  /\ pc' = "idle" /\ copy' = NoFed /\ recorded' = NoVersions /\ ops' = {}
  /\ queue' = FALSE
  /\ UNCHANGED <<fed, memberVars, persisted>>

load == IF Recorded(persisted)
        THEN [owner |-> persisted.owner, template |-> persisted.template,
              map |-> persisted.map, rv |-> "current"]
        ELSE NoEntry

\* Informers list their clusters and enqueue what they find.
Sync ==
  /\ ~hasSynced /\ hasSynced' = TRUE
  /\ versions' = load
  /\ store' = [c \in Clusters |-> Cached(obj[c])] /\ lag' = {}
  /\ queue' = TRUE
  /\ UNCHANGED <<fed, obj, log, persisted, known, workerVars, ops, used>>

-----------------------------------------------------------------------------
UserNext ==
  \/ \E t \in Templates, p \in SUBSET Clusters :
       UserCreates(t, p) \/ UserEdits(t, p)
  \/ UserDeletes
  \/ \E c \in Clusters : MemberEdit(c)
WorkerNext ==
  \/ syncToClusters \/ ensureDeletion \/ reconcileNothing
  \/ WaitEnds \/ WaitTimesOut
  \/ createVersion \/ updateVersionStatus \/ refreshVersion \/ writeVersionFails
Next ==
  \/ UserNext \/ WorkerNext
  \/ \E c \in Clusters : TargetEvent(c)
  \/ \E op \in ops : clusterOperation(op)
  \/ ForeignWrite \/ GarbageCollect \/ Restart \/ Sync

Spec == Init /\ [][Next]_vars

(* The worker, the goroutines of the operations, the watches and a restarted
   manager run on; users, other writers and failures owe nothing. *)
Fairness ==
  /\ WF_vars(syncToClusters \/ ensureDeletion \/ reconcileNothing \/ WaitEnds)
  /\ WF_vars(createVersion \/ updateVersionStatus \/ refreshVersion)
  /\ WF_vars(pc = "refresh" /\ ~Recorded(persisted) /\ writeVersionFails)
  /\ WF_vars(\E op \in ops : clusterOperation(op))
  /\ WF_vars(\E c \in Clusters : TargetEvent(c))
  /\ WF_vars(Sync)
FairSpec == Spec /\ Fairness

-----------------------------------------------------------------------------
(* Properties *)

\* Every variable has its type; only labelled objects are in the stores.
TypeOK ==
  /\ fed \in FedResource \union {NoFed} /\ copy \in FedResource \union {NoFed}
  /\ obj \in [Clusters -> Object \union {NoObj}]
  /\ store \in [Clusters -> {o \in Object : o.managed} \union {NoObj}]
  /\ log \in [Clusters -> Seq([content: Templates, managed: BOOLEAN])]
  /\ lag \subseteq Clusters /\ queue \in BOOLEAN /\ hasSynced \in BOOLEAN
  /\ versions \in Entry /\ persisted \in PropagatedVersion
  /\ known \in ResourceVersions
  /\ pc \in {"idle", "wait"} \union WritePCs
  /\ recorded \in VersionMap
  /\ \A op \in ops : op \in Operation
  /\ used \in [Bounds -> Nat]

\* An update the dispatcher leaves out because of the recorded version
\* (ObjectNeedsUpdate) would have changed nothing: the object it looked at has
\* the content of the template and the managed label.
NoUpdateSkipped ==
  \A op \in ops :
    (/\ op.kind = "update" /\ op.late = 0
     /\ ~ObjectNeedsUpdate(op.seen, Get(op.template)[op.cluster]))
      => op.seen.content = op.template /\ op.seen.managed

AtRest ==
  pc = "idle" /\ ~queue /\ hasSynced /\ ops = {} /\ lag = {} /\ ~fed.deleting

\* When nothing is left to do, every labelled object of a selected cluster has
\* the content of the current template (syncToClusters): no stale version kept
\* an update from being made.
NoMissedUpdate ==
  AtRest => \A c \in fed.placement :
              Present(store[c]) => store[c].content = fed.template

\* When nothing is left to do, the manager knows the version of every labelled
\* object of a selected cluster, and of no other: the next reconciliation of the
\* resource sends no update to a member cluster.
VersionsCurrent ==
  AtRest /\ Exists(fed) =>
    \A c \in Clusters :
      IF c \in fed.placement
      THEN Present(store[c]) => Get(fed.template)[c] = store[c].version
      ELSE Get(fed.template)[c] = 0

\* A PropagatedVersion is written with the federated resource it is about as its
\* owner (NewVersion): the garbage collector does not remove it before that.
OwnedByResource ==
  pc = "create" => versions.owner = copy.uid

\* Updates, the events they cause and the writes of versions come to an end:
\* the controller does not update a member cluster's object for ever.
Quiesces == <>[]AtRest

=============================================================================
