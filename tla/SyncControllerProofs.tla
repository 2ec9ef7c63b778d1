------------------------- MODULE SyncControllerProofs -------------------------
EXTENDS SyncController, TLAPS

LEMMA SpendType ==
  ASSUME used \in [Bounds -> Nat], NEW b \in Bounds, Spend(b)
  PROVE  used' \in [Bounds -> Nat]
BY DEF Spend

LEMMA InitialTypes ==
  /\ EmptyMap \in StatusMap /\ InitialStatus \in Status
  /\ NoFed \in FedResource /\ NoObj \in TargetObject /\ Unlabeled \in TargetObject
<1>1. EmptyMap \in StatusMap
  BY DEF EmptyMap, StatusMap
<1>2. InitialStatus \in Status
  BY <1>1 DEF InitialStatus, Status, Reasons
<1> QED
  BY <1>1, <1>2 DEF NoFed, FedResource, NoObj, Unlabeled, TargetObject, Labels

LEMMA UpdateType ==
  ASSUME NEW s \in Status, NEW m \in StatusMap
  PROVE  update(s, m) \in Status
BY DEF Status, update, setClusters, aggregateReason, Reasons

LEMMA WriteType ==
  ASSUME TypeOK, NEW c \in Clusters, NEW o \in TargetObject, Write(c, o)
  PROVE  obj' \in [Clusters -> TargetObject] /\ informer' \in [Clusters -> InformerStates]
BY DEF TypeOK, Write, InformerStates

LEMMA TypeInit == Init => TypeOK
<1> SUFFICES ASSUME Init PROVE TypeOK
  OBVIOUS
<1>1. informer \in [Clusters -> InformerStates]
  BY DEF Init, InformerStates
<1>2. obj \in [Clusters -> TargetObject]
  BY InitialTypes DEF Init
<1>3. store \in [Clusters -> {o \in TargetObject : o.label = "true" \/ o = NoObj}]
  BY InitialTypes DEF Init
<1>5. used \in [Bounds -> Nat]
  BY DEF Init
<1> QED
  BY <1>1, <1>2, <1>3, <1>5, InitialTypes DEF Init, TypeOK, Keys, PCs

LEMMA TypeUser ==
  ASSUME TypeOK,
         \/ \E p \in SUBSET Clusters, orphan \in BOOLEAN : UserCreates(p, orphan)
         \/ \E p \in SUBSET Clusters : UserMoves(p)
         \/ UserTogglesOrphaning
         \/ UserDeletes
  PROVE  TypeOK'
<1> USE DEF TypeOK, hostVars, memberVars, waitVars, workerVars, vars
<1>1. CASE \E p \in SUBSET Clusters, orphan \in BOOLEAN : UserCreates(p, orphan)
  <2>1. PICK p \in SUBSET Clusters, orphan \in BOOLEAN : UserCreates(p, orphan)
    BY <1>1
  <2>2. used' \in [Bounds -> Nat]
    BY <2>1, SpendType DEF UserCreates, Bounds
  <2>4. fed' \in FedResource
    BY <2>1, <2>2, InitialTypes DEF UserCreates, FedResource, Bounds
  <2> QED BY <2>1, <2>2, <2>4 DEF UserCreates
<1>2. CASE \E p \in SUBSET Clusters : UserMoves(p)
  <2>1. PICK p \in SUBSET Clusters : UserMoves(p)
    BY <1>2
  <2>2. used' \in [Bounds -> Nat]
    BY <2>1, SpendType DEF UserMoves, Bounds
  <2>4. fed' \in FedResource
    BY <2>1 DEF UserMoves, FedResource, Status
  <2> QED BY <2>1, <2>2, <2>4 DEF UserMoves
<1>3. CASE UserTogglesOrphaning
  <2>2. used' \in [Bounds -> Nat]
    BY <1>3, SpendType DEF UserTogglesOrphaning, Bounds
  <2>4. fed' \in FedResource
    BY <1>3 DEF UserTogglesOrphaning, FedResource
  <2> QED BY <1>3, <2>2, <2>4 DEF UserTogglesOrphaning
<1>4. CASE UserDeletes
  <2>4. fed' \in FedResource
    BY <1>4, InitialTypes DEF UserDeletes, FedResource
  <2> QED BY <1>4, <2>4 DEF UserDeletes
<1> QED BY <1>1, <1>2, <1>3, <1>4

LEMMA TypeMember ==
  ASSUME TypeOK, NEW c \in Clusters,
         \/ MemberEdit(c) \/ CollectGarbage(c)
         \/ ClusterUnavailable(c) \/ ClusterAvailable(c) \/ TargetEvent(c)
  PROVE  TypeOK'
<1> USE DEF TypeOK, hostVars, memberVars, waitVars, workerVars, vars
<1>1. CASE MemberEdit(c)
  <2>1. PICK o \in MemberEdits(obj[c]) : Write(c, o)
    BY <1>1 DEF MemberEdit
  <2>2. o \in TargetObject
    BY <2>1 DEF MemberEdits, TargetObject, Labels
  <2>3. used' \in [Bounds -> Nat]
    BY <1>1, SpendType DEF MemberEdit, Bounds
  <2> QED BY <1>1, <2>1, <2>2, <2>3, WriteType DEF MemberEdit
<1>2. CASE CollectGarbage(c)
  BY <1>2, WriteType, InitialTypes DEF CollectGarbage
<1>3. CASE ClusterUnavailable(c)
  <2>1. used' \in [Bounds -> Nat]
    BY <1>3, SpendType DEF ClusterUnavailable, Bounds
  <2> QED BY <1>3, <2>1, InitialTypes DEF ClusterUnavailable, InformerStates
<1>4. CASE ClusterAvailable(c)
  BY <1>4 DEF ClusterAvailable, InformerStates
<1>5. CASE TargetEvent(c)
  <2>1. Cached(obj[c]) \in {o \in TargetObject : o.label = "true" \/ o = NoObj}
    BY InitialTypes DEF Cached, HasManagedLabel
  <2> QED BY <1>5, <2>1 DEF TargetEvent, InformerStates, TargetKey, Keys
<1> QED BY <1>1, <1>2, <1>3, <1>4, <1>5

LEMMA LeaveType ==
  ASSUME TypeOK, Leave
  PROVE  /\ pc' \in PCs /\ copy' \in FedResource /\ key' \in Keys
         /\ ok' \in BOOLEAN /\ remaining' \in BOOLEAN
         /\ statusMap' \in StatusMap /\ updated' \in BOOLEAN
BY InitialTypes DEF Leave, ResetWait, PCs, Keys

LEMMA FinishType ==
  ASSUME TypeOK, NEW retry \in BOOLEAN, Finish(retry)
  PROVE  /\ pc' \in PCs /\ copy' \in FedResource /\ key' \in Keys
         /\ ok' \in BOOLEAN /\ remaining' \in BOOLEAN
         /\ statusMap' \in StatusMap /\ updated' \in BOOLEAN
         /\ queue' \subseteq Keys
BY LeaveType DEF Finish, TypeOK

LEMMA NewOpType ==
  ASSUME NEW c \in Clusters, NEW kind \in OpKinds, NEW seen \in TargetObject
  PROVE  NewOp(c, kind, seen) \in Operation
BY DEF NewOp, Operation

LEMMA NewOpFields ==
  ASSUME NEW c, NEW kind, NEW seen
  PROVE  /\ NewOp(c, kind, seen).cluster = c /\ NewOp(c, kind, seen).kind = kind
         /\ NewOp(c, kind, seen).late = 0
BY DEF NewOp

LEMMA DispatchType ==
  ASSUME TypeOK, NEW c \in Clusters
  PROVE  /\ Removal(c) \in Operation /\ Propagation(c) \in Operation
         /\ NewOp(c, "unlabel", store[c]) \in Operation
         /\ NewOp(c, "check", NoObj) \in Operation
         /\ DispatchStatus(c) \in PropStatus \union {Absent}
<1>1. store[c] \in TargetObject /\ NoObj \in TargetObject
  BY InitialTypes DEF TypeOK
<1>2. DispatchStatus(c) \in PropStatus \union {Absent}
  BY DEF DispatchStatus, PropStatus, Timeouts, Absent
<1> QED BY <1>1, <1>2, NewOpType DEF Removal, Propagation, OpKinds

LEMMA TypeSync ==
  ASSUME TypeOK,
         \/ FedEvent \/ reconcileOnClusterChange \/ \E k \in Keys : reconcile(k)
         \/ ensureFinalizer \/ syncToClusters \/ setFederatedStatus
  PROVE  TypeOK'
<1> USE DEF TypeOK, hostVars, memberVars, waitVars, workerVars, vars
<1>1. CASE FedEvent
  BY <1>1 DEF FedEvent, Keys
<1>2. CASE reconcileOnClusterChange
  BY <1>2 DEF reconcileOnClusterChange, isSynced, Keys
<1>3. CASE \E k \in Keys : reconcile(k)
  BY <1>3 DEF reconcile, PCs
<1>4. CASE ensureFinalizer
  <2>1. CASE copy.finalizer /\ Goto("syncToClusters") /\ UNCHANGED <<fed, waitVars, used>>
    BY <1>4, <2>1 DEF ensureFinalizer, Goto, PCs
  <2>2. CASE /\ ~copy.finalizer /\ copy = fed
             /\ fed' = [copy EXCEPT !.finalizer = TRUE] /\ copy' = fed'
             /\ pc' = "syncToClusters" /\ UNCHANGED <<key, queue, waitVars, used>>
    BY <1>4, <2>2 DEF ensureFinalizer, PCs, FedResource
  <2>3. CASE Finish(TRUE) /\ UNCHANGED <<fed, used>>
    BY <1>4, <2>3, FinishType DEF ensureFinalizer
  <2>4. CASE /\ Spend("faults") /\ Finish(TRUE)
             /\ fed' \in {fed, [copy EXCEPT !.finalizer = TRUE]}
    <3>1. fed' \in FedResource
      BY <2>4 DEF FedResource
    <3> QED BY <1>4, <2>4, <3>1, FinishType, SpendType DEF ensureFinalizer, Bounds
  <2> QED BY <1>4, <2>1, <2>2, <2>3, <2>4 DEF ensureFinalizer
<1>5. CASE syncToClusters
  <2>1. ops' \subseteq Operation
    BY <1>5, DispatchType DEF syncToClusters, Removable
  <2>2. statusMap' \in StatusMap
    BY <1>5, DispatchType DEF syncToClusters, StatusMap
  <2> QED BY <1>5, <2>1, <2>2 DEF syncToClusters, Goto, PCs, Waits
<1>6. CASE setFederatedStatus
  <2> DEFINE required == updateRequired(copy.status, statusMap, updated)
  <2>0. [fed EXCEPT !.status = update(@, statusMap)] \in FedResource
    <3>1. update(fed.status, statusMap) \in Status
      BY UpdateType DEF FedResource
    <3> QED BY <3>1 DEF FedResource
  <2>1. CASE Finish(FALSE) /\ UNCHANGED <<fed, used>>
    BY <1>6, <2>1, FinishType DEF setFederatedStatus
  <2>2. CASE /\ fed' = [fed EXCEPT !.status = update(@, statusMap)]
             /\ Leave
             /\ queue' = IF fed' = fed THEN queue \union {"federated"} ELSE queue
             /\ UNCHANGED used
    BY <1>6, <2>0, <2>2, LeaveType DEF setFederatedStatus, Keys
  <2>3. CASE copy' = fed /\ UNCHANGED <<fed, pc, key, queue, waitVars, used>>
    BY <1>6, <2>3 DEF setFederatedStatus
  <2>4. CASE Finish(TRUE) /\ UNCHANGED <<fed, used>>
    BY <1>6, <2>4, FinishType DEF setFederatedStatus
  <2>5. CASE /\ Spend("faults") /\ Finish(TRUE)
             /\ fed' \in {fed, [fed EXCEPT !.status = update(@, statusMap)]}
    BY <1>6, <2>0, <2>5, FinishType, SpendType DEF setFederatedStatus, Bounds
  <2> QED BY <1>6, <2>1, <2>2, <2>3, <2>4, <2>5 DEF setFederatedStatus
<1> QED BY <1>1, <1>2, <1>3, <1>4, <1>5, <1>6

LEMMA TypeDeletion ==
  ASSUME TypeOK,
         \/ ensureDeletion \/ removeFinalizer \/ removeManagedLabel
         \/ deleteFromClusters \/ ensureRemovedOrUnmanaged
  PROVE  TypeOK'
<1> USE DEF TypeOK, hostVars, memberVars, waitVars, workerVars, vars
<1>1. CASE ensureDeletion
  <2>1. CASE Finish(FALSE)
    BY <1>1, <2>1, FinishType DEF ensureDeletion
  <2>2. CASE UNCHANGED waitVars
             /\ Goto(IF copy.orphan THEN "removeFinalizer" ELSE "deleteFromClusters")
    BY <1>1, <2>2 DEF ensureDeletion, Goto, PCs
  <2> QED BY <1>1, <2>1, <2>2 DEF ensureDeletion
<1>2. CASE removeFinalizer
  <2>1. fed' \in FedResource
    BY <1>2, InitialTypes DEF removeFinalizer
  <2>2. CASE UNCHANGED used /\ Goto("removeManagedLabel") /\ UNCHANGED waitVars
    BY <1>2, <2>1, <2>2 DEF removeFinalizer, Goto, PCs
  <2>3. CASE UNCHANGED used /\ \E retry \in BOOLEAN : Finish(retry)
    BY <1>2, <2>1, <2>3, FinishType DEF removeFinalizer
  <2>4. CASE Spend("faults") /\ Finish(TRUE)
    BY <1>2, <2>1, <2>4, FinishType, SpendType DEF removeFinalizer, Bounds
  <2> QED BY <1>2, <2>2, <2>3, <2>4 DEF removeFinalizer
<1>3. CASE removeManagedLabel
  BY <1>3, DispatchType DEF removeManagedLabel, Removable, allReady, Goto, PCs, Waits
<1>4. CASE deleteFromClusters
  BY <1>4, DispatchType DEF deleteFromClusters, Removable, allReady, Goto, PCs, Waits
<1>5. CASE ensureRemovedOrUnmanaged
  BY <1>5, DispatchType DEF ensureRemovedOrUnmanaged, allReady, Goto, PCs, Waits
<1> QED BY <1>1, <1>2, <1>3, <1>4, <1>5

LEMMA ApplyType ==
  ASSUME TypeOK, NEW o \in ops, Accepted(o), Apply(o)
  PROVE  obj' \in [Clusters -> TargetObject] /\ informer' \in [Clusters -> InformerStates]
<1>1. o \in Operation /\ o.cluster \in Clusters /\ obj[o.cluster] \in TargetObject
  BY DEF TypeOK, Operation
<1> DEFINE cur == obj[o.cluster]
           new == CASE o.kind = "create"  -> Managed
                    [] o.kind = "delete"  -> [cur EXCEPT !.deleting = TRUE]
                    [] o.kind = "update"  -> [cur EXCEPT !.label = "true"]
                    [] o.kind = "unlabel" -> [cur EXCEPT !.label = "none"]
<1>2. new \in TargetObject
  BY <1>1 DEF Accepted, Managed, TargetObject, Labels
<1>3. Write(o.cluster, new)
  BY DEF Apply
<1> QED BY <1>1, <1>2, <1>3, WriteType

LEMMA EndType ==
  ASSUME TypeOK, NEW o \in ops,
         Succeed(o) \/ \E s \in PropStatus : Fail(o, s)
  PROVE  /\ ops' \subseteq Operation /\ ok' \in BOOLEAN /\ statusMap' \in StatusMap
BY DEF TypeOK, Succeed, Fail, Record, StatusMap, Operation

LEMMA TypeOperation ==
  ASSUME TypeOK, NEW o \in ops, clusterOperation(o) \/ OperationFails(o)
  PROVE  TypeOK'
<1> USE DEF TypeOK, hostVars, memberVars, waitVars, workerVars, vars, OpUnchanged, NoWrite
<1>0. /\ o \in Operation /\ o.cluster \in Clusters
      /\ {"Failed", "AlreadyExists", "ManagedLabelFalse", "UpdateTimedOut"} \subseteq PropStatus
  BY DEF Operation, PropStatus, Timeouts
<1>1. CASE Create(o)
  <2>1. CASE Accepted(o) /\ Apply(o) /\ Succeed(o) /\ UNCHANGED used
    BY <1>1, <2>1, ApplyType, EndType DEF Create
  <2>2. CASE Retrieve(o)
    <3>1. ops' \subseteq Operation
      BY <1>0, <2>2 DEF Retrieve, Operation, OpKinds
    <3>2. obj' \in [Clusters -> TargetObject] /\ informer' \in [Clusters -> InformerStates]
      BY <1>1, ApplyType DEF Create
    <3>3. used' \in [Bounds -> Nat]
      BY <1>1, SpendType DEF Create, Bounds
    <3> QED BY <1>1, <2>2, <3>1, <3>2, <3>3 DEF Create, Retrieve
  <2> QED BY <1>1, <2>1, <2>2 DEF Create
<1>2. CASE Adopt(o)
  <2>1. CASE Fail(o, "Failed")
    BY <1>0, <1>2, <2>1, EndType DEF Adopt
  <2>2. CASE ops' = ops \ {o} /\ Record(o, "AlreadyExists") /\ UNCHANGED ok
    BY <1>0, <1>2, <2>2 DEF Adopt, Record, StatusMap
  <2>3. CASE /\ ops' = (ops \ {o}) \union
                         {[o EXCEPT !.kind = "update", !.seen = obj[o.cluster]]}
             /\ Record(o, "UpdateTimedOut") /\ UNCHANGED ok
    <3>1. [o EXCEPT !.kind = "update", !.seen = obj[o.cluster]] \in Operation
      BY <1>0 DEF Operation, OpKinds
    <3>2. statusMap' \in StatusMap
      BY <1>0, <2>3 DEF Record, StatusMap
    <3> QED BY <1>2, <2>3, <3>1, <3>2 DEF Adopt
  <2> QED BY <1>2, <2>1, <2>2, <2>3 DEF Adopt
<1>3. CASE Update(o)
  <2>1. CASE (Succeed(o) \/ Fail(o, "ManagedLabelFalse") \/ Fail(o, "Failed"))
             /\ NoWrite /\ UNCHANGED updated
    BY <1>0, <1>3, <2>1, EndType DEF Update
  <2>2. CASE /\ Accepted(o) /\ Apply(o) /\ Succeed(o)
             /\ updated' = (updated \/ o.late = 0)
    BY <1>3, <2>2, ApplyType, EndType DEF Update
  <2> QED BY <1>3, <2>1, <2>2 DEF Update
<1>4. CASE Delete(o)
  BY <1>4, ApplyType, EndType DEF Delete
<1>5. CASE RemoveManagedLabel(o)
  BY <1>0, <1>5, ApplyType, EndType DEF RemoveManagedLabel
<1>6. CASE CheckRemovedOrUnlabeled(o)
  BY <1>0, <1>6, EndType DEF CheckRemovedOrUnlabeled
<1>7. CASE OperationFails(o)
  BY <1>0, <1>7, ApplyType, EndType, SpendType DEF OperationFails, Bounds
<1> QED BY <1>1, <1>2, <1>3, <1>4, <1>5, <1>6, <1>7 DEF clusterOperation

LEMMA TypeWait ==
  ASSUME TypeOK, WaitEnds \/ WaitTimesOut \/ Restart
  PROVE  TypeOK'
<1> USE DEF TypeOK, hostVars, memberVars, waitVars, workerVars, vars
<1>1. CASE WaitEnds
  <2>1. CASE /\ Goto("setFederatedStatus") /\ UNCHANGED <<ok, remaining, updated>>
             /\ statusMap' = [c \in Clusters |-> Settled(statusMap[c])]
    <3>1. \A s \in PropStatus \union {Absent} : Settled(s) \in PropStatus \union {Absent}
      BY DEF Settled, PropStatus, OK, Absent
    <3>2. statusMap' \in StatusMap
      BY <2>1, <3>1 DEF StatusMap
    <3> QED BY <1>1, <2>1, <3>2 DEF WaitEnds, Goto, PCs
  <2>2. CASE \E retry \in BOOLEAN : Finish(retry)
    BY <1>1, <2>2, FinishType DEF WaitEnds
  <2>3. CASE /\ Goto("ensureRemovedOrUnmanaged") \/ Goto("removeFinalizer")
             /\ UNCHANGED waitVars
    BY <1>1, <2>3 DEF WaitEnds, Goto, PCs
  <2>4. (~ok) \in BOOLEAN
    OBVIOUS
  <2> QED BY <1>1, <2>1, <2>2, <2>3, <2>4 DEF WaitEnds
<1>2. CASE WaitTimesOut
  <2>1. used' \in [Bounds -> Nat]
    BY <1>2, SpendType DEF WaitTimesOut, Bounds
  <2>2. \A o \in Live : [o EXCEPT !.late = used'["timeouts"]] \in Operation
    BY <2>1 DEF Live, Operation, Bounds
  <2>3. ops' \subseteq Operation
    BY <1>2, <2>2 DEF WaitTimesOut
  <2>4. CASE Goto("setFederatedStatus") /\ UNCHANGED waitVars
    BY <1>2, <2>1, <2>3, <2>4 DEF WaitTimesOut, Goto, PCs
  <2>5. CASE Finish(TRUE)
    BY <1>2, <2>1, <2>3, <2>5, FinishType DEF WaitTimesOut
  <2> QED BY <1>2, <2>4, <2>5 DEF WaitTimesOut
<1>3. CASE Restart
  <2>1. used' \in [Bounds -> Nat]
    BY <1>3, SpendType DEF Restart, Bounds
  <2>2. /\ informer' \in [Clusters -> InformerStates]
        /\ store' \in [Clusters -> {o \in TargetObject : o.label = "true" \/ o = NoObj}]
    BY <1>3, InitialTypes DEF Restart, InformerStates
  <2> QED BY <1>3, <2>1, <2>2, LeaveType DEF Restart, Keys
<1> QED BY <1>1, <1>2, <1>3

LEMMA TypeStep == TypeOK /\ [Next]_vars => TypeOK'
<1> SUFFICES ASSUME TypeOK, [Next]_vars PROVE TypeOK'
  OBVIOUS
<1>1. CASE UNCHANGED vars
  BY <1>1 DEF TypeOK, hostVars, memberVars, waitVars, workerVars, vars
<1> QED
  BY <1>1, TypeUser, TypeMember, TypeSync, TypeDeletion, TypeOperation, TypeWait
  DEF Next, Worker

\* Every reachable state is typed, whatever the bounds and the clusters.
THEOREM TypeCorrect == Spec => []TypeOK
BY TypeInit, TypeStep, PTL DEF Spec

-----------------------------------------------------------------------------
(* The lifetime of the finalizer *)

DeletionPCs == {"ensureDeletion", "deleteFromClusters", "deleteWait",
                "ensureRemovedOrUnmanaged", "checkWait", "removeFinalizer"}

\* Uids only grow, and only existing resources are marked.
Uids ==
  /\ \A r \in {fed, fedStore, copy} : r.uid <= used["resources"]
  /\ \A r \in {fed, fedStore, copy} : r.finalizer \/ r.deleting => Exists(r)

\* A finalizer is put on a resource the store has already seen, and deletion is
\* for ever: whatever the store or the worker has seen marked is marked or gone.
StoreTrails ==
  /\ fed.finalizer => fedStore.uid = fed.uid
  /\ fedStore.uid = fed.uid /\ fedStore.deleting => fed.deleting
  /\ fedStore.finalizer /\ ~fedStore.deleting =>
       fed.finalizer /\ fedStore.uid = fed.uid

CopyTrails ==
  /\ copy.uid = fed.uid /\ copy.deleting => fed.deleting
  /\ pc = "ensureFinalizer" =>
       /\ Exists(copy)
       /\ copy.uid = fed.uid => fedStore.uid = fed.uid
       /\ copy.finalizer => fed.finalizer /\ fed.uid = copy.uid
  /\ pc \in DeletionPCs =>
       /\ copy.deleting
       /\ copy.uid = fedStore.uid => fedStore.deleting
  /\ pc \in DeletionPCs \ {"ensureDeletion"} => copy.finalizer
  /\ pc \in {"syncToClusters", "syncWait"} =>
       Exists(copy) /\ fed.finalizer /\ fed.uid = copy.uid

LifetimeInv == Uids /\ StoreTrails /\ CopyTrails

\* The worker waits for the operations of the phase it is in.
PhaseInv ==
  /\ pc \notin Waits => Live = {}
  /\ \A o \in Live : o.kind \in {"create", "get", "update"} => pc = "syncWait"
  /\ pc \in DeletionPCs \ {"ensureDeletion", "removeFinalizer"} => ~copy.orphan
  /\ \A o \in Live : o.kind = "delete" =>
       /\ pc \in {"syncWait", "deleteWait"} /\ o.cluster \notin HostNamespace
       /\ pc = "syncWait" => o.cluster \notin copy.placement

Released(c) == HasManagedLabel(obj[c]) => c \in HostNamespace /\ obj[c].deleting

CheckInv ==
  MaxTimeouts = 0 =>
    /\ \A o \in ops : o.late = 0
    /\ pc = "checkWait" => \A o \in ops : o.kind = "check"
    /\ pc = "checkWait" /\ ok =>
         \A c \in Clusters : Released(c) \/ \E o \in ops : o.cluster = c
    /\ pc = "removeFinalizer" /\ ~copy.orphan => \A c \in Clusters : Released(c)

LEMMA SpendOther ==
  ASSUME used \in [Bounds -> Nat], NEW b \in Bounds \ {"resources"}, Spend(b)
  PROVE  used'["resources"] = used["resources"]
BY DEF Spend, Bounds

LEMMA LifetimeInit == Init => LifetimeInv
BY DEF Init, LifetimeInv, Uids, StoreTrails, CopyTrails, NoFed, Exists, DeletionPCs, Bounds

\* A step that leaves the three copies of the resource and the worker alone.
LEMMA LifetimeFrame ==
  ASSUME LifetimeInv, UNCHANGED <<fed, fedStore, copy, pc>>,
         used'["resources"] = used["resources"]
  PROVE  LifetimeInv'
BY DEF LifetimeInv, Uids, StoreTrails, CopyTrails, Exists, DeletionPCs

\* The worker leaves reconcile without touching the resource.
LEMMA LifetimeLeave ==
  ASSUME TypeOK, LifetimeInv, Leave, UNCHANGED <<fed, fedStore>>,
         used'["resources"] = used["resources"]
  PROVE  LifetimeInv'
BY DEF TypeOK, LifetimeInv, Uids, StoreTrails, CopyTrails, Exists, DeletionPCs, Leave,
       NoFed, Bounds

LEMMA LifetimeStep == TypeOK /\ LifetimeInv /\ [Next]_vars => LifetimeInv'
<1> SUFFICES ASSUME TypeOK, LifetimeInv, [Next]_vars PROVE LifetimeInv'
  OBVIOUS
<1> USE DEF hostVars, memberVars, waitVars, workerVars
<1>0. used \in [Bounds -> Nat] /\ used["resources"] \in Nat
      /\ fed.uid \in Nat /\ fedStore.uid \in Nat /\ copy.uid \in Nat
  BY DEF TypeOK, Bounds, FedResource
<1>1. CASE UNCHANGED vars
  BY <1>1, LifetimeFrame DEF vars
<1>2. ASSUME NEW p \in SUBSET Clusters, NEW orphan \in BOOLEAN, UserCreates(p, orphan)
      PROVE  LifetimeInv'
  <2>1. /\ fed'.uid = used["resources"] + 1 /\ used'["resources"] = used["resources"] + 1
        /\ ~fed'.deleting /\ ~fed'.finalizer /\ UNCHANGED <<fedStore, copy, pc>>
    BY <1>0, <1>2 DEF UserCreates, Spend, Bounds
  <2>2. Uids'
    BY <1>0, <2>1 DEF LifetimeInv, Uids, Exists
  <2>3. StoreTrails'
    BY <1>0, <1>2, <2>1 DEF UserCreates, LifetimeInv, Uids, StoreTrails, Exists
  <2>4. CopyTrails'
    BY <1>0, <1>2, <2>1 DEF UserCreates, LifetimeInv, Uids, CopyTrails, Exists, DeletionPCs
  <2> QED BY <2>2, <2>3, <2>4 DEF LifetimeInv
<1>3. CASE UserDeletes
  <2>1. Uids'
    BY <1>0, <1>3 DEF UserDeletes, LifetimeInv, Uids, Exists, NoFed, TypeOK, FedResource
  <2>2. StoreTrails'
    BY <1>3 DEF UserDeletes, LifetimeInv, Uids, StoreTrails, Exists, NoFed, TypeOK, FedResource
  <2>3. CopyTrails'
    BY <1>3 DEF UserDeletes, LifetimeInv, Uids, CopyTrails, Exists, NoFed, DeletionPCs, TypeOK, FedResource
  <2> QED BY <2>1, <2>2, <2>3 DEF LifetimeInv
<1>4. CASE (\E p \in SUBSET Clusters : UserMoves(p)) \/ UserTogglesOrphaning
  <2>1. /\ fed'.uid = fed.uid /\ fed'.deleting = fed.deleting
        /\ fed'.finalizer = fed.finalizer /\ UNCHANGED <<fedStore, copy, pc>>
    BY <1>4 DEF UserMoves, UserTogglesOrphaning, TypeOK, FedResource
  <2>2. used'["resources"] = used["resources"]
    BY <1>0, <1>4, SpendOther DEF UserMoves, UserTogglesOrphaning, Bounds
  <2> QED BY <2>1, <2>2 DEF LifetimeInv, Uids, StoreTrails, CopyTrails, Exists, DeletionPCs
<1>5. ASSUME NEW c \in Clusters,
             \/ MemberEdit(c) \/ CollectGarbage(c) \/ ClusterUnavailable(c)
             \/ ClusterAvailable(c) \/ TargetEvent(c)
      PROVE  LifetimeInv'
  BY <1>0, <1>5, LifetimeFrame, SpendOther
  DEF MemberEdit, CollectGarbage, ClusterUnavailable, ClusterAvailable, TargetEvent, Bounds
<1>17. CASE reconcileOnClusterChange
  BY <1>0, <1>17, LifetimeFrame DEF reconcileOnClusterChange
<1>6. CASE FedEvent
  BY <1>6 DEF FedEvent, LifetimeInv, Uids, StoreTrails, CopyTrails, Exists, DeletionPCs
<1>7. ASSUME NEW k \in Keys, reconcile(k) PROVE LifetimeInv'
  BY <1>7 DEF reconcile, LifetimeInv, Uids, StoreTrails, CopyTrails, Exists, DeletionPCs
<1>8. CASE ensureFinalizer
  <2>1. CASE copy.finalizer /\ Goto("syncToClusters") /\ UNCHANGED <<fed, waitVars, used>>
    BY <1>8, <2>1 DEF ensureFinalizer, Goto, LifetimeInv, Uids, StoreTrails, CopyTrails,
                      Exists, DeletionPCs
  <2>2. CASE /\ ~copy.finalizer /\ copy = fed
             /\ fed' = [copy EXCEPT !.finalizer = TRUE] /\ copy' = fed'
             /\ pc' = "syncToClusters" /\ UNCHANGED <<key, queue, waitVars, used>>
    BY <1>8, <2>2 DEF ensureFinalizer, LifetimeInv, Uids, StoreTrails, CopyTrails,
                      Exists, DeletionPCs, TypeOK, FedResource
  <2>3. CASE Finish(TRUE) /\ UNCHANGED <<fed, used>>
    BY <1>8, <2>3, LifetimeLeave DEF ensureFinalizer, Finish
  <2>4. CASE Spend("faults") /\ Finish(TRUE) /\ UNCHANGED fed
    BY <1>0, <1>8, <2>4, LifetimeLeave, SpendOther DEF ensureFinalizer, Finish, Bounds
  <2>5. CASE /\ Spend("faults") /\ Finish(TRUE) /\ copy = fed
             /\ fed' = [copy EXCEPT !.finalizer = TRUE]
    <3>1. fed'.uid = fed.uid /\ fed'.deleting = fed.deleting /\ fed'.finalizer
      BY <2>5 DEF TypeOK, FedResource
    <3>2. fedStore' = fedStore /\ used'["resources"] = used["resources"]
      BY <1>0, <1>8, <2>5, SpendOther DEF ensureFinalizer, Bounds
    <3>3. Exists(fed) /\ fedStore.uid = fed.uid
      BY <1>8, <2>5 DEF ensureFinalizer, LifetimeInv, CopyTrails
    <3> QED BY <1>0, <2>5, <3>1, <3>2, <3>3
            DEF LifetimeInv, Uids, StoreTrails, CopyTrails, Exists, DeletionPCs, Finish, Leave, NoFed
  <2> QED BY <1>8, <2>1, <2>2, <2>3, <2>4, <2>5 DEF ensureFinalizer
<1>9. CASE \/ syncToClusters \/ removeManagedLabel \/ deleteFromClusters
           \/ ensureRemovedOrUnmanaged
  BY <1>9 DEF syncToClusters, removeManagedLabel, deleteFromClusters,
              ensureRemovedOrUnmanaged, Goto, LifetimeInv, Uids, StoreTrails, CopyTrails,
              Exists, DeletionPCs
<1>10. CASE setFederatedStatus
  <2>1. CASE (\E r \in BOOLEAN : Finish(r)) /\ UNCHANGED <<fed, used>>
    BY <1>10, <2>1, LifetimeLeave DEF setFederatedStatus, Finish
  <2>2. CASE /\ fed' = [fed EXCEPT !.status = update(@, statusMap)]
             /\ Leave /\ (UNCHANGED used \/ Spend("faults"))
    <3>1. /\ fed'.uid = fed.uid /\ fed'.deleting = fed.deleting
          /\ fed'.finalizer = fed.finalizer
      BY <2>2 DEF TypeOK, FedResource
    <3>2. fedStore' = fedStore /\ used'["resources"] = used["resources"]
      BY <1>0, <1>10, <2>2, SpendOther DEF setFederatedStatus, Bounds
    <3> QED BY <1>0, <2>2, <3>1, <3>2
            DEF LifetimeInv, Uids, StoreTrails, CopyTrails, Exists, DeletionPCs, Leave, NoFed
  <2>3. CASE copy' = fed /\ UNCHANGED <<fed, pc, key, queue, waitVars, used>>
    BY <1>10, <2>3 DEF setFederatedStatus, LifetimeInv, Uids, StoreTrails, CopyTrails,
                       Exists, DeletionPCs
  <2>4. CASE Spend("faults") /\ Finish(TRUE) /\ UNCHANGED fed
    BY <1>0, <1>10, <2>4, LifetimeLeave, SpendOther DEF setFederatedStatus, Finish, Bounds
  <2> QED BY <1>10, <2>1, <2>2, <2>3, <2>4 DEF setFederatedStatus, Finish
<1>11. CASE ensureDeletion
  <2>1. CASE Finish(FALSE)
    BY <1>11, <2>1, LifetimeLeave DEF ensureDeletion, Finish
  <2>2. CASE copy.finalizer
             /\ Goto(IF copy.orphan THEN "removeFinalizer" ELSE "deleteFromClusters")
    BY <1>11, <2>2 DEF ensureDeletion, Goto, LifetimeInv, Uids, StoreTrails, CopyTrails,
                       Exists, DeletionPCs
  <2> QED BY <1>11, <2>1, <2>2 DEF ensureDeletion
<1>12. CASE removeFinalizer
  <2>1. CASE fed' = fed
    BY <1>0, <1>12, <2>1, LifetimeLeave, SpendOther
    DEF removeFinalizer, Finish, Bounds, LifetimeInv, Uids, Exists, NoFed, CopyTrails, DeletionPCs
  <2>2. CASE copy = fed /\ fed' = NoFed
    <3>1. fedStore.deleting /\ fedStore' = fedStore /\ Exists(fedStore)
      BY <1>12, <2>2 DEF removeFinalizer, LifetimeInv, StoreTrails, CopyTrails, DeletionPCs, Uids
    <3>2. used'["resources"] = used["resources"]
      BY <1>0, <1>12, SpendOther DEF removeFinalizer, Bounds
    <3>3. Exists(copy) /\ ((pc' = "removeManagedLabel" /\ copy' = copy) \/ Leave)
      BY <1>12, <2>2 DEF removeFinalizer, Goto, Finish, LifetimeInv, CopyTrails, DeletionPCs, Uids
    <3>4. Uids' /\ StoreTrails'
      BY <1>0, <2>2, <3>1, <3>2, <3>3
      DEF LifetimeInv, Uids, StoreTrails, Exists, NoFed, Leave
    <3>5. CopyTrails'
      BY <1>0, <2>2, <3>3 DEF CopyTrails, DeletionPCs, Exists, NoFed, Leave
    <3> QED BY <3>4, <3>5 DEF LifetimeInv
  <2> QED BY <1>12, <2>1, <2>2 DEF removeFinalizer
<1>13. CASE WaitEnds
  <2>1. CASE \E r \in BOOLEAN : Finish(r)
    BY <1>13, <2>1, LifetimeLeave DEF WaitEnds, Finish
  <2>2. CASE \/ pc = "syncWait" /\ Goto("setFederatedStatus")
             \/ pc = "deleteWait" /\ Goto("ensureRemovedOrUnmanaged")
             \/ pc = "checkWait" /\ Goto("removeFinalizer")
    BY <1>13, <2>2 DEF WaitEnds, Goto, LifetimeInv, Uids, StoreTrails, CopyTrails,
                       Exists, DeletionPCs
  <2>3. ok \in BOOLEAN
    BY DEF TypeOK
  <2> QED BY <1>13, <2>1, <2>2, <2>3 DEF WaitEnds
<1>14. CASE WaitTimesOut
  <2>1. used'["resources"] = used["resources"] /\ UNCHANGED <<fed, fedStore>>
    BY <1>0, <1>14, SpendOther DEF WaitTimesOut, Bounds
  <2>2. CASE Goto("setFederatedStatus")
    BY <2>1, <2>2 DEF Goto, LifetimeInv, Uids, StoreTrails, CopyTrails, Exists, DeletionPCs
  <2>3. CASE Finish(TRUE)
    BY <2>1, <2>3, LifetimeLeave DEF Finish
  <2> QED BY <1>14, <2>2, <2>3 DEF WaitTimesOut
<1>15. CASE Restart
  <2>1. used'["resources"] = used["resources"]
    BY <1>0, <1>15, SpendOther DEF Restart, Bounds
  <2> QED
    BY <1>0, <1>15, <2>1 DEF Restart, Leave, LifetimeInv, Uids, StoreTrails, CopyTrails,
                             Exists, NoFed, DeletionPCs
<1>16. ASSUME NEW o \in ops, clusterOperation(o) \/ OperationFails(o)
       PROVE  LifetimeInv'
  BY <1>0, <1>16, LifetimeFrame, SpendOther
  DEF clusterOperation, Create, Adopt, Update, Delete, RemoveManagedLabel,
      CheckRemovedOrUnlabeled, OperationFails, OpUnchanged, Bounds
<1> QED
  BY <1>1, <1>2, <1>3, <1>4, <1>5, <1>6, <1>7, <1>8, <1>9, <1>10, <1>11, <1>12, <1>13,
     <1>14, <1>15, <1>16, <1>17
  DEF Next, Worker

-----------------------------------------------------------------------------
(* The phases of the worker *)

LEMMA PhaseInit == Init => PhaseInv
BY DEF Init, PhaseInv, Live, Waits, DeletionPCs

LEMMA PhaseFrame ==
  ASSUME PhaseInv, UNCHANGED <<ops, pc, copy>>
  PROVE  PhaseInv'
BY DEF PhaseInv, Live

LEMMA PhaseLeave ==
  ASSUME Live' = {}, Leave
  PROVE  PhaseInv'
BY DEF PhaseInv, Leave, DeletionPCs

\* The operation an ended operation goes on with is of the same phase.
LEMMA PhaseOperation ==
  ASSUME TypeOK, PhaseInv, NEW o \in ops, clusterOperation(o) \/ OperationFails(o)
  PROVE  PhaseInv'
<1>1. UNCHANGED <<pc, copy>>
  BY DEF clusterOperation, Create, Adopt, Update, Delete, RemoveManagedLabel,
         CheckRemovedOrUnlabeled, OperationFails, OpUnchanged, workerVars
<1>2. o \in Operation
  BY DEF TypeOK
<1>3. \/ ops' = ops \ {o}
      \/ /\ o.kind = "create" /\ ops' = (ops \ {o}) \union {[o EXCEPT !.kind = "get"]}
      \/ /\ o.kind = "get"
         /\ ops' = (ops \ {o}) \union
                     {[o EXCEPT !.kind = "update", !.seen = obj[o.cluster]]}
  BY DEF clusterOperation, Create, Retrieve, Adopt, Update, Delete, RemoveManagedLabel,
         CheckRemovedOrUnlabeled, OperationFails, Succeed, Fail
<1>4. ASSUME NEW n \in Live'
      PROVE  n \in Live \/ /\ o \in Live /\ o.kind \in {"create", "get"}
                           /\ n.kind \in {"get", "update"}
  BY <1>2, <1>3 DEF Live, Operation
<1> QED BY <1>1, <1>4 DEF PhaseInv

LEMMA PhaseStep == TypeOK /\ PhaseInv /\ [Next]_vars => PhaseInv'
<1> SUFFICES ASSUME TypeOK, PhaseInv, [Next]_vars PROVE PhaseInv'
  OBVIOUS
<1> USE DEF hostVars, memberVars, waitVars, workerVars
<1>1. CASE UNCHANGED vars
  BY <1>1, PhaseFrame DEF vars
<1>2. CASE \/ \E p \in SUBSET Clusters, orphan \in BOOLEAN : UserCreates(p, orphan)
           \/ \E p \in SUBSET Clusters : UserMoves(p)
           \/ UserTogglesOrphaning \/ UserDeletes \/ FedEvent \/ reconcileOnClusterChange
  BY <1>2, PhaseFrame DEF UserCreates, UserMoves, UserTogglesOrphaning, UserDeletes,
                          FedEvent, reconcileOnClusterChange
<1>3. CASE \E c \in Clusters :
             \/ MemberEdit(c) \/ CollectGarbage(c) \/ ClusterUnavailable(c)
             \/ ClusterAvailable(c) \/ TargetEvent(c)
  BY <1>3, PhaseFrame DEF MemberEdit, CollectGarbage, ClusterUnavailable,
                          ClusterAvailable, TargetEvent
<1>4. ASSUME NEW k \in Keys, reconcile(k) PROVE PhaseInv'
  BY <1>4 DEF reconcile, PhaseInv, Live, Waits, DeletionPCs
<1>5. CASE ensureFinalizer \/ setFederatedStatus
  <2>1. Live = {} /\ Live' = {}
    BY <1>5 DEF ensureFinalizer, setFederatedStatus, PhaseInv, Live, Waits
  <2>2. CASE Leave
    BY <2>1, <2>2, PhaseLeave
  <2>3. CASE pc' \in {"syncToClusters", "setFederatedStatus"}
    BY <2>1, <2>3 DEF PhaseInv, DeletionPCs
  <2> QED
    BY <1>5, <2>2, <2>3 DEF ensureFinalizer, setFederatedStatus, Goto, Finish
<1>6. CASE syncToClusters
  <2>1. Live = {} /\ pc' = "syncWait" /\ copy' = copy
    BY <1>6 DEF syncToClusters, PhaseInv, Goto, Waits
  <2>2. ASSUME NEW o \in Live', o.kind = "delete"
        PROVE  o.cluster \notin HostNamespace /\ o.cluster \notin copy.placement
    BY <1>6, <2>1, <2>2 DEF syncToClusters, Live, Propagation, Removal, NewOp
  <2> QED BY <2>1, <2>2 DEF PhaseInv, Waits, DeletionPCs
<1>7. CASE ensureDeletion \/ removeFinalizer
  <2>1. Live = {} /\ Live' = {}
    BY <1>7 DEF ensureDeletion, removeFinalizer, PhaseInv, Live, Waits
  <2>2. CASE Leave
    BY <2>1, <2>2, PhaseLeave
  <2>3. CASE /\ pc' \in {"removeFinalizer", "removeManagedLabel", "deleteFromClusters"}
             /\ pc' = "deleteFromClusters" => ~copy'.orphan
    BY <2>1, <2>3 DEF PhaseInv, DeletionPCs
  <2> QED
    BY <1>7, <2>2, <2>3 DEF ensureDeletion, removeFinalizer, Goto, Finish
<1>8. CASE removeManagedLabel \/ deleteFromClusters \/ ensureRemovedOrUnmanaged
  <2>1. Live = {} /\ pc' \in {"labelWait", "deleteWait", "checkWait"} /\ copy' = copy
    BY <1>8 DEF removeManagedLabel, deleteFromClusters, ensureRemovedOrUnmanaged,
                PhaseInv, Goto, Waits
  <2>2. ASSUME NEW o \in Live'
        PROVE  /\ o.kind \in {"unlabel", "delete", "check"}
               /\ o.kind = "delete" => pc' = "deleteWait" /\ o.cluster \notin HostNamespace
    <3>1. o \notin ops
      BY <2>1, <2>2 DEF Live
    <3>2. CASE removeManagedLabel
      BY <2>2, <3>1, <3>2, NewOpFields DEF removeManagedLabel, Live
    <3>3. CASE deleteFromClusters
      BY <2>2, <3>1, <3>3, NewOpFields DEF deleteFromClusters, Live, Removal, Goto
    <3>4. CASE ensureRemovedOrUnmanaged
      BY <2>2, <3>1, <3>4, NewOpFields DEF ensureRemovedOrUnmanaged, Live
    <3> QED BY <1>8, <3>2, <3>3, <3>4
  <2>3. pc' \in {"deleteWait", "checkWait"} => ~copy.orphan
    BY <1>8, <2>1 DEF removeManagedLabel, deleteFromClusters, ensureRemovedOrUnmanaged,
                      PhaseInv, Goto, DeletionPCs
  <2> QED BY <2>1, <2>2, <2>3 DEF PhaseInv, Waits, DeletionPCs
<1>9. CASE WaitEnds
  <2>1. Live = {} /\ Live' = {}
    BY <1>9 DEF WaitEnds, Live
  <2>2. CASE Leave
    BY <2>1, <2>2, PhaseLeave
  <2>3. CASE /\ pc' \in {"setFederatedStatus", "ensureRemovedOrUnmanaged", "removeFinalizer"}
             /\ copy' = copy
             /\ pc' = "ensureRemovedOrUnmanaged" => pc = "deleteWait"
    BY <2>1, <2>3 DEF PhaseInv, DeletionPCs
  <2> QED BY <1>9, <2>2, <2>3 DEF WaitEnds, Goto, Finish
<1>10. CASE WaitTimesOut
  <2>1. used'["timeouts"] # 0
    BY <1>10 DEF WaitTimesOut, Spend, TypeOK, Bounds
  <2>2. \A o \in Live : [o EXCEPT !.late = used'["timeouts"]].late # 0
    BY <2>1 DEF TypeOK, Live, Operation
  <2>3. Live' = {}
    BY <1>10, <2>2 DEF WaitTimesOut, Live
  <2>4. CASE Leave
    BY <2>3, <2>4, PhaseLeave
  <2>5. CASE pc' = "setFederatedStatus"
    BY <2>3, <2>5 DEF PhaseInv, DeletionPCs
  <2> QED BY <1>10, <2>4, <2>5 DEF WaitTimesOut, Goto, Finish
<1>11. CASE Restart
  BY <1>11, PhaseLeave DEF Restart, Live
<1>12. ASSUME NEW o \in ops, clusterOperation(o) \/ OperationFails(o) PROVE PhaseInv'
  BY <1>12, PhaseOperation
<1> QED
  BY <1>1, <1>2, <1>3, <1>4, <1>5, <1>6, <1>7, <1>8, <1>9, <1>10, <1>11, <1>12
  DEF Next, Worker

SafetyInv == TypeOK /\ LifetimeInv /\ PhaseInv

LEMMA SafetyCorrect == Spec => []SafetyInv
<1>1. Init => SafetyInv
  BY TypeInit, LifetimeInit, PhaseInit DEF SafetyInv
<1>2. SafetyInv /\ [Next]_vars => SafetyInv'
  BY TypeStep, LifetimeStep, PhaseStep DEF SafetyInv
<1> QED BY <1>1, <1>2, PTL DEF Spec

\* However stale the informer stores and however often requests, clusters and the
\* manager itself fail, an object is created, adopted or updated only on behalf
\* of a federated resource that exists and carries the finalizer: ensureFinalizer
\* before syncToClusters is enough.
THEOREM FinalizerIsHeld == Spec => []FinalizerHeld
<1>1. SafetyInv => FinalizerHeld
  BY DEF SafetyInv, FinalizerHeld, LifetimeInv, CopyTrails, Uids, PhaseInv, Exists
<1> QED BY <1>1, SafetyCorrect, PTL

\* No dispatched deletion concerns a cluster that the worker's copy of the resource
\* places, unless that copy is being deleted without the orphan annotation; and
\* the host's own namespace is never deleted.
THEOREM DeletionIsJustified == Spec => []DeletionJustified
<1>1. SafetyInv => DeletionJustified
  BY DEF SafetyInv, DeletionJustified, LifetimeInv, CopyTrails, PhaseInv, DeletionPCs
<1> QED BY <1>1, SafetyCorrect, PTL

-----------------------------------------------------------------------------
(* What the check of the API servers leaves true until the finalizer is gone *)

LEMMA CheckInit == Init => CheckInv
BY DEF Init, CheckInv

\* Neither member users nor garbage collection make an object managed.
LEMMA ReleasedByMember ==
  ASSUME TypeOK, NEW c \in Clusters, MemberEdit(c) \/ CollectGarbage(c),
         NEW d \in Clusters, Released(d)
  PROVE  Released(d)'
<1>1. obj[c] \in TargetObject /\ obj[d] \in TargetObject
  BY DEF TypeOK
<1>2. CASE d # c
  BY <1>1, <1>2 DEF MemberEdit, CollectGarbage, Write, Released, TypeOK, HasManagedLabel
<1>3. CASE d = c /\ MemberEdit(c)
  <2>1. PICK o \in MemberEdits(obj[c]) : Write(c, o)
    BY <1>3 DEF MemberEdit
  <2>2. obj'[c] = o
    BY <2>1 DEF Write, TypeOK
  <2>3. HasManagedLabel(o) => HasManagedLabel(obj[c]) /\ o.deleting
    BY <1>1, <2>1 DEF MemberEdits, HasManagedLabel, TargetObject, Present, Labels
  <2> QED BY <1>3, <2>2, <2>3 DEF Released
<1>4. CASE d = c /\ CollectGarbage(c)
  BY <1>1, <1>4 DEF CollectGarbage, Write, TypeOK, Released, HasManagedLabel, NoObj
<1> QED BY <1>2, <1>3, <1>4

LEMMA ReleasedFrame ==
  ASSUME UNCHANGED obj, NEW c \in Clusters
  PROVE  Released(c)' = Released(c)
BY DEF Released, HasManagedLabel

\* A step that touches neither the objects nor the operations nor the worker.
LEMMA CheckFrame ==
  ASSUME CheckInv, UNCHANGED <<obj, ops, pc, ok, copy>>
  PROVE  CheckInv'
BY ReleasedFrame DEF CheckInv

\* Away from the two places CheckInv speaks of.
LEMMA CheckElsewhere ==
  ASSUME CheckInv, ops' \subseteq ops, pc' \notin {"checkWait", "removeFinalizer"}
  PROVE  CheckInv'
BY DEF CheckInv

\* Without timeouts every operation is one the worker waits for.
LEMMA AllLive ==
  ASSUME CheckInv, MaxTimeouts = 0
  PROVE  Live = ops
BY DEF CheckInv, Live

LEMMA CheckOperation ==
  ASSUME TypeOK, PhaseInv, CheckInv, MaxTimeouts = 0,
         NEW o \in ops, clusterOperation(o) \/ OperationFails(o)
  PROVE  CheckInv'
<1>0. o \in Operation /\ o.cluster \in Clusters /\ o.late = 0 /\ ok \in BOOLEAN
  BY DEF TypeOK, Operation, CheckInv
<1>1. UNCHANGED <<pc, copy>>
  BY DEF clusterOperation, Create, Adopt, Update, Delete, RemoveManagedLabel,
         CheckRemovedOrUnlabeled, OperationFails, OpUnchanged, workerVars
<1>2. pc \in Waits
  BY AllLive DEF PhaseInv
<1>3. pc' # "removeFinalizer"
  BY <1>1, <1>2 DEF Waits
<1>4. CASE pc # "checkWait"
  <2>1. \A n \in ops' : n.late = 0
    BY <1>0 DEF clusterOperation, Create, Retrieve, Adopt, Update, Delete, RemoveManagedLabel,
             CheckRemovedOrUnlabeled, OperationFails, Succeed, Fail, CheckInv, Operation
  <2> QED BY <1>1, <1>3, <1>4, <2>1 DEF CheckInv
<1>5. CASE pc = "checkWait"
  <2>1. o.kind = "check"
    BY <1>5 DEF CheckInv
  <2>2. UNCHANGED obj /\ ops' = ops \ {o} /\ (ok' => ok /\ RemovedOrUnlabeled(o.cluster))
    BY <1>0, <2>1 DEF clusterOperation, Create, Adopt, Update, Delete, RemoveManagedLabel,
             CheckRemovedOrUnlabeled, OperationFails, Succeed, Fail, Accepted, NoWrite
  <2>3. RemovedOrUnlabeled(o.cluster) => Released(o.cluster)
    BY DEF RemovedOrUnlabeled, Released, Present, HasManagedLabel
  <2>4. \A c \in Clusters : Released(c)' = Released(c)
    BY <2>2, ReleasedFrame
  <2>5. ASSUME ok', NEW c \in Clusters
        PROVE  Released(c)' \/ \E n \in ops' : n.cluster = c
    <3>1. Released(c) \/ \E n \in ops : n.cluster = c
      BY <1>5, <2>2, <2>5 DEF CheckInv
    <3> QED BY <2>2, <2>3, <2>4, <2>5, <3>1
  <2>6. \A n \in ops' : n.late = 0 /\ n.kind = "check"
    BY <1>5, <2>2 DEF CheckInv
  <2> QED BY <1>3, <2>5, <2>6 DEF CheckInv
<1> QED BY <1>4, <1>5

LEMMA CheckStep == TypeOK /\ PhaseInv /\ CheckInv /\ [Next]_vars => CheckInv'
<1> SUFFICES ASSUME TypeOK, PhaseInv, CheckInv, [Next]_vars, MaxTimeouts = 0
             PROVE  CheckInv'
  BY DEF CheckInv
<1> USE DEF hostVars, memberVars, waitVars, workerVars
<1>1. CASE UNCHANGED vars
  BY <1>1, CheckFrame DEF vars
<1>2. CASE \/ \E p \in SUBSET Clusters, orphan \in BOOLEAN : UserCreates(p, orphan)
           \/ \E p \in SUBSET Clusters : UserMoves(p)
           \/ UserTogglesOrphaning \/ UserDeletes \/ FedEvent \/ reconcileOnClusterChange
  BY <1>2, CheckFrame DEF UserCreates, UserMoves, UserTogglesOrphaning, UserDeletes,
                          FedEvent, reconcileOnClusterChange
<1>3. ASSUME NEW c \in Clusters,
             ClusterUnavailable(c) \/ ClusterAvailable(c) \/ TargetEvent(c)
      PROVE  CheckInv'
  BY <1>3, CheckFrame DEF ClusterUnavailable, ClusterAvailable, TargetEvent
<1>4. ASSUME NEW c \in Clusters, MemberEdit(c) \/ CollectGarbage(c)
      PROVE  CheckInv'
  <2>1. UNCHANGED <<ops, pc, ok, copy>>
    BY <1>4 DEF MemberEdit, CollectGarbage
  <2>2. \A d \in Clusters : Released(d) => Released(d)'
    BY <1>4, ReleasedByMember
  <2> QED BY <2>1, <2>2 DEF CheckInv
<1>5. ASSUME NEW k \in Keys, reconcile(k) PROVE CheckInv'
  BY <1>5, CheckElsewhere DEF reconcile
<1>6. CASE ensureFinalizer \/ setFederatedStatus
  BY <1>6, CheckElsewhere DEF ensureFinalizer, setFederatedStatus, Goto, Finish, Leave
<1>7. CASE syncToClusters \/ removeManagedLabel \/ deleteFromClusters
  <2>1. pc' \in {"syncWait", "labelWait", "deleteWait"}
    BY <1>7 DEF syncToClusters, removeManagedLabel, deleteFromClusters, Goto
  <2>2. ASSUME NEW o \in ops' PROVE o.late = 0
    <3>1. CASE o \in ops
      BY <3>1 DEF CheckInv
    <3>2. CASE o \notin ops /\ syncToClusters
      BY <3>2, NewOpFields DEF syncToClusters, Propagation, Removal
    <3>3. CASE o \notin ops /\ removeManagedLabel
      BY <3>3, NewOpFields DEF removeManagedLabel
    <3>4. CASE o \notin ops /\ deleteFromClusters
      BY <3>4, NewOpFields DEF deleteFromClusters, Removal
    <3> QED BY <1>7, <3>1, <3>2, <3>3, <3>4
  <2> QED BY <2>1, <2>2 DEF CheckInv
<1>8. CASE ensureRemovedOrUnmanaged
  <2>1. ops = {}
    BY <1>8, AllLive DEF ensureRemovedOrUnmanaged, PhaseInv, Waits
  <2>2. /\ pc' = "checkWait" /\ ok' = (ready = Clusters)
        /\ ops' = {NewOp(c, "check", NoObj) : c \in ready}
    BY <1>8, <2>1 DEF ensureRemovedOrUnmanaged, Goto, allReady
  <2>3. \A o \in ops' : o.late = 0 /\ o.kind = "check"
    BY <2>2, NewOpFields
  <2>4. ASSUME NEW c \in ready PROVE \E o \in ops' : o.cluster = c
    <3>1. NewOp(c, "check", NoObj) \in ops'
      BY <2>2
    <3> QED BY <3>1, NewOpFields
  <2> QED BY <2>2, <2>3, <2>4 DEF CheckInv
<1>9. CASE ensureDeletion
  BY <1>9 DEF ensureDeletion, Goto, Finish, Leave, CheckInv
<1>10. CASE removeFinalizer
  BY <1>10, CheckElsewhere DEF removeFinalizer, Goto, Finish, Leave
<1>11. CASE WaitEnds
  <2>1. CASE pc = "checkWait" /\ ok /\ Goto("removeFinalizer") /\ UNCHANGED waitVars
    <3>1. ops = {} /\ UNCHANGED <<obj, ops>>
      BY <1>11, AllLive DEF WaitEnds
    <3>2. \A c \in Clusters : Released(c)'
      BY <2>1, <3>1, ReleasedFrame DEF CheckInv
    <3> QED BY <2>1, <3>1, <3>2 DEF Goto, CheckInv
  <2>2. CASE pc' \notin {"checkWait", "removeFinalizer"}
    BY <1>11, <2>2, CheckElsewhere DEF WaitEnds
  <2> QED BY <1>11, <2>1, <2>2 DEF WaitEnds, Goto, Finish, Leave
<1>12. CASE WaitTimesOut
  BY <1>12 DEF WaitTimesOut, Spend, TypeOK, Bounds, Limit
<1>13. CASE Restart
  BY <1>13, CheckElsewhere DEF Restart, Leave
<1>14. ASSUME NEW o \in ops, clusterOperation(o) \/ OperationFails(o) PROVE CheckInv'
  BY <1>14, CheckOperation
<1> QED
  BY <1>1, <1>2, <1>3, <1>4, <1>5, <1>6, <1>7, <1>8, <1>9, <1>10, <1>11, <1>12, <1>13,
     <1>14
  DEF Next, Worker

\* Only the worker takes an existing, finalized resource away.
LEMMA FinalizerProtects ==
  ASSUME TypeOK, LifetimeInv, [Next]_vars, Exists(fed), fed.finalizer, ~Exists(fed')
  PROVE  pc = "removeFinalizer" /\ copy = fed
<1> USE DEF hostVars, memberVars, waitVars, workerVars
<1>1. fed' # fed
  BY DEF Exists
<1>2. CASE \/ \E p \in SUBSET Clusters : UserMoves(p)
           \/ UserTogglesOrphaning \/ UserDeletes
  BY <1>2 DEF UserMoves, UserTogglesOrphaning, UserDeletes, TypeOK, FedResource, Exists
<1>3. CASE ensureFinalizer \/ setFederatedStatus
  BY <1>1, <1>3 DEF ensureFinalizer, setFederatedStatus, TypeOK, FedResource, Exists
<1>4. CASE removeFinalizer
  BY <1>1, <1>4 DEF removeFinalizer
<1>5. CASE \/ \E p \in SUBSET Clusters, orphan \in BOOLEAN : UserCreates(p, orphan)
           \/ FedEvent \/ reconcileOnClusterChange \/ WaitTimesOut \/ Restart
           \/ UNCHANGED vars
  BY <1>1, <1>5 DEF UserCreates, FedEvent, reconcileOnClusterChange, WaitTimesOut, Restart,
                    vars
<1>6. CASE \E c \in Clusters :
             \/ MemberEdit(c) \/ CollectGarbage(c) \/ ClusterUnavailable(c)
             \/ ClusterAvailable(c) \/ TargetEvent(c)
  BY <1>1, <1>6 DEF MemberEdit, CollectGarbage, ClusterUnavailable, ClusterAvailable,
                    TargetEvent
<1>7. CASE \/ \E k \in Keys : reconcile(k)
           \/ syncToClusters \/ ensureDeletion \/ removeManagedLabel
           \/ deleteFromClusters \/ ensureRemovedOrUnmanaged \/ WaitEnds
  BY <1>1, <1>7 DEF reconcile, syncToClusters, ensureDeletion, removeManagedLabel,
                    deleteFromClusters, ensureRemovedOrUnmanaged, WaitEnds
<1>8. CASE \E o \in ops : clusterOperation(o) \/ OperationFails(o)
  BY <1>1, <1>8 DEF clusterOperation, Create, Adopt, Update, Delete, RemoveManagedLabel,
                    CheckRemovedOrUnlabeled, OperationFails, OpUnchanged
<1> QED
  BY <1>2, <1>3, <1>4, <1>5, <1>6, <1>7, <1>8 DEF Next, Worker

\* As long as no wait times out, a resource that is not orphaned loses its finalizer
\* only when no member cluster holds a managed object any more: the check of the
\* API servers stays valid until removeFinalizer, whatever members do meanwhile.
\* With a timeout it is false: a creation nobody waits for any more may land after the check.
THEOREM NothingManagedIsLeft == MaxTimeouts = 0 => (Spec => NoManagedResourceLeft)
<1> SUFFICES ASSUME MaxTimeouts = 0 PROVE Spec => NoManagedResourceLeft
  OBVIOUS
<1>1. Init => SafetyInv /\ CheckInv
  BY TypeInit, LifetimeInit, PhaseInit, CheckInit DEF SafetyInv
<1>2. SafetyInv /\ CheckInv /\ [Next]_vars => (SafetyInv /\ CheckInv)'
  BY TypeStep, LifetimeStep, PhaseStep, CheckStep DEF SafetyInv
<1>3. SafetyInv /\ CheckInv /\ [Next]_vars =>
        [(Exists(fed) /\ fed.finalizer /\ ~fed.orphan /\ ~Exists(fed'))
           => \A c \in Clusters : HasManagedLabel(obj[c]) =>
                c \in HostNamespace /\ obj[c].deleting]_vars
  <2> SUFFICES ASSUME SafetyInv, CheckInv, [Next]_vars,
                      Exists(fed), fed.finalizer, ~fed.orphan, ~Exists(fed')
               PROVE  \A c \in Clusters : Released(c)
    BY DEF Released
  <2>1. pc = "removeFinalizer" /\ copy = fed
    BY FinalizerProtects DEF SafetyInv
  <2> QED BY <2>1 DEF CheckInv
<1> QED BY <1>1, <1>2, <1>3, PTL DEF Spec, NoManagedResourceLeft

-----------------------------------------------------------------------------
(* What may be adopted *)

\* An update is computed from an object that had the label, or that may be adopted.
Adoptable(o) ==
  o.kind = "update" => o.seen.label = "true" \/ AdoptResources \/ o.cluster \in HostNamespace
AdoptInv == \A o \in ops : Adoptable(o)

LEMMA AdoptKept ==
  ASSUME AdoptInv, \A o \in ops' : o \in ops \/ Adoptable(o)
  PROVE  AdoptInv'
BY DEF AdoptInv, Adoptable

LEMMA AdoptStep == TypeOK /\ AdoptInv /\ [Next]_vars => AdoptInv'
<1> SUFFICES ASSUME TypeOK, AdoptInv, [Next]_vars PROVE AdoptInv'
  OBVIOUS
<1>1. CASE UNCHANGED ops
  BY <1>1, AdoptKept
<1>2. CASE syncToClusters
  <2>1. ASSUME NEW c \in Clusters PROVE Adoptable(Propagation(c)) /\ Adoptable(Removal(c))
    <3>1. store[c].label = "true" \/ ~Present(store[c])
      BY DEF TypeOK, Present, NoObj
    <3> QED BY <3>1 DEF Adoptable, Propagation, Removal, NewOp
  <2>2. copy.placement \intersect ready \subseteq Clusters /\ Removable \subseteq Clusters
    BY DEF TypeOK, Removable
  <2>3. \A o \in ops' : o \in ops \/ Adoptable(o)
    BY <1>2, <2>1, <2>2 DEF syncToClusters
  <2> QED BY <2>3, AdoptKept
<1>3. CASE removeManagedLabel \/ deleteFromClusters \/ ensureRemovedOrUnmanaged
  <2>1. \A c : /\ Adoptable(NewOp(c, "unlabel", store[c])) /\ Adoptable(NewOp(c, "check", NoObj))
               /\ Adoptable(Removal(c))
    BY DEF Adoptable, Removal, NewOp
  <2>2. \A o \in ops' : o \in ops \/ Adoptable(o)
    BY <1>3, <2>1 DEF removeManagedLabel, deleteFromClusters, ensureRemovedOrUnmanaged
  <2> QED BY <2>2, AdoptKept
<1>4. ASSUME NEW o \in ops, clusterOperation(o) \/ OperationFails(o) PROVE AdoptInv'
  <2>1. o \in Operation
    BY DEF TypeOK
  <2>2. \/ ops' = ops \ {o}
        \/ ops' = (ops \ {o}) \union {[o EXCEPT !.kind = "get"]}
        \/ /\ AdoptResources \/ o.cluster \in HostNamespace
           /\ ops' = (ops \ {o}) \union {[o EXCEPT !.kind = "update", !.seen = obj[o.cluster]]}
    BY <1>4 DEF clusterOperation, Create, Retrieve, Adopt, Update, Delete, RemoveManagedLabel,
                CheckRemovedOrUnlabeled, OperationFails, Succeed, Fail
  <2>3. /\ Adoptable([o EXCEPT !.kind = "get"])
        /\ (AdoptResources \/ o.cluster \in HostNamespace) =>
             Adoptable([o EXCEPT !.kind = "update", !.seen = obj[o.cluster]])
    BY <2>1 DEF Adoptable, Operation
  <2>4. \A n \in ops' : n \in ops \/ Adoptable(n)
    BY <2>2, <2>3
  <2> QED BY <2>4, AdoptKept
<1>5. CASE WaitTimesOut
  <2>1. \A o \in Live : Adoptable([o EXCEPT !.late = used'["timeouts"]])
    BY DEF TypeOK, Operation, Live, AdoptInv, Adoptable
  <2>2. \A o \in ops' : o \in ops \/ Adoptable(o)
    BY <1>5, <2>1 DEF WaitTimesOut
  <2> QED BY <2>2, AdoptKept
<1>6. CASE Restart
  BY <1>6 DEF Restart, AdoptInv
<1> QED
  BY <1>1, <1>2, <1>3, <1>4, <1>5, <1>6
  DEF Next, Worker, vars, UserCreates, UserMoves, UserTogglesOrphaning, UserDeletes, MemberEdit,
      CollectGarbage, ClusterUnavailable, ClusterAvailable, TargetEvent, FedEvent,
      reconcileOnClusterChange, reconcile, ensureFinalizer, setFederatedStatus, ensureDeletion,
      removeFinalizer, WaitEnds

\* The object of an adopted cluster was adoptable when the request got through, too.
LEMMA LabelsWanted ==
  ASSUME TypeOK, AdoptInv, [Next]_vars, NEW c \in Clusters, Present(obj[c]),
         \/ obj[c].label = "false"
         \/ obj[c].label = "none" /\ ~AdoptResources /\ c \notin HostNamespace
  PROVE  ~HasManagedLabel(obj'[c])
<1> USE DEF memberVars
<1>0. obj[c] \in TargetObject /\ ~HasManagedLabel(obj[c])
  BY DEF TypeOK, HasManagedLabel
<1>1. CASE UNCHANGED obj
  BY <1>0, <1>1
<1>2. ASSUME NEW d \in Clusters, NEW o, Write(d, o), d = c => ~HasManagedLabel(o)
      PROVE  ~HasManagedLabel(obj'[c])
  BY <1>0, <1>2 DEF Write, TypeOK
<1>3. ASSUME NEW d \in Clusters, MemberEdit(d) PROVE ~HasManagedLabel(obj'[c])
  <2>1. PICK o \in MemberEdits(obj[d]) : Write(d, o)
    BY <1>3 DEF MemberEdit
  <2>2. d = c => ~HasManagedLabel(o)
    BY <1>0 DEF MemberEdits, HasManagedLabel, TargetObject
  <2> QED BY <1>2, <2>1, <2>2
<1>4. ASSUME NEW d \in Clusters, CollectGarbage(d) PROVE ~HasManagedLabel(obj'[c])
  BY <1>2, <1>4 DEF CollectGarbage, HasManagedLabel, NoObj
<1>5. ASSUME NEW o \in ops, Accepted(o), Apply(o) PROVE ~HasManagedLabel(obj'[c])
  <2>1. o \in Operation /\ o.cluster \in Clusters /\ Adoptable(o)
    BY DEF TypeOK, Operation, AdoptInv
  <2> DEFINE cur == obj[o.cluster]
             new == CASE o.kind = "create"  -> Managed
                      [] o.kind = "delete"  -> [cur EXCEPT !.deleting = TRUE]
                      [] o.kind = "update"  -> [cur EXCEPT !.label = "true"]
                      [] o.kind = "unlabel" -> [cur EXCEPT !.label = "none"]
  <2>2. Write(o.cluster, new)
    BY <1>5 DEF Apply
  <2>3. ASSUME o.cluster = c PROVE ~HasManagedLabel(new)
    <3>1. o.kind \in {"delete", "unlabel", "update"}
      BY <1>5, <2>1, <2>3 DEF Accepted, Operation, OpKinds
    <3>2. o.kind # "update"
      BY <1>5, <2>1, <2>3 DEF Accepted, Adoptable, IsExplicitlyUnmanaged
    <3> QED BY <1>0, <2>3, <3>1, <3>2 DEF HasManagedLabel, TargetObject
  <2> QED BY <1>2, <2>1, <2>2, <2>3
<1>6. ASSUME NEW o \in ops, clusterOperation(o) \/ OperationFails(o) PROVE ~HasManagedLabel(obj'[c])
  BY <1>1, <1>5, <1>6 DEF clusterOperation, Create, Adopt, Update, Delete, RemoveManagedLabel,
     CheckRemovedOrUnlabeled, OperationFails, NoWrite
<1> QED
  BY <1>1, <1>3, <1>4, <1>6
  DEF Next, Worker, vars, UserCreates, UserMoves, UserTogglesOrphaning, UserDeletes,
      ClusterUnavailable, ClusterAvailable, TargetEvent, FedEvent, reconcileOnClusterChange,
      reconcile, ensureFinalizer, syncToClusters, setFederatedStatus, ensureDeletion,
      removeFinalizer, removeManagedLabel, deleteFromClusters, ensureRemovedOrUnmanaged,
      WaitEnds, WaitTimesOut, Restart

\* For every set of clusters and all bounds: no step labels an object that is explicitly
\* unmanaged or, without adoption, one that KubeFed did not create.  What the dispatcher
\* has read may be stale when its update arrives; the update is then refused.
THEOREM OnlyTheWantedIsAdopted == Spec => NeverAdoptsUnwanted
<1>1. Init => TypeOK /\ AdoptInv
  BY TypeInit DEF Init, AdoptInv
<1>2. TypeOK /\ AdoptInv /\ [Next]_vars => (TypeOK /\ AdoptInv)'
  BY TypeStep, AdoptStep
<1>3. TypeOK /\ AdoptInv /\ [Next]_vars =>
        [\A c \in Clusters :
           /\ Present(obj[c])
           /\ obj[c].label = "false" \/ (obj[c].label = "none" /\ ~AdoptResources
                                         /\ c \notin HostNamespace)
           => ~HasManagedLabel(obj'[c])]_vars
  BY LabelsWanted
<1> QED BY <1>1, <1>2, <1>3, PTL DEF Spec, NeverAdoptsUnwanted

-----------------------------------------------------------------------------
(* Nothing fails in silence *)

\* Only a resource with a finalizer is marked for deletion; without one it is gone.
MarkedHasFinalizer == \A r \in {fed, fedStore, copy} : r.deleting => r.finalizer

\* Ready clusters have an informer, and a synced informer has what its selector
\* lets through.
InformerInv ==
  /\ \A c \in Clusters : c \in ready <=> informer[c] # "none"
  /\ \A c \in Clusters : informer[c] = "synced" => store[c] = Cached(obj[c])

\* Calm: nothing is going to make the worker reconcile the resource in the store.
\* That the store differs from the API server is left out on purpose: a user's second
\* edit may undo the first before the store has heard of either.
Pending == queue # {} \/ clusterEvent \/ \E c \in ready : informer[c] = "stale"
Calm == ~Pending /\ Exists(fedStore)

\* A cluster is not what the placement in the store asks for.
Wrong(c) ==
  IF c \in ready THEN ~(HasManagedLabel(obj[c]) <=> c \in fedStore.placement)
                 ELSE c \in fedStore.placement

\* The status in the store tells of it.
Told ==
  /\ ~fedStore.deleting
  /\ (\E c \in Clusters : Wrong(c)) => fedStore.status.reason = "CheckClusters"

\* While the worker waits: the status of a wrong cluster will not settle as a success
\* unless an operation on the cluster is still to end,
Noted(c) ==
  /\ statusMap[c] \notin {OK, Absent}
  /\ statusMap[c] \in {"CreationTimedOut", "UpdateTimedOut", "LabelRemovalTimedOut"} =>
       \E o \in Live : o.cluster = c
\* and an operation that ends well changes a labelled object, which is an event.
Effective(o) ==
  /\ o.cluster \in ready
  /\ Wrong(o.cluster) =>
       IF o.cluster \in fedStore.placement
       THEN /\ o.kind \in {"create", "get", "update"}
            /\ o.kind = "update" => o.seen.label # "true"
       ELSE /\ o.kind \in {"unlabel", "delete"}
            /\ o.kind = "delete" => ~obj[o.cluster].deleting

\* What the worker's reason for the status was compared with is what the store has
\* or what the API server has.
ReasonTrails ==
  \/ copy.status.reason = fedStore.status.reason
  \/ copy.uid = fed.uid /\ copy.status.reason = fed.status.reason
  \/ fed.uid # fedStore.uid

SyncPCs == {"ensureFinalizer", "syncToClusters", "syncWait", "setFederatedStatus"}

AllSynced == \A c \in ready : informer[c] = "synced"
IdleTold ==
  pc = "idle" /\ fed.uid = fedStore.uid /\ fed.status.reason = fedStore.status.reason => Told
GoneWhileUnlabelling ==
  pc \in {"removeManagedLabel", "labelWait"} => fed.uid # fedStore.uid
SyncTrails == pc \in SyncPCs => ~fedStore.deleting /\ ReasonTrails
DispatchTrails ==
  /\ pc \in {"ensureFinalizer", "syncToClusters"} => copy.placement = fedStore.placement
WaitNoted ==
  pc = "syncWait" => /\ \A c \in Clusters : Wrong(c) => Noted(c)
                     /\ \A o \in Live : Effective(o)
StatusNoted ==
  pc = "setFederatedStatus" => \A c \in Clusters : Wrong(c) => statusMap[c] \notin {OK, Absent}

CalmInv ==
  Calm => /\ AllSynced /\ IdleTold /\ GoneWhileUnlabelling /\ SyncTrails
          /\ DispatchTrails /\ WaitNoted /\ StatusNoted

TellInv == MarkedHasFinalizer /\ InformerInv /\ CalmInv


LEMMA MarkedStep == TypeOK /\ MarkedHasFinalizer /\ [Next]_vars => MarkedHasFinalizer'
<1> SUFFICES ASSUME TypeOK, MarkedHasFinalizer, [Next]_vars PROVE MarkedHasFinalizer'
  OBVIOUS
<1> USE DEF hostVars, memberVars, waitVars, workerVars
<1>1. ~NoFed.deleting
  BY DEF NoFed
<1>2. CASE UNCHANGED <<fed, fedStore, copy>>
  BY <1>2 DEF MarkedHasFinalizer
<1>3. ASSUME UNCHANGED <<fedStore, copy>>, fed'.deleting => fed'.finalizer
      PROVE  MarkedHasFinalizer'
  BY <1>3 DEF MarkedHasFinalizer
<1>4. ASSUME UNCHANGED <<fed, fedStore>>, copy' \in {fed, fedStore, copy, NoFed}
      PROVE  MarkedHasFinalizer'
  BY <1>1, <1>4 DEF MarkedHasFinalizer
<1>5. ASSUME NEW p \in SUBSET Clusters, NEW orphan \in BOOLEAN, UserCreates(p, orphan)
      PROVE  MarkedHasFinalizer'
  BY <1>3, <1>5 DEF UserCreates
<1>6. ASSUME NEW p \in SUBSET Clusters, UserMoves(p) PROVE MarkedHasFinalizer'
  <2>1. fed'.deleting = fed.deleting /\ fed'.finalizer = fed.finalizer
    BY <1>6 DEF UserMoves, TypeOK, FedResource
  <2> QED BY <1>3, <1>6, <2>1 DEF UserMoves, MarkedHasFinalizer
<1>7. CASE UserTogglesOrphaning
  <2>1. fed'.deleting = fed.deleting /\ fed'.finalizer = fed.finalizer
    BY <1>7 DEF UserTogglesOrphaning, TypeOK, FedResource
  <2> QED BY <1>3, <1>7, <2>1 DEF UserTogglesOrphaning, MarkedHasFinalizer
<1>8. CASE UserDeletes
  <2>1. fed'.deleting => fed'.finalizer
    BY <1>1, <1>8 DEF UserDeletes, TypeOK, FedResource
  <2> QED BY <1>3, <1>8, <2>1 DEF UserDeletes
<1>9. CASE FedEvent
  BY <1>9 DEF FedEvent, MarkedHasFinalizer
<1>10. ASSUME NEW k \in Keys, reconcile(k) PROVE MarkedHasFinalizer'
  BY <1>4, <1>10 DEF reconcile
<1>11. CASE ensureFinalizer
  <2>1. CASE fed' = [copy EXCEPT !.finalizer = TRUE] /\ copy' \in {fed', NoFed}
    <3>1. fed'.finalizer
      BY <2>1 DEF TypeOK, FedResource
    <3> QED BY <1>1, <1>11, <2>1, <3>1 DEF ensureFinalizer, MarkedHasFinalizer
  <2>2. CASE UNCHANGED fed /\ copy' \in {copy, NoFed}
    BY <1>4, <1>11, <2>2 DEF ensureFinalizer
  <2> QED BY <1>11, <2>1, <2>2 DEF ensureFinalizer, Goto, Finish, Leave
<1>12. CASE setFederatedStatus
  <2>1. CASE fed' = [fed EXCEPT !.status = update(@, statusMap)] /\ Leave
    <3>1. fed'.deleting = fed.deleting /\ fed'.finalizer = fed.finalizer
      BY <2>1 DEF TypeOK, FedResource
    <3> QED BY <1>1, <1>12, <2>1, <3>1 DEF setFederatedStatus, MarkedHasFinalizer, Leave
  <2>2. CASE UNCHANGED fed /\ copy' \in {fed, NoFed}
    BY <1>4, <1>12, <2>2 DEF setFederatedStatus
  <2> QED BY <1>12, <2>1, <2>2 DEF setFederatedStatus, Finish, Leave
<1>13. CASE removeFinalizer
  <2>1. fed' \in {fed, NoFed} /\ copy' \in {copy, NoFed} /\ UNCHANGED fedStore
    BY <1>13 DEF removeFinalizer, Goto, Finish, Leave
  <2> QED BY <1>1, <2>1 DEF MarkedHasFinalizer
<1>14. CASE ensureDeletion \/ WaitEnds \/ WaitTimesOut
  <2>1. UNCHANGED <<fed, fedStore>> /\ copy' \in {copy, NoFed}
    BY <1>14 DEF ensureDeletion, WaitEnds, WaitTimesOut, Goto, Finish, Leave
  <2> QED BY <1>4, <2>1
<1>15. CASE syncToClusters \/ removeManagedLabel \/ deleteFromClusters \/ ensureRemovedOrUnmanaged
  BY <1>2, <1>15 DEF syncToClusters, removeManagedLabel, deleteFromClusters,
                     ensureRemovedOrUnmanaged, Goto
<1>16. CASE Restart
  BY <1>1, <1>16 DEF Restart, Leave, MarkedHasFinalizer
<1>17. ASSUME NEW c \in Clusters,
              \/ MemberEdit(c) \/ CollectGarbage(c) \/ ClusterUnavailable(c)
              \/ ClusterAvailable(c) \/ TargetEvent(c)
       PROVE  MarkedHasFinalizer'
  BY <1>2, <1>17 DEF MemberEdit, CollectGarbage, ClusterUnavailable, ClusterAvailable, TargetEvent
<1>18. ASSUME NEW o \in ops, clusterOperation(o) \/ OperationFails(o) PROVE MarkedHasFinalizer'
  BY <1>2, <1>18 DEF clusterOperation, Create, Adopt, Update, Delete, RemoveManagedLabel,
                     CheckRemovedOrUnlabeled, OperationFails, OpUnchanged
<1>19. CASE reconcileOnClusterChange \/ UNCHANGED vars
  BY <1>2, <1>19 DEF reconcileOnClusterChange, vars
<1> QED
  BY <1>5, <1>6, <1>7, <1>8, <1>9, <1>10, <1>11, <1>12, <1>13, <1>14, <1>15, <1>16, <1>17, <1>18,
     <1>19
  DEF Next, Worker

\* A write leaves the informer of its cluster stale, or does not concern it.
LEMMA InformerWrite ==
  ASSUME TypeOK, InformerInv, NEW c \in Clusters, NEW o \in TargetObject, Write(c, o),
         UNCHANGED <<ready, store>>
  PROVE  InformerInv'
<1>1. ASSUME NEW d \in Clusters PROVE d \in ready' <=> informer'[d] # "none"
  <2>1. d \in ready <=> informer[d] # "none"
    BY DEF InformerInv
  <2>2. (informer'[d] # "none") <=> (informer[d] # "none")
    BY DEF Write, TypeOK
  <2> QED BY <2>1, <2>2
<1>2. ASSUME NEW d \in Clusters, informer'[d] = "synced" PROVE store'[d] = Cached(obj[d])'
  <2>1. informer[d] = "synced" /\ store[d] = Cached(obj[d])
    BY <1>2 DEF Write, TypeOK, InformerInv
  <2>2. CASE d # c
    <3>1. obj'[d] = obj[d]
      BY <2>2 DEF Write, TypeOK
    <3> QED BY <2>1, <3>1 DEF Cached
  <2>3. CASE d = c
    <3>1. obj'[c] = o
      BY DEF Write, TypeOK
    <3>2. o = obj[c] \/ (~HasManagedLabel(o) /\ ~HasManagedLabel(obj[c]))
      BY <1>2, <2>1, <2>3 DEF Write, TypeOK
    <3>3. Cached(o) = Cached(obj[c])
      BY <3>2 DEF Cached
    <3> QED BY <2>1, <2>3, <3>1, <3>3 DEF Cached, HasManagedLabel
  <2> QED BY <2>2, <2>3
<1> QED BY <1>1, <1>2 DEF InformerInv

\* The object an accepted request leaves.
LEMMA ApplyWrites ==
  ASSUME TypeOK, NEW o \in ops, Accepted(o), Apply(o)
  PROVE  \E new \in TargetObject :
           /\ Write(o.cluster, new)
           /\ o.kind = "create" => new = Managed
           /\ o.kind = "update" => HasManagedLabel(new)
           /\ o.kind = "unlabel" => ~HasManagedLabel(new)
           /\ o.kind = "delete" => new.deleting
<1>1. o \in Operation /\ o.cluster \in Clusters /\ obj[o.cluster] \in TargetObject
  BY DEF TypeOK, Operation
<1> DEFINE cur == obj[o.cluster]
           new == CASE o.kind = "create"  -> Managed
                    [] o.kind = "delete"  -> [cur EXCEPT !.deleting = TRUE]
                    [] o.kind = "update"  -> [cur EXCEPT !.label = "true"]
                    [] o.kind = "unlabel" -> [cur EXCEPT !.label = "none"]
<1>2. new \in TargetObject
  BY <1>1 DEF Accepted, Managed, TargetObject, Labels
<1>3. Write(o.cluster, new)
  BY DEF Apply
<1>4. o.kind = "create" => new = Managed
  OBVIOUS
<1>5. o.kind = "update" => HasManagedLabel(new)
  BY <1>1 DEF HasManagedLabel, TargetObject
<1>6. o.kind = "unlabel" => ~HasManagedLabel(new)
  BY <1>1 DEF HasManagedLabel, TargetObject
<1>7. o.kind = "delete" => new.deleting
  BY <1>1 DEF TargetObject
<1> QED BY <1>2, <1>3, <1>4, <1>5, <1>6, <1>7

LEMMA InformerStep == TypeOK /\ InformerInv /\ [Next]_vars => InformerInv'
<1> SUFFICES ASSUME TypeOK, InformerInv, [Next]_vars PROVE InformerInv'
  OBVIOUS
<1> USE DEF hostVars, memberVars, waitVars, workerVars
<1>1. CASE UNCHANGED <<ready, informer, store, obj>>
  BY <1>1 DEF InformerInv, Cached
<1>2. ASSUME NEW c \in Clusters, MemberEdit(c) PROVE InformerInv'
  <2>1. PICK o \in MemberEdits(obj[c]) : Write(c, o)
    BY <1>2 DEF MemberEdit
  <2>2. o \in TargetObject
    BY <2>1 DEF MemberEdits, TargetObject, Labels, TypeOK
  <2> QED BY <1>2, <2>1, <2>2, InformerWrite DEF MemberEdit
<1>3. ASSUME NEW c \in Clusters, CollectGarbage(c) PROVE InformerInv'
  BY <1>3, InformerWrite, InitialTypes DEF CollectGarbage
<1>4. ASSUME NEW c \in Clusters, ClusterUnavailable(c) \/ ClusterAvailable(c) PROVE InformerInv'
  <2>1. UNCHANGED obj /\ \A d \in Clusters \ {c} :
          /\ informer'[d] = informer[d] /\ store'[d] = store[d]
          /\ d \in ready' <=> d \in ready
    BY <1>4 DEF ClusterUnavailable, ClusterAvailable, TypeOK
  <2>2. informer'[c] # "synced" /\ (c \in ready' <=> informer'[c] # "none")
    BY <1>4 DEF ClusterUnavailable, ClusterAvailable, TypeOK
  <2> QED BY <2>1, <2>2 DEF InformerInv, Cached
<1>5. ASSUME NEW c \in Clusters, TargetEvent(c) PROVE InformerInv'
  <2>1. /\ informer[c] # "none" /\ UNCHANGED <<ready, obj>>
        /\ informer' = [informer EXCEPT ![c] = "synced"]
        /\ store' = [store EXCEPT ![c] = Cached(obj[c])]
    BY <1>5 DEF TargetEvent
  <2>2. \A d \in Clusters : d \in ready' <=> informer'[d] # "none"
    BY <2>1 DEF InformerInv, TypeOK
  <2>3. \A d \in Clusters : informer'[d] = "synced" => store'[d] = Cached(obj[d])
    BY <2>1 DEF InformerInv, TypeOK
  <2> QED BY <2>1, <2>2, <2>3 DEF InformerInv, Cached
<1>6. CASE Restart
  BY <1>6 DEF Restart, InformerInv
<1>7. ASSUME NEW o \in ops, clusterOperation(o) \/ OperationFails(o) PROVE InformerInv'
  <2>1. UNCHANGED <<ready, store>>
    BY <1>7 DEF clusterOperation, Create, Adopt, Update, Delete, RemoveManagedLabel,
                CheckRemovedOrUnlabeled, OperationFails, OpUnchanged
  <2>2. NoWrite \/ (Accepted(o) /\ Apply(o))
    BY <1>7 DEF clusterOperation, Create, Adopt, Update, Delete, RemoveManagedLabel,
                CheckRemovedOrUnlabeled, OperationFails
  <2>3. o.cluster \in Clusters
    BY DEF TypeOK, Operation
  <2> QED BY <1>1, <2>1, <2>2, <2>3, ApplyWrites, InformerWrite DEF NoWrite
<1> QED
  BY <1>1, <1>2, <1>3, <1>4, <1>5, <1>6, <1>7
  DEF Next, Worker, vars, UserCreates, UserMoves, UserTogglesOrphaning, UserDeletes, FedEvent,
      reconcileOnClusterChange, reconcile, ensureFinalizer, syncToClusters, setFederatedStatus,
      ensureDeletion, removeFinalizer, removeManagedLabel, deleteFromClusters,
      ensureRemovedOrUnmanaged, WaitEnds, WaitTimesOut


\* What is asked of a step that leaves the resource in the store and the set of ready
\* clusters alone: no labelled object of a ready cluster is new or changed.
Quiet == \A c \in ready : \/ obj'[c] = obj[c]
                          \/ ~HasManagedLabel(obj[c]) /\ ~HasManagedLabel(obj'[c])

LEMMA WrongKept ==
  ASSUME Quiet, UNCHANGED <<fedStore, ready>>
  PROVE  \A c \in Clusters : Wrong(c)' <=> Wrong(c)
<1> SUFFICES ASSUME NEW c \in Clusters PROVE Wrong(c)' <=> Wrong(c)
  OBVIOUS
<1>1. CASE c \in ready
  <2>1. HasManagedLabel(obj'[c]) <=> HasManagedLabel(obj[c])
    BY <1>1 DEF Quiet
  <2> QED BY <1>1, <2>1 DEF Wrong, HasManagedLabel
<1>2. CASE c \notin ready
  BY <1>2 DEF Wrong
<1> QED BY <1>1, <1>2

\* A write after which no informer is stale is quiet.
LEMMA QuietWrite ==
  ASSUME TypeOK, AllSynced, NEW c \in Clusters, NEW o \in TargetObject, Write(c, o),
         UNCHANGED ready, \A d \in ready : informer'[d] # "stale"
  PROVE  Quiet /\ AllSynced'
<1>1. \A d \in Clusters \ {c} : obj'[d] = obj[d]
  BY DEF Write, TypeOK
<1>2. obj'[c] = o
  BY DEF Write, TypeOK
<1>3. \A d \in ready : informer'[d] = "synced"
  BY DEF Write, TypeOK, AllSynced
<1>4. c \in ready => o = obj[c] \/ (~HasManagedLabel(o) /\ ~HasManagedLabel(obj[c]))
  BY DEF Write, TypeOK, AllSynced
<1>5. ready \subseteq Clusters
  BY DEF TypeOK
<1>6. Quiet
  BY <1>1, <1>2, <1>4, <1>5 DEF Quiet
<1>7. AllSynced'
  BY <1>3 DEF AllSynced
<1> QED BY <1>6, <1>7

LEMMA EffectiveKept ==
  ASSUME Quiet, UNCHANGED <<fedStore, ready>>, NEW o, Effective(o)
  PROVE  Effective(o)'
<1>1. o.cluster \in ready /\ (Wrong(o.cluster)' <=> Wrong(o.cluster))
  BY DEF Effective, Wrong, Quiet, HasManagedLabel
<1>2. Wrong(o.cluster) /\ o.cluster \notin fedStore.placement => obj'[o.cluster] = obj[o.cluster]
  BY <1>1 DEF Wrong, Quiet
<1> QED BY <1>1, <1>2 DEF Effective

\* A step of a user or of a member: the worker, its operations and what it has found
\* out stay, and the resource keeps its uid and reason or is another one.
LEMMA CalmFrame ==
  ASSUME CalmInv, Calm' => Calm, Quiet, AllSynced => AllSynced',
         UNCHANGED <<fedStore, ready, pc, copy, ops, statusMap>>,
         \/ fed'.uid # fedStore.uid
         \/ fed'.uid = fed.uid /\ fed'.status.reason = fed.status.reason
  PROVE  CalmInv'
<1> SUFFICES ASSUME Calm' PROVE /\ AllSynced' /\ IdleTold' /\ GoneWhileUnlabelling' /\ SyncTrails'
                                /\ DispatchTrails' /\ WaitNoted' /\ StatusNoted'
  BY DEF CalmInv
<1>1. /\ AllSynced /\ IdleTold /\ GoneWhileUnlabelling /\ SyncTrails
      /\ DispatchTrails /\ WaitNoted /\ StatusNoted
  BY DEF CalmInv
<1>2. \A c \in Clusters : Wrong(c)' <=> Wrong(c)
  BY WrongKept
<1>3. Told' <=> Told
  BY <1>2 DEF Told
<1>4. IdleTold'
  BY <1>1, <1>3 DEF IdleTold
<1>5. GoneWhileUnlabelling'
  BY <1>1 DEF GoneWhileUnlabelling
<1>6. SyncTrails'
  BY <1>1 DEF SyncTrails, ReasonTrails
<1>7. DispatchTrails'
  BY <1>1 DEF DispatchTrails
<1>8. Live' = Live
  BY DEF Live
<1>9. \A c \in Clusters : Noted(c)' <=> Noted(c)
  BY <1>8 DEF Noted
<1>10. ASSUME pc = "syncWait", NEW o \in Live PROVE Effective(o)'
  BY <1>1, <1>10, EffectiveKept DEF WaitNoted
<1>11. WaitNoted'
  BY <1>1, <1>2, <1>8, <1>9, <1>10 DEF WaitNoted
<1>12. StatusNoted'
  BY <1>1, <1>2 DEF StatusNoted
<1> QED BY <1>1, <1>4, <1>5, <1>6, <1>7, <1>11, <1>12

\* Users change the resource and nothing else.
LEMMA CalmUser ==
  ASSUME TypeOK, Uids, CalmInv,
         UNCHANGED <<fedStore, memberVars, queue, workerVars, ops, waitVars>>,
         \/ \E p \in SUBSET Clusters, orphan \in BOOLEAN : UserCreates(p, orphan)
         \/ \E p \in SUBSET Clusters : UserMoves(p)
         \/ UserTogglesOrphaning \/ UserDeletes \/ UNCHANGED vars
  PROVE  CalmInv'
<1> USE DEF hostVars, memberVars, waitVars, workerVars
<1>1. Quiet /\ (AllSynced => AllSynced') /\ (Calm' <=> Calm)
  BY DEF Quiet, AllSynced, Calm, Pending
<1>2. \/ fed'.uid # fedStore.uid \/ ~Exists(fedStore)
      \/ fed'.uid = fed.uid /\ fed'.status.reason = fed.status.reason
  <2>1. ASSUME NEW p \in SUBSET Clusters, NEW orphan \in BOOLEAN, UserCreates(p, orphan)
        PROVE  fed'.uid # fedStore.uid
    <3>1. fed'.uid = used["resources"] + 1
      BY <2>1 DEF UserCreates, Spend, TypeOK, Bounds
    <3>2. fedStore.uid <= used["resources"] /\ fedStore.uid \in Nat /\ used["resources"] \in Nat
      BY DEF Uids, TypeOK, FedResource, Bounds
    <3> QED BY <3>1, <3>2
  <2>2. ASSUME NEW p \in SUBSET Clusters, UserMoves(p)
        PROVE  fed'.uid = fed.uid /\ fed'.status.reason = fed.status.reason
    <3>1. fed.status \in Status
      BY DEF TypeOK, FedResource
    <3> QED BY <2>2, <3>1 DEF UserMoves, TypeOK, FedResource, Status
  <2>3. CASE UserTogglesOrphaning
    BY <2>3 DEF UserTogglesOrphaning, TypeOK, FedResource
  <2>4. CASE UserDeletes
    BY <2>4 DEF UserDeletes, TypeOK, FedResource, NoFed, Exists
  <2> QED BY <2>1, <2>2, <2>3, <2>4 DEF vars
<1>3. CASE ~Exists(fedStore)
  BY <1>3 DEF CalmInv, Calm, Exists
<1> QED BY <1>1, <1>2, <1>3, CalmFrame

\* Changes in a member are quiet, or an event is going to come.
LEMMA CalmWrite ==
  ASSUME TypeOK, CalmInv, NEW c \in Clusters, NEW o \in TargetObject, Write(c, o),
         UNCHANGED <<hostVars, ready, clusterEvent, queue, workerVars, ops, statusMap>>
  PROVE  CalmInv'
<1> USE DEF hostVars, workerVars
<1> SUFFICES ASSUME Calm' PROVE CalmInv'
  BY DEF CalmInv
<1>1. \A d \in ready : informer'[d] # "stale"
  BY DEF Calm, Pending
<1>2. \A d \in ready : informer[d] # "stale"
  BY <1>1 DEF Write, TypeOK
<1>3. Calm
  BY <1>2 DEF Calm, Pending
<1>4. AllSynced
  BY <1>3 DEF CalmInv
<1>5. Quiet /\ AllSynced'
  BY <1>1, <1>4, QuietWrite
<1> QED BY <1>3, <1>5, CalmFrame

LEMMA CalmMember ==
  ASSUME TypeOK, InformerInv, CalmInv, NEW c \in Clusters,
         \/ MemberEdit(c) \/ CollectGarbage(c) \/ ClusterUnavailable(c)
         \/ ClusterAvailable(c) \/ TargetEvent(c)
  PROVE  CalmInv'
<1> USE DEF hostVars, memberVars, waitVars, workerVars
<1>1. CASE MemberEdit(c)
  <2>1. PICK o \in MemberEdits(obj[c]) : Write(c, o)
    BY <1>1 DEF MemberEdit
  <2>2. o \in TargetObject
    BY <2>1 DEF MemberEdits, TargetObject, Labels, TypeOK
  <2> QED BY <1>1, <2>1, <2>2, CalmWrite DEF MemberEdit
<1>2. CASE CollectGarbage(c)
  BY <1>2, CalmWrite, InitialTypes DEF CollectGarbage
<1>3. CASE ClusterUnavailable(c) \/ ClusterAvailable(c)
  BY <1>3 DEF ClusterUnavailable, ClusterAvailable, CalmInv, Calm, Pending
<1>4. CASE TargetEvent(c)
  <2> SUFFICES ASSUME Calm' PROVE FALSE
    BY DEF CalmInv
  <2>1. /\ informer[c] \in {"listing", "stale"}
        /\ informer' = [informer EXCEPT ![c] = "synced"]
        /\ UNCHANGED <<fedStore, ready, clusterEvent>>
    BY <1>4 DEF TargetEvent
  <2>2. queue' = {} /\ queue \subseteq queue' /\ (informer[c] = "stale" => queue' # {})
    BY <1>4 DEF TargetEvent, Calm, Pending
  <2>3. informer[c] = "listing"
    BY <2>1, <2>2
  <2>4. c \in ready
    BY <2>3 DEF InformerInv
  <2>5. \A d \in ready : informer[d] # "stale"
    BY <2>1, <2>3 DEF Calm, Pending, TypeOK
  <2>6. Calm
    BY <2>1, <2>2, <2>5 DEF Calm, Pending
  <2> QED BY <2>3, <2>4, <2>6 DEF CalmInv, AllSynced
<1> QED BY <1>1, <1>2, <1>3, <1>4

\* Events of the resource and of clusters are queued.
LEMMA CalmEvent ==
  ASSUME FedEvent \/ reconcileOnClusterChange \/ Restart
  PROVE  CalmInv'
<1> SUFFICES ASSUME Calm' PROVE FALSE
  BY DEF CalmInv
<1> USE DEF hostVars
<1>1. queue' # {}
  BY DEF FedEvent, reconcileOnClusterChange, Restart, Calm, Exists
<1> QED BY <1>1 DEF Calm, Pending


\* The worker leaves clusters, objects and stores alone, and takes no key away after
\* reconcile has begun.
LEMMA CalmWorker ==
  ASSUME CalmInv, UNCHANGED <<fedStore, memberVars>>, queue \subseteq queue', Calm'
  PROVE  /\ AllSynced' /\ IdleTold /\ GoneWhileUnlabelling /\ SyncTrails
         /\ DispatchTrails /\ WaitNoted /\ StatusNoted
         /\ Exists(fedStore)
         /\ \A c \in Clusters : Wrong(c)' <=> Wrong(c)
         /\ Told' <=> Told
<1> USE DEF memberVars
<1>1. Calm
  BY DEF Calm, Pending
<1>2. Quiet
  BY DEF Quiet
<1>3. \A c \in Clusters : Wrong(c)' <=> Wrong(c)
  BY <1>2, WrongKept
<1>4. Told' <=> Told
  BY <1>3 DEF Told
<1>5. AllSynced'
  BY <1>1 DEF CalmInv, AllSynced
<1> QED BY <1>1, <1>3, <1>4, <1>5 DEF CalmInv, Calm

LEMMA CalmRetry ==
  ASSUME queue' # {}
  PROVE  CalmInv'
BY DEF CalmInv, Calm, Pending

\* A reconciliation starts from the store.
LEMMA CalmReconcile ==
  ASSUME TypeOK, InformerInv, NEW k \in Keys, reconcile(k)
  PROVE  CalmInv'
<1> SUFFICES ASSUME Calm' PROVE CalmInv'
  BY DEF CalmInv
<1> USE DEF hostVars, memberVars
<1>1. Exists(fedStore)
  BY DEF Calm, reconcile
<1>2. /\ copy' = fedStore /\ UNCHANGED <<fed, fedStore, ready, informer>> /\ isSynced
      /\ pc' = IF fedStore.deleting THEN "ensureDeletion" ELSE "ensureFinalizer"
  BY <1>1 DEF reconcile
<1>3. AllSynced'
  BY <1>2 DEF isSynced, Calm, Pending, AllSynced
<1>4. SyncTrails' /\ DispatchTrails'
  BY <1>2 DEF SyncTrails, DispatchTrails, ReasonTrails, SyncPCs
<1>5. pc' \notin {"idle", "removeManagedLabel", "labelWait", "syncWait", "setFederatedStatus"}
  BY <1>2
<1> QED
  BY <1>3, <1>4, <1>5 DEF CalmInv, IdleTold, GoneWhileUnlabelling, WaitNoted, StatusNoted

LEMMA CalmFinalizer ==
  ASSUME TypeOK, CalmInv, ensureFinalizer
  PROVE  CalmInv'
<1> USE DEF hostVars, memberVars, waitVars, workerVars
<1> SUFFICES ASSUME Calm', queue' = {} PROVE CalmInv'
  BY CalmRetry DEF CalmInv
<1>1. pc = "ensureFinalizer" /\ UNCHANGED <<fedStore, memberVars>>
  BY DEF ensureFinalizer
<1>2. \/ pc' = "syncToClusters" /\ UNCHANGED <<fed, copy, queue>>
      \/ /\ pc' = "syncToClusters" /\ UNCHANGED queue /\ copy = fed
         /\ fed' = [copy EXCEPT !.finalizer = TRUE] /\ copy' = fed'
  BY DEF ensureFinalizer, Goto, Finish
<1>3. pc' = "syncToClusters" /\ queue' = queue
  BY <1>2
<1>4. AllSynced' /\ SyncTrails /\ DispatchTrails
  BY <1>1, <1>3, CalmWorker
<1>5. /\ copy'.placement = copy.placement /\ copy'.status.reason = copy.status.reason
      /\ copy'.uid = copy.uid /\ fed'.uid = fed.uid /\ fed'.status.reason = fed.status.reason
  BY <1>2 DEF TypeOK, FedResource
<1>6. SyncTrails' /\ DispatchTrails'
  BY <1>1, <1>4, <1>5 DEF SyncTrails, DispatchTrails, ReasonTrails, SyncPCs
<1> QED
  BY <1>3, <1>4, <1>6 DEF CalmInv, IdleTold, GoneWhileUnlabelling, WaitNoted, StatusNoted

\* Every wrong cluster starts with a status that tells, and with an operation if a
\* success would take that status away.
LEMMA CalmDispatch ==
  ASSUME TypeOK, PhaseInv, InformerInv, CalmInv, syncToClusters
  PROVE  CalmInv'
<1> USE DEF hostVars, memberVars, waitVars, workerVars
<1> SUFFICES ASSUME Calm' PROVE CalmInv'
  BY DEF CalmInv
<1>1. /\ pc = "syncToClusters" /\ pc' = "syncWait" /\ UNCHANGED <<fedStore, memberVars>>
      /\ UNCHANGED <<fed, copy, queue>>
      /\ statusMap' = [c \in Clusters |-> DispatchStatus(c)]
      /\ ops' = ops \union {Propagation(c) : c \in copy.placement \intersect ready}
                    \union {Removal(c) : c \in Removable \ copy.placement}
  BY DEF syncToClusters, Goto
<1>2. /\ AllSynced' /\ SyncTrails /\ DispatchTrails
      /\ \A c \in Clusters : Wrong(c)' <=> Wrong(c)
  BY <1>1, CalmWorker
<1>3. copy.placement = fedStore.placement
  BY <1>1, <1>2 DEF DispatchTrails
<1>4. \A c \in ready : store[c] = Cached(obj[c])
  BY <1>1, <1>2 DEF AllSynced, InformerInv, TypeOK
<1>5. \A c \in ready : /\ Present(store[c]) <=> HasManagedLabel(obj[c])
                       /\ HasManagedLabel(obj[c]) => store[c] = obj[c]
  BY <1>4 DEF Cached, Present, HasManagedLabel, NoObj
<1>6. Live = {}
  BY <1>1 DEF PhaseInv, Waits
<1>7. \A c : Propagation(c).late = 0 /\ Removal(c).late = 0 /\ Propagation(c).cluster = c
             /\ Removal(c).cluster = c
  BY NewOpFields DEF Propagation, Removal
<1>8. ready \subseteq Clusters
  BY DEF TypeOK
<1>9. ASSUME NEW c \in Clusters, Wrong(c) PROVE Noted(c)'
  <2>1. statusMap'[c] = DispatchStatus(c)
    BY <1>1
  <2>2. CASE c \notin ready
    <3>1. DispatchStatus(c) = "ClusterNotReady"
      BY <1>3, <1>9, <2>2 DEF Wrong, DispatchStatus
    <3> QED BY <2>1, <3>1 DEF Noted, OK, Absent
  <2>3. CASE c \in ready /\ c \in copy.placement
    <3>1. DispatchStatus(c) = "CreationTimedOut"
      BY <1>3, <1>5, <1>9, <2>3 DEF Wrong, DispatchStatus
    <3>2. Propagation(c) \in Live'
      BY <1>1, <1>7, <2>3 DEF Live
    <3> QED BY <1>7, <2>1, <3>1, <3>2 DEF Noted, OK, Absent
  <2>4. CASE c \in ready /\ c \notin copy.placement
    <3>1. Present(store[c])
      BY <1>3, <1>5, <1>9, <2>4 DEF Wrong
    <3>2. CASE store[c].deleting
      <4>1. DispatchStatus(c) = "WaitingForRemoval"
        BY <2>4, <3>1, <3>2 DEF DispatchStatus
      <4> QED BY <2>1, <4>1 DEF Noted, OK, Absent
    <3>3. CASE ~store[c].deleting
      <4>1. DispatchStatus(c) \in {"LabelRemovalTimedOut", "DeletionTimedOut"}
        BY <2>4, <3>1, <3>3 DEF DispatchStatus
      <4>2. Removal(c) \in Live'
        BY <1>1, <1>7, <2>4, <3>1, <3>3 DEF Live, Removable
      <4> QED BY <1>7, <2>1, <4>1, <4>2 DEF Noted, OK, Absent
    <3> QED BY <3>2, <3>3
  <2> QED BY <2>2, <2>3, <2>4
<1>10. ASSUME NEW o \in Live' PROVE Effective(o)'
  <2>1. o \notin ops
    BY <1>6, <1>10 DEF Live
  <2>2. CASE \E c \in copy.placement \intersect ready : o = Propagation(c)
    <3>1. PICK c \in copy.placement \intersect ready : o = Propagation(c)
      BY <2>2
    <3>2. o.cluster = c /\ c \in ready /\ c \in fedStore.placement
      BY <1>3, <1>7, <3>1
    <3>3. Wrong(c) => ~Present(store[c])
      BY <1>5, <3>2 DEF Wrong
    <3>4. ~Present(store[c]) => o.kind = "create"
      BY <3>1, NewOpFields DEF Propagation
    <3>5. Wrong(c)' <=> Wrong(c)
      BY <1>2, <1>8, <3>2
    <3> QED BY <1>1, <3>2, <3>3, <3>4, <3>5 DEF Effective
  <2>3. CASE \E c \in Removable \ copy.placement : o = Removal(c)
    <3>1. PICK c \in Removable \ copy.placement : o = Removal(c)
      BY <2>3
    <3>2. o.cluster = c /\ c \in ready /\ c \notin fedStore.placement
      BY <1>3, <1>7, <3>1 DEF Removable
    <3>3. ~obj[c].deleting
      BY <1>5, <3>1, <3>2 DEF Removable
    <3>4. o.kind \in {"unlabel", "delete"}
      BY <3>1, NewOpFields DEF Removal
    <3> QED BY <1>1, <3>2, <3>3, <3>4 DEF Effective
  <2>4. o \in ops'
    BY <1>10 DEF Live
  <2> QED BY <1>1, <2>1, <2>2, <2>3, <2>4
<1>11. WaitNoted'
  BY <1>2, <1>9, <1>10 DEF WaitNoted
<1>12. SyncTrails'
  BY <1>1, <1>2 DEF SyncTrails, ReasonTrails, SyncPCs
<1> QED
  BY <1>1, <1>2, <1>11, <1>12
  DEF CalmInv, IdleTold, GoneWhileUnlabelling, DispatchTrails, StatusNoted

\* The reason of the status is CheckClusters when a cluster is wrong.
LEMMA CalmStatus ==
  ASSUME TypeOK, CalmInv, setFederatedStatus
  PROVE  CalmInv'
<1> USE DEF hostVars, memberVars, waitVars, workerVars
<1> SUFFICES ASSUME Calm', queue' = {} PROVE CalmInv'
  BY CalmRetry DEF CalmInv
<1>1. pc = "setFederatedStatus" /\ UNCHANGED <<fedStore, memberVars>> /\ queue \subseteq queue'
  BY DEF setFederatedStatus, Finish
<1>2. /\ AllSynced' /\ SyncTrails /\ StatusNoted /\ (Told' <=> Told)
      /\ \A c \in Clusters : Wrong(c)' <=> Wrong(c)
  BY <1>1, CalmWorker
<1>3. (\E c \in Clusters : Wrong(c)) => aggregateReason(statusMap) = "CheckClusters"
  BY <1>1, <1>2 DEF StatusNoted, aggregateReason, Listed
<1>4. ~fedStore.deleting /\ ReasonTrails
  BY <1>1, <1>2 DEF SyncTrails, SyncPCs
<1>5. ASSUME pc' = "idle",
             fed'.uid = fedStore.uid /\ fed'.status.reason = fedStore.status.reason =>
               aggregateReason(statusMap) = fedStore.status.reason
      PROVE  CalmInv'
  <2>1. IdleTold'
    BY <1>1, <1>2, <1>3, <1>4, <1>5 DEF IdleTold, Told
  <2> QED BY <1>2, <1>5, <2>1 DEF CalmInv, GoneWhileUnlabelling, SyncTrails, SyncPCs, DispatchTrails,
                            WaitNoted, StatusNoted
<1>6. CASE ~updateRequired(copy.status, statusMap, updated) /\ Finish(FALSE) /\ UNCHANGED fed
  <2>1. aggregateReason(statusMap) = copy.status.reason
    BY <1>6 DEF updateRequired
  <2>2. pc' = "idle"
    BY <1>6 DEF Finish, Leave
  <2> QED BY <1>4, <1>5, <1>6, <2>1, <2>2 DEF ReasonTrails
<1>7. CASE fed' = [fed EXCEPT !.status = update(@, statusMap)] /\ Leave
  <2>1. fed'.status.reason = aggregateReason(statusMap)
    BY <1>7 DEF update, TypeOK, FedResource
  <2>2. pc' = "idle"
    BY <1>7 DEF Leave
  <2> QED BY <1>5, <2>1, <2>2
<1>8. CASE copy' = fed /\ UNCHANGED <<fed, pc, key, queue, waitVars>>
  <2>1. SyncTrails'
    BY <1>1, <1>4, <1>8 DEF SyncTrails, ReasonTrails, SyncPCs
  <2>2. StatusNoted'
    BY <1>2, <1>8 DEF StatusNoted
  <2> QED BY <1>1, <1>2, <1>8, <2>1, <2>2 DEF CalmInv, IdleTold, GoneWhileUnlabelling, DispatchTrails,
                                    WaitNoted
<1>9. ~Finish(TRUE)
  BY DEF Finish
<1> QED BY <1>6, <1>7, <1>8, <1>9 DEF setFederatedStatus


\* Deletion phases stop with a retry, or the resource is gone.
LEMMA CalmAway ==
  ASSUME CalmInv, UNCHANGED <<fedStore, memberVars>>, queue \subseteq queue', pc' \in DeletionPCs
  PROVE  CalmInv'
<1> SUFFICES ASSUME Calm' PROVE CalmInv'
  BY DEF CalmInv
<1>1. AllSynced'
  BY CalmWorker
<1> QED
  BY <1>1 DEF CalmInv, IdleTold, GoneWhileUnlabelling, SyncTrails, SyncPCs, DispatchTrails, WaitNoted,
             StatusNoted, DeletionPCs

LEMMA CalmGone ==
  ASSUME CalmInv, UNCHANGED <<fedStore, memberVars>>, queue \subseteq queue',
         pc' \in {"idle", "removeManagedLabel", "labelWait"},
         Exists(fedStore) => fed'.uid # fedStore.uid
  PROVE  CalmInv'
<1> SUFFICES ASSUME Calm' PROVE CalmInv'
  BY DEF CalmInv
<1>1. AllSynced' /\ Exists(fedStore)
  BY CalmWorker
<1> QED
  BY <1>1 DEF CalmInv, IdleTold, GoneWhileUnlabelling, SyncTrails, SyncPCs, DispatchTrails, WaitNoted,
             StatusNoted

LEMMA CalmDeletion ==
  ASSUME TypeOK, LifetimeInv, MarkedHasFinalizer, CalmInv,
         \/ ensureDeletion \/ removeFinalizer \/ removeManagedLabel
         \/ deleteFromClusters \/ ensureRemovedOrUnmanaged
  PROVE  CalmInv'
<1> USE DEF hostVars, memberVars, waitVars, workerVars
<1> SUFFICES ASSUME Calm', queue' = {} PROVE CalmInv'
  BY CalmRetry DEF CalmInv
<1>0. ~Finish(TRUE)
  BY DEF Finish
<1>1. CASE ensureDeletion
  <2>1. copy.finalizer
    BY <1>1 DEF ensureDeletion, LifetimeInv, CopyTrails, DeletionPCs, MarkedHasFinalizer
  <2>2. /\ pc' \in {"removeFinalizer", "deleteFromClusters"}
        /\ UNCHANGED <<fedStore, memberVars, queue>>
    BY <1>1, <2>1 DEF ensureDeletion, Goto
  <2> QED BY <2>2, CalmAway DEF DeletionPCs
<1>2. CASE removeFinalizer
  <2>1. /\ fed' = NoFed /\ pc' \in {"idle", "removeManagedLabel"}
        /\ UNCHANGED <<fedStore, memberVars, queue>>
    BY <1>0, <1>2 DEF removeFinalizer, Goto, Finish, Leave
  <2>2. Exists(fedStore) => fed'.uid # fedStore.uid
    BY <2>1 DEF NoFed, Exists
  <2> QED BY <2>1, <2>2, CalmGone
<1>3. CASE removeManagedLabel
  <2>1. /\ pc = "removeManagedLabel" /\ pc' = "labelWait"
        /\ UNCHANGED <<fed, fedStore, memberVars, queue>>
    BY <1>3 DEF removeManagedLabel, Goto
  <2>2. fed.uid # fedStore.uid
    BY <2>1, CalmWorker DEF GoneWhileUnlabelling
  <2> QED BY <2>1, <2>2, CalmGone
<1>4. CASE deleteFromClusters \/ ensureRemovedOrUnmanaged
  <2>1. /\ pc' \in {"deleteWait", "checkWait"}
        /\ UNCHANGED <<fedStore, memberVars, queue>>
    BY <1>4 DEF deleteFromClusters, ensureRemovedOrUnmanaged, Goto
  <2> QED BY <2>1, CalmAway DEF DeletionPCs
<1> QED BY <1>1, <1>2, <1>3, <1>4

\* A wait that ends, in time or not, leaves the status of a wrong cluster telling.
LEMMA CalmWait ==
  ASSUME TypeOK, CalmInv, WaitEnds \/ WaitTimesOut
  PROVE  CalmInv'
<1> USE DEF hostVars, memberVars, waitVars, workerVars
<1> SUFFICES ASSUME Calm', queue' = {} PROVE CalmInv'
  BY CalmRetry DEF CalmInv
<1>0. ~Finish(TRUE)
  BY DEF Finish
<1>1. UNCHANGED <<fed, fedStore, memberVars>> /\ queue \subseteq queue'
  BY DEF WaitEnds, WaitTimesOut, Goto, Finish
<1>2. CASE pc = "syncWait"
  <2>1. pc' = "setFederatedStatus" /\ copy' = copy
    BY <1>2 DEF WaitEnds, WaitTimesOut, Goto
  <2>2. /\ AllSynced' /\ SyncTrails /\ WaitNoted /\ \A c \in Clusters : Wrong(c)' <=> Wrong(c)
    BY <1>1, CalmWorker
  <2>3. ASSUME NEW c \in Clusters, Wrong(c) PROVE statusMap'[c] \notin {OK, Absent}
    <3>1. Noted(c)
      BY <1>2, <2>2, <2>3 DEF WaitNoted
    <3>2. CASE WaitTimesOut
      BY <1>2, <3>1, <3>2 DEF WaitTimesOut, Noted
    <3>3. CASE WaitEnds
      <4>1. Live = {} /\ statusMap'[c] = Settled(statusMap[c])
        BY <1>2, <3>3 DEF WaitEnds
      <4>2. statusMap[c] \notin {OK, Absent, "CreationTimedOut", "UpdateTimedOut", "LabelRemovalTimedOut"}
        BY <3>1, <4>1 DEF Noted
      <4> QED BY <4>1, <4>2 DEF Settled, OK, Absent
    <3> QED BY <3>2, <3>3
  <2>4. SyncTrails'
    BY <1>1, <1>2, <2>1, <2>2 DEF SyncTrails, ReasonTrails, SyncPCs
  <2>5. StatusNoted'
    BY <2>2, <2>3 DEF StatusNoted
  <2> QED
    BY <2>1, <2>2, <2>4, <2>5 DEF CalmInv, IdleTold, GoneWhileUnlabelling, DispatchTrails, WaitNoted
<1>3. CASE pc \in {"deleteWait", "checkWait"}
  <2>1. pc' \in DeletionPCs
    BY <1>0, <1>3 DEF WaitEnds, WaitTimesOut, Goto, DeletionPCs
  <2> QED BY <1>1, <2>1, CalmAway
<1>4. CASE pc = "labelWait"
  <2>1. pc' = "idle"
    BY <1>4 DEF WaitEnds, WaitTimesOut, Finish, Leave
  <2>2. fed.uid # fedStore.uid
    BY <1>1, <1>4, CalmWorker DEF GoneWhileUnlabelling
  <2> QED BY <1>1, <2>1, <2>2, CalmGone
<1> QED BY <1>2, <1>3, <1>4 DEF WaitEnds, WaitTimesOut, Waits

\* How an operation ends: with a failure that is noted, in the operation it goes on
\* with, or well.
LEMMA OperationEnds ==
  ASSUME TypeOK, NEW o \in ops, o.late = 0, pc = "syncWait", clusterOperation(o) \/ OperationFails(o)
  PROVE  \/ /\ ops' = ops \ {o}
            /\ \E s \in {"Failed", "AlreadyExists", "ManagedLabelFalse"} :
                 statusMap' = [statusMap EXCEPT ![o.cluster] = s]
         \/ \E n \in Operation :
              /\ ops' = (ops \ {o}) \union {n} /\ n.cluster = o.cluster /\ n.late = 0
              /\ \/ o.kind = "create" /\ n.kind = "get" /\ statusMap' = statusMap
                 \/ /\ o.kind = "get" /\ n.kind = "update" /\ n.seen = obj[o.cluster]
                    /\ statusMap' = [statusMap EXCEPT ![o.cluster] = "UpdateTimedOut"]
         \/ /\ ops' = ops \ {o} /\ statusMap' = statusMap
            /\ \/ o.kind \in {"create", "update", "unlabel", "delete"} /\ Accepted(o) /\ Apply(o)
               \/ o.kind = "update" /\ o.seen.label = "true"
               \/ o.kind = "delete" /\ ~Accepted(o)
               \/ o.kind = "check"
<1>0. o \in Operation /\ o.cluster \in Clusters
  BY DEF TypeOK, Operation
<1>1. ASSUME NEW s, Fail(o, s)
      PROVE  ops' = ops \ {o} /\ statusMap' = [statusMap EXCEPT ![o.cluster] = s]
  BY <1>1 DEF Fail, Record
<1>2. Succeed(o) => ops' = ops \ {o} /\ statusMap' = statusMap
  BY DEF Succeed
<1>3. CASE Create(o)
  <2>1. [o EXCEPT !.kind = "get"] \in Operation
    BY <1>0 DEF Operation, OpKinds
  <2>2. /\ [o EXCEPT !.kind = "get"].cluster = o.cluster /\ [o EXCEPT !.kind = "get"].late = 0
        /\ [o EXCEPT !.kind = "get"].kind = "get"
    BY <1>0 DEF Operation
  <2> QED BY <1>2, <1>3, <2>1, <2>2 DEF Create, Retrieve
<1>4. CASE Adopt(o)
  <2> DEFINE n == [o EXCEPT !.kind = "update", !.seen = obj[o.cluster]]
  <2>1. n \in Operation
    BY <1>0 DEF Operation, OpKinds, TypeOK
  <2>2. n.cluster = o.cluster /\ n.late = 0 /\ n.kind = "update" /\ n.seen = obj[o.cluster]
    BY <1>0 DEF Operation
  <2>3. \/ Fail(o, "Failed")
        \/ ops' = ops \ {o} /\ Record(o, "AlreadyExists")
        \/ ops' = (ops \ {o}) \union {n} /\ Record(o, "UpdateTimedOut")
    BY <1>4 DEF Adopt
  <2>4. o.kind = "get"
    BY <1>4 DEF Adopt
  <2> HIDE DEF n
  <2> QED BY <1>1, <2>1, <2>2, <2>3, <2>4 DEF Record
<1>5. CASE Update(o)
  BY <1>1, <1>2, <1>5 DEF Update
<1>6. CASE Delete(o)
  BY <1>2, <1>6 DEF Delete
<1>7. CASE RemoveManagedLabel(o)
  BY <1>1, <1>2, <1>7 DEF RemoveManagedLabel
<1>8. CASE CheckRemovedOrUnlabeled(o)
  BY <1>1, <1>2, <1>8 DEF CheckRemovedOrUnlabeled
<1>9. CASE OperationFails(o)
  BY <1>1, <1>9 DEF OperationFails
<1> QED BY <1>3, <1>4, <1>5, <1>6, <1>7, <1>8, <1>9 DEF clusterOperation


\* An operation on a wrong cluster does not end well without an event.
LEMMA WrongFails ==
  ASSUME TypeOK, Quiet, NEW o \in ops, Effective(o),
         \/ o.kind \in {"create", "update", "unlabel", "delete"} /\ Accepted(o) /\ Apply(o)
         \/ o.kind = "update" /\ o.seen.label = "true"
         \/ o.kind = "delete" /\ ~Accepted(o)
         \/ o.kind = "check"
  PROVE  ~Wrong(o.cluster)
<1> DEFINE c == o.cluster
<1>1. c \in ready /\ c \in Clusters /\ obj[c] \in TargetObject
  BY DEF Effective, TypeOK
<1> SUFFICES ASSUME Wrong(c) PROVE FALSE
  OBVIOUS
<1>2. CASE c \in fedStore.placement
  <2>1. ~HasManagedLabel(obj[c])
    BY <1>1, <1>2 DEF Wrong
  <2>2. o.kind \in {"create", "update"} /\ Accepted(o) /\ Apply(o)
    BY <1>2 DEF Effective
  <2>3. PICK new \in TargetObject :
          /\ Write(c, new)
          /\ o.kind = "create" => new = Managed
          /\ o.kind = "update" => HasManagedLabel(new)
    BY <2>2, ApplyWrites
  <2>4. obj'[c] = new /\ HasManagedLabel(new)
    BY <1>1, <2>2, <2>3 DEF Write, TypeOK, Managed, HasManagedLabel
  <2> QED BY <1>1, <2>1, <2>4 DEF Quiet
<1>3. CASE c \notin fedStore.placement
  <2>1. HasManagedLabel(obj[c])
    BY <1>1, <1>3 DEF Wrong
  <2>2. o.kind \in {"unlabel", "delete"} /\ (o.kind = "delete" => ~obj[c].deleting)
    BY <1>3 DEF Effective
  <2>3. Accepted(o) /\ Apply(o)
    BY <2>1, <2>2 DEF Accepted, Present, HasManagedLabel
  <2>4. PICK new \in TargetObject :
          /\ Write(c, new)
          /\ o.kind = "unlabel" => ~HasManagedLabel(new)
          /\ o.kind = "delete" => new.deleting
    BY <2>3, ApplyWrites
  <2>5. obj'[c] = new /\ new # obj[c]
    BY <1>1, <2>1, <2>2, <2>4 DEF Write, TypeOK
  <2> QED BY <1>1, <2>1, <2>5 DEF Quiet
<1> QED BY <1>2, <1>3

LEMMA CalmOperation ==
  ASSUME TypeOK, CalmInv, NEW o \in ops, clusterOperation(o) \/ OperationFails(o)
  PROVE  CalmInv'
<1> SUFFICES ASSUME Calm' PROVE CalmInv'
  BY DEF CalmInv
<1> USE DEF hostVars, workerVars
<1>0. o \in Operation /\ o.cluster \in Clusters
  BY DEF TypeOK, Operation
<1>1. UNCHANGED <<fed, fedStore, ready, store, clusterEvent, queue, pc, copy>>
  BY DEF clusterOperation, Create, Adopt, Update, Delete, RemoveManagedLabel,
         CheckRemovedOrUnlabeled, OperationFails, OpUnchanged
<1>2. UNCHANGED <<obj, informer>> \/ \E new \in TargetObject : Write(o.cluster, new)
  <2>1. NoWrite \/ (Accepted(o) /\ Apply(o))
    BY DEF clusterOperation, Create, Adopt, Update, Delete, RemoveManagedLabel,
           CheckRemovedOrUnlabeled, OperationFails
  <2> QED BY <2>1, ApplyWrites DEF NoWrite
<1>3. \A d \in ready : informer'[d] # "stale"
  BY <1>1 DEF Calm, Pending
<1>4. \A d \in ready : informer[d] # "stale"
  BY <1>2, <1>3 DEF Write, TypeOK
<1>5. Calm
  BY <1>1, <1>4 DEF Calm, Pending
<1>6. AllSynced
  BY <1>5 DEF CalmInv
<1>7. Quiet /\ AllSynced'
  <2>1. CASE UNCHANGED <<obj, informer>>
    BY <1>1, <1>6, <2>1 DEF Quiet, AllSynced
  <2>2. ASSUME NEW new \in TargetObject, Write(o.cluster, new) PROVE Quiet /\ AllSynced'
    BY <1>0, <1>1, <1>3, <1>6, <2>2, QuietWrite
  <2> QED BY <1>2, <2>1, <2>2
<1>8. \A c \in Clusters : Wrong(c)' <=> Wrong(c)
  BY <1>1, <1>7, WrongKept
<1>9. Told' <=> Told
  BY <1>1, <1>8 DEF Told
<1>10. IdleTold' /\ GoneWhileUnlabelling' /\ SyncTrails' /\ DispatchTrails'
  BY <1>1, <1>5, <1>9 DEF CalmInv, IdleTold, GoneWhileUnlabelling, SyncTrails, ReasonTrails,
                          DispatchTrails
<1>11. pc # "syncWait" \/ o.late # 0 => statusMap' = statusMap
  BY DEF clusterOperation, Create, Retrieve, Adopt, Update, Delete, RemoveManagedLabel,
         CheckRemovedOrUnlabeled, OperationFails, Succeed, Fail, Record
<1>12. StatusNoted'
  BY <1>1, <1>5, <1>8, <1>11 DEF CalmInv, StatusNoted
<1>13. WaitNoted'
  <2> SUFFICES ASSUME pc = "syncWait"
               PROVE  /\ \A c \in Clusters : Wrong(c) => Noted(c)'
                      /\ \A n \in Live' : Effective(n)'
    BY <1>1, <1>8 DEF WaitNoted
  <2>1. /\ \A c \in Clusters : Wrong(c) => Noted(c)
        /\ \A n \in Live : Effective(n)
    BY <1>5 DEF CalmInv, WaitNoted
  <2>2. \A n \in Live : Effective(n)'
    BY <1>1, <1>7, <2>1, EffectiveKept
  <2>3. CASE o.late # 0
    <3>1. \/ ops' = ops \ {o}
          \/ ops' = (ops \ {o}) \union {[o EXCEPT !.kind = "get"]}
          \/ ops' = (ops \ {o}) \union {[o EXCEPT !.kind = "update", !.seen = obj[o.cluster]]}
      BY DEF clusterOperation, Create, Retrieve, Adopt, Update, Delete, RemoveManagedLabel,
             CheckRemovedOrUnlabeled, OperationFails, Succeed, Fail
    <3>2. /\ [o EXCEPT !.kind = "get"].late # 0
          /\ [o EXCEPT !.kind = "update", !.seen = obj[o.cluster]].late # 0
      BY <1>0, <2>3 DEF Operation
    <3>3. Live' = Live
      <4>1. ASSUME NEW n, n.late # 0, ops' = (ops \ {o}) \union {n} PROVE Live' = Live
        BY <2>3, <4>1 DEF Live
      <4>2. CASE ops' = ops \ {o}
        BY <2>3, <4>2 DEF Live
      <4> QED BY <3>1, <3>2, <4>1, <4>2
    <3> QED BY <1>11, <2>1, <2>2, <2>3, <3>3 DEF Noted
  <2>4. CASE o.late = 0
    <3>0. o \in Live /\ Effective(o)
      BY <2>1, <2>4 DEF Live
    <3>1. ASSUME NEW s, statusMap' = statusMap \/ statusMap' = [statusMap EXCEPT ![o.cluster] = s],
                 \A n \in Live : n # o => n \in Live'
          PROVE  \A c \in Clusters : c # o.cluster /\ Wrong(c) => Noted(c)'
      <4> SUFFICES ASSUME NEW c \in Clusters, c # o.cluster, Wrong(c) PROVE Noted(c)'
        OBVIOUS
      <4>1. Noted(c)
        BY <2>1
      <4>2. statusMap'[c] = statusMap[c]
        BY <1>0, <3>1 DEF TypeOK, StatusMap
      <4> QED BY <3>1, <4>1, <4>2 DEF Noted
    <3>2. CASE /\ ops' = ops \ {o}
               /\ \E s \in {"Failed", "AlreadyExists", "ManagedLabelFalse"} :
                    statusMap' = [statusMap EXCEPT ![o.cluster] = s]
      <4>1. Live' = Live \ {o}
        BY <3>2 DEF Live
      <4>2. statusMap'[o.cluster] \in {"Failed", "AlreadyExists", "ManagedLabelFalse"}
        BY <1>0, <3>2 DEF TypeOK, StatusMap
      <4>3. Noted(o.cluster)'
        BY <4>2 DEF Noted, OK, Absent
      <4>4. \A c \in Clusters : c # o.cluster /\ Wrong(c) => Noted(c)'
        BY <3>1, <3>2, <4>1
      <4> QED BY <1>1, <2>2, <4>1, <4>3, <4>4 DEF Noted
    <3>3. ASSUME NEW n \in Operation,
                 ops' = (ops \ {o}) \union {n}, n.cluster = o.cluster, n.late = 0,
                 \/ o.kind = "create" /\ n.kind = "get" /\ statusMap' = statusMap
                 \/ /\ o.kind = "get" /\ n.kind = "update" /\ n.seen = obj[o.cluster]
                    /\ statusMap' = [statusMap EXCEPT ![o.cluster] = "UpdateTimedOut"]
          PROVE  /\ \A c \in Clusters : Wrong(c) => Noted(c)'
                 /\ \A m \in Live' : Effective(m)'
      <4>1. Live' = (Live \ {o}) \union {n}
        BY <3>3 DEF Live
      <4>2. statusMap'[o.cluster] \in {statusMap[o.cluster], "UpdateTimedOut"}
        BY <1>0, <3>3 DEF TypeOK, StatusMap
      <4>3. Wrong(o.cluster) => Noted(o.cluster)'
        <5>1. \E m \in Live' : m.cluster = o.cluster
          BY <3>3, <4>1
        <5> QED BY <1>0, <2>1, <4>2, <5>1 DEF Noted, OK, Absent
      <4>4. \A c \in Clusters : c # o.cluster /\ Wrong(c) => Noted(c)'
        BY <3>1, <3>3, <4>1
      <4>5. o.cluster \in ready
        BY <3>0 DEF Effective
      <4>6. ASSUME Wrong(o.cluster)
            PROVE  o.cluster \in fedStore.placement /\ ~HasManagedLabel(obj[o.cluster])
        BY <3>0, <3>3, <4>5, <4>6 DEF Effective, Wrong
      <4>7. Effective(n)'
        <5>1. n.cluster \in ready' /\ n.kind \in {"get", "update"}
          BY <1>1, <3>3, <4>5
        <5>2. Wrong(n.cluster)' => Wrong(o.cluster)
          BY <1>0, <1>8, <3>3
        <5>3. Wrong(o.cluster) => n.cluster \in fedStore'.placement /\ (n.kind = "update" => n.seen.label # "true")
          BY <1>1, <3>3, <4>6 DEF HasManagedLabel
        <5> QED BY <5>1, <5>2, <5>3 DEF Effective
      <4> QED BY <2>2, <4>1, <4>3, <4>4, <4>7
    <3>4. CASE /\ ops' = ops \ {o} /\ statusMap' = statusMap
               /\ \/ o.kind \in {"create", "update", "unlabel", "delete"} /\ Accepted(o) /\ Apply(o)
                  \/ o.kind = "update" /\ o.seen.label = "true"
                  \/ o.kind = "delete" /\ ~Accepted(o)
                  \/ o.kind = "check"
      <4>1. Live' = Live \ {o}
        BY <3>4 DEF Live
      <4>2. ~Wrong(o.cluster)
        BY <1>7, <3>0, <3>4, WrongFails
      <4>3. \A c \in Clusters : c # o.cluster /\ Wrong(c) => Noted(c)'
        BY <3>1, <3>4, <4>1
      <4>4. ASSUME NEW c \in Clusters, Wrong(c) PROVE Noted(c)'
        BY <4>2, <4>3, <4>4
      <4> QED BY <2>2, <4>1, <4>4
    <3> QED BY <2>4, <3>2, <3>3, <3>4, OperationEnds
  <2> QED BY <2>3, <2>4
<1> QED BY <1>7, <1>10, <1>12, <1>13 DEF CalmInv

LEMMA TellInit == Init => TellInv
<1> SUFFICES ASSUME Init PROVE TellInv
  OBVIOUS
<1>1. MarkedHasFinalizer
  BY DEF Init, MarkedHasFinalizer, NoFed
<1>2. InformerInv
  BY DEF Init, InformerInv
<1>3. ~Exists(fedStore)
  BY DEF Init, NoFed, Exists
<1> QED BY <1>1, <1>2, <1>3 DEF TellInv, CalmInv, Calm

LEMMA TellStep == SafetyInv /\ TellInv /\ [Next]_vars => TellInv'
<1> SUFFICES ASSUME SafetyInv, TellInv, [Next]_vars PROVE TellInv'
  OBVIOUS
<1>0. /\ TypeOK /\ LifetimeInv /\ PhaseInv /\ Uids
      /\ MarkedHasFinalizer /\ InformerInv /\ CalmInv
  BY DEF SafetyInv, TellInv, LifetimeInv
<1>1. MarkedHasFinalizer' /\ InformerInv'
  BY <1>0, MarkedStep, InformerStep
<1>2. CalmInv'
  <2>1. CASE \/ \E p \in SUBSET Clusters, orphan \in BOOLEAN : UserCreates(p, orphan)
             \/ \E p \in SUBSET Clusters : UserMoves(p)
             \/ UserTogglesOrphaning \/ UserDeletes \/ UNCHANGED vars
    <3>1. UNCHANGED <<fedStore, memberVars, queue, workerVars, ops, waitVars>>
      BY <2>1 DEF UserCreates, UserMoves, UserTogglesOrphaning, UserDeletes, vars, hostVars,
                  memberVars, waitVars, workerVars
    <3> QED BY <1>0, <2>1, <3>1, CalmUser
  <2>2. CASE \E c \in Clusters : \/ MemberEdit(c) \/ CollectGarbage(c) \/ ClusterUnavailable(c)
                                 \/ ClusterAvailable(c) \/ TargetEvent(c)
    BY <1>0, <2>2, CalmMember
  <2>3. CASE FedEvent \/ reconcileOnClusterChange \/ Restart
    BY <2>3, CalmEvent
  <2>4. CASE \E k \in Keys : reconcile(k)
    BY <1>0, <2>4, CalmReconcile
  <2>5. CASE ensureFinalizer \/ syncToClusters \/ setFederatedStatus
    BY <1>0, <2>5, CalmFinalizer, CalmDispatch, CalmStatus
  <2>6. CASE \/ ensureDeletion \/ removeFinalizer \/ removeManagedLabel
             \/ deleteFromClusters \/ ensureRemovedOrUnmanaged
    BY <1>0, <2>6, CalmDeletion
  <2>7. CASE WaitEnds \/ WaitTimesOut
    BY <1>0, <2>7, CalmWait
  <2>8. CASE \E o \in ops : clusterOperation(o) \/ OperationFails(o)
    BY <1>0, <2>8, CalmOperation
  <2> QED BY <2>1, <2>2, <2>3, <2>4, <2>5, <2>6, <2>7, <2>8 DEF Next, Worker
<1> QED BY <1>1, <1>2 DEF TellInv

\* For every set of clusters and all bounds, timeouts and restarts included: when
\* nothing is left to do, a resource is not half deleted, and if a cluster is not what
\* its placement asks for, the reason of its status is CheckClusters.  syncToClusters
\* reports StatusAllOK whatever failed, and nothing retries a failed operation; the
\* status is what tells of it, unless an event of a labelled object is on its way.
THEOREM FailuresAreTold == Spec => []NoSilentFailure
<1>1. Init => SafetyInv /\ TellInv
  BY TypeInit, LifetimeInit, PhaseInit, TellInit DEF SafetyInv
<1>2. SafetyInv /\ TellInv /\ [Next]_vars => (SafetyInv /\ TellInv)'
  BY TypeStep, LifetimeStep, PhaseStep, TellStep DEF SafetyInv
<1>3. SafetyInv /\ TellInv => NoSilentFailure
  <2> SUFFICES ASSUME SafetyInv, TellInv, Quiescent, Exists(fed)
               PROVE  /\ ~(fed.deleting /\ fed.finalizer)
                      /\ (\E c \in ready : ~InPlace(c)) => fed.status.reason = "CheckClusters"
                      /\ ~(fed.placement \subseteq ready) => fed.status.reason = "CheckClusters"
    BY DEF NoSilentFailure
  <2>1. pc = "idle" /\ fedStore = fed /\ ~Pending
    BY DEF Quiescent, Pending
  <2>2. Told
    BY <2>1 DEF TellInv, CalmInv, Calm, IdleTold
  <2>3. fed.placement \subseteq Clusters /\ ready \subseteq Clusters
    BY DEF SafetyInv, TypeOK, FedResource
  <2>4. \A c \in ready : ~InPlace(c) => Wrong(c)
    BY <2>1 DEF InPlace, Wrong
  <2>5. \A c \in fed.placement : c \notin ready => Wrong(c)
    BY <2>1 DEF Wrong
  <2> QED BY <2>1, <2>2, <2>3, <2>4, <2>5 DEF Told
<1> QED BY <1>1, <1>2, <1>3, PTL DEF Spec
=============================================================================
