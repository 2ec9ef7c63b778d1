------------------------- MODULE VersionManagerProofs -------------------------
EXTENDS VersionManager, TLAPS, SequenceTheorems

-----------------------------------------------------------------------------
(* Types *)

LEMMA SpendType ==
  ASSUME used \in [Bounds -> Nat], NEW b \in Bounds, Spend(b)
  PROVE  used' \in [Bounds -> Nat] /\ used'[b] \in Nat \ {0}
BY DEF Spend

LEMMA EmptyTypes ==
  /\ NoVersions \in VersionMap /\ NoEntry \in Entry /\ Nothing \in PropagatedVersion
  /\ NoObj.version = 0 /\ ~NoObj.managed /\ NoObj.managed \in BOOLEAN
<1>1. NoVersions \in VersionMap
  BY DEF NoVersions, VersionMap
<1> QED BY <1>1 DEF NoEntry, Entry, Nothing, PropagatedVersion, ResourceVersions, NoObj

LEMMA StoredType ==
  ASSUME TypeOK, NEW c \in Clusters, NEW t \in Templates, NEW m \in BOOLEAN
  PROVE  Stored(c, t, m) \in Object
<1>1. obj[c] \in Object \union {NoObj} /\ Len(log[c]) \in Nat
  BY DEF TypeOK
<1>2. NextVersion(c, t) \in Nat \ {0}
  BY <1>1 DEF NextVersion, Object, NoObj, Present
<1>3. CASE Same(obj[c], t, m)
  BY <1>1, <1>3 DEF Stored, Same, Present, NoObj
<1>4. CASE ~Same(obj[c], t, m)
  BY <1>2, <1>4 DEF Stored, Object
<1> QED BY <1>3, <1>4

LEMMA WriteType ==
  ASSUME TypeOK, NEW c \in Clusters, NEW o \in Object \union {NoObj}, Write(c, o)
  PROVE  /\ obj' \in [Clusters -> Object \union {NoObj}]
         /\ log' \in [Clusters -> Seq([content: Templates, managed: BOOLEAN])]
         /\ lag' \subseteq Clusters /\ store' = store
         /\ obj'[c] = o
<1>1. obj' \in [Clusters -> Object \union {NoObj}] /\ obj'[c] = o
  BY DEF TypeOK, Write
<1>2. CASE Present(o)
  <2>1. o \in Object
    BY <1>2, EmptyTypes DEF Present
  <2> DEFINE e == [content |-> o.content, managed |-> o.managed]
             S == [content: Templates, managed: BOOLEAN]
  <2>2. e \in S
    BY <2>1 DEF Object
  <2>3. log \in [Clusters -> Seq(S)]
    BY DEF TypeOK
  <2>4. log' = log \/ log' = [log EXCEPT ![c] = Append(log[c], e)]
    BY DEF Write
  <2> HIDE DEF e, S
  <2>5. Append(log[c], e) \in Seq(S)
    BY <2>2, <2>3
  <2>6. log' \in [Clusters -> Seq(S)]
    BY <2>3, <2>4, <2>5
  <2> QED BY <1>1, <2>6 DEF TypeOK, Write, S
<1>3. CASE ~Present(o)
  BY <1>1, <1>3 DEF TypeOK, Write
<1> QED BY <1>2, <1>3

LEMMA TypeInit == Init => TypeOK
<1> SUFFICES ASSUME Init PROVE TypeOK
  OBVIOUS
<1>1. obj \in [Clusters -> Object \union {NoObj}]
  BY DEF Init
<1>2. store \in [Clusters -> {o \in Object : o.managed} \union {NoObj}]
  BY DEF Init
<1>3. log \in [Clusters -> Seq([content: Templates, managed: BOOLEAN])]
  BY DEF Init
<1>4. used \in [Bounds -> Nat]
  BY DEF Init
<1> QED BY <1>1, <1>2, <1>3, <1>4, EmptyTypes DEF Init, TypeOK, ResourceVersions, WritePCs

LEMMA TypeUser == TypeOK /\ UserNext => TypeOK'
<1> SUFFICES ASSUME TypeOK, UserNext PROVE TypeOK'
  OBVIOUS
<1> USE DEF memberVars, managerVars, workerVars
<1>0. used \in [Bounds -> Nat]
  BY DEF TypeOK
<1>1. ASSUME NEW t \in Templates, NEW p \in SUBSET Clusters, UserCreates(t, p)
      PROVE  TypeOK'
  <2>1. used' \in [Bounds -> Nat] /\ used'["resources"] \in Nat \ {0}
    BY <1>0, <1>1, SpendType DEF UserCreates, Bounds
  <2>2. fed' \in FedResource
    BY <1>1, <2>1 DEF UserCreates, FedResource
  <2> QED BY <1>1, <2>1, <2>2 DEF UserCreates, TypeOK
<1>2. ASSUME NEW t \in Templates, NEW p \in SUBSET Clusters, UserEdits(t, p)
      PROVE  TypeOK'
  <2>1. used' \in [Bounds -> Nat]
    BY <1>0, <1>2, SpendType DEF UserEdits, Bounds
  <2>2. fed \in FedResource
    BY <1>2 DEF UserEdits, TypeOK, Exists, NoFed
  <2>3. fed' \in FedResource
    BY <1>2, <2>2 DEF UserEdits, FedResource
  <2> QED BY <1>2, <2>1, <2>3 DEF UserEdits, TypeOK
<1>3. CASE UserDeletes
  <2>1. fed \in FedResource
    BY <1>3 DEF UserDeletes, TypeOK, Exists, NoFed
  <2>2. fed' \in FedResource
    BY <1>3, <2>1 DEF UserDeletes, FedResource
  <2> QED BY <1>3, <2>2 DEF UserDeletes, TypeOK
<1>4. ASSUME NEW c \in Clusters, MemberEdit(c) PROVE TypeOK'
  <2>1. used' \in [Bounds -> Nat]
    BY <1>0, <1>4, SpendType DEF MemberEdit, Bounds
  <2>0. obj[c] \in Object \union {NoObj}
    BY DEF TypeOK
  <2>2. obj[c].managed \in BOOLEAN
    <3>1. CASE obj[c] \in Object
      BY <3>1 DEF Object
    <3>2. CASE obj[c] = NoObj
      BY <3>2, EmptyTypes
    <3> QED BY <2>0, <3>1, <3>2
  <2>3. \E o \in Object \union {NoObj} : Write(c, o)
    <3>1. CASE \E t \in Templates : Write(c, Stored(c, t, obj[c].managed))
      BY <2>2, <3>1, StoredType
    <3>2. CASE Present(obj[c]) /\ Write(c, Stored(c, obj[c].content, FALSE))
      <4>1. obj[c].content \in Templates
        BY <2>0, <3>2, EmptyTypes DEF Present, Object
      <4> QED BY <3>2, <4>1, StoredType
    <3> QED BY <1>4, <3>1, <3>2 DEF MemberEdit
  <2> QED BY <1>4, <2>1, <2>3, WriteType DEF MemberEdit, TypeOK
<1> QED BY <1>1, <1>2, <1>3, <1>4 DEF UserNext

LEMMA OperationType ==
  ASSUME TypeOK, NEW op \in ops, clusterOperation(op)
  PROVE  TypeOK'
<1> USE DEF memberVars, managerVars, workerVars
<1> DEFINE c == op.cluster
<1>0. /\ op \in Operation /\ c \in Clusters /\ op.template \in Templates
      /\ op.seen \in Object \union {NoObj} /\ op.late \in Nat
      /\ obj[c] \in Object \union {NoObj}
  BY DEF TypeOK, Operation
<1>w. ASSUME NEW o \in Object \union {NoObj}, Write(c, o),
             ops' = ops \ {op},
             Record(op, obj'[c].version) \/ UNCHANGED recorded
      PROVE  TypeOK'
  <2>1. /\ obj' \in [Clusters -> Object \union {NoObj}]
        /\ log' \in [Clusters -> Seq([content: Templates, managed: BOOLEAN])]
        /\ lag' \subseteq Clusters /\ store' = store /\ obj'[c] = o
    BY <1>0, <1>w, WriteType
  <2>2. obj'[c].version \in Nat
    BY <2>1, EmptyTypes DEF Object
  <2>3. recorded' \in VersionMap
    BY <1>w, <2>2 DEF Record, TypeOK, VersionMap
  <2> QED BY <1>w, <2>1, <2>3 DEF clusterOperation, TypeOK
<1>1. CASE Create(op)
  <2>1. CASE Present(obj[c])
    <3>1. [op EXCEPT !.kind = "update", !.seen = obj[c]] \in Operation
      BY <1>0 DEF Operation
    <3> QED BY <1>1, <2>1, <3>1 DEF Create, clusterOperation, TypeOK
  <2>2. CASE ~Present(obj[c])
    <3>1. Stored(c, op.template, TRUE) \in Object
      BY <1>0, StoredType
    <3> QED BY <1>1, <2>2, <3>1, <1>w DEF Create
  <2> QED BY <2>1, <2>2
<1>2. CASE Update(op)
  <2>1. [op EXCEPT !.kind = "put"] \in Operation
    BY <1>0 DEF Operation
  <2> QED BY <1>2, <2>1 DEF Update, clusterOperation, TypeOK
<1>3. CASE Put(op)
  <2>1. Stored(c, op.template, TRUE) \in Object
    BY <1>0, StoredType
  <2>2. CASE obj[c] = op.seen
    BY <1>3, <2>1, <2>2, <1>w DEF Put
  <2>3. CASE obj[c] # op.seen
    BY <1>3, <2>3 DEF Put, clusterOperation, TypeOK
  <2> QED BY <2>2, <2>3
<1>4. CASE DeleteObject(op)
  BY <1>4, <1>w DEF DeleteObject
<1> QED BY <1>1, <1>2, <1>3, <1>4 DEF clusterOperation

LEMMA NewEntryType ==
  ASSUME TypeOK
  PROVE  NewEntry \in Entry
<1>1. Get(copy.template) \in VersionMap
  BY EmptyTypes DEF TypeOK, Get, Entry
<1>2. updateClusterVersions(Get(copy.template)) \in VersionMap
  BY <1>1 DEF TypeOK, updateClusterVersions, VersionMap
<1>3. copy.uid \in Nat /\ copy.template \in Templates \union {NoTemplate}
  BY DEF TypeOK, FedResource, NoFed
<1> QED BY <1>2, <1>3 DEF TypeOK, NewEntry, UpdatedEntry, Entry

LEMMA UpdateVersionsType ==
  ASSUME TypeOK, UpdateVersions
  PROVE  /\ versions' \in Entry /\ recorded' \in VersionMap
         /\ copy' \in FedResource \union {NoFed} /\ known' \in ResourceVersions
         /\ pc' \in {"idle", "wait"} \union WritePCs
BY NewEntryType, EmptyTypes
   DEF TypeOK, UpdateVersions, Leave, Entry, ResourceVersions, WritePCs

LEMMA TypeWorker == TypeOK /\ WorkerNext => TypeOK'
<1> SUFFICES ASSUME TypeOK, WorkerNext PROVE TypeOK'
  OBVIOUS
<1> USE DEF memberVars, managerVars, workerVars
<1>1. CASE syncToClusters
  <2>1. fed \in FedResource
    BY <1>1 DEF syncToClusters, TypeOK, Exists, NoFed
  <2>2. \A c \in Clusters : NewOp(c) \in Operation
    BY <2>1 DEF NewOp, Operation, TypeOK, FedResource
  <2>3. \A op \in ops' : op \in Operation
    BY <1>1, <2>2 DEF syncToClusters, TypeOK
  <2> QED BY <1>1, <2>3, EmptyTypes DEF syncToClusters, TypeOK
<1>2. CASE ensureDeletion
  <2>1. obj' \in [Clusters -> Object \union {NoObj}]
    BY <1>2 DEF ensureDeletion, TypeOK
  <2> QED BY <1>2, <2>1, EmptyTypes DEF ensureDeletion, Delete, TypeOK
<1>3. CASE reconcileNothing
  BY <1>3 DEF reconcileNothing, TypeOK
<1>4. CASE WaitEnds
  BY <1>4, UpdateVersionsType DEF WaitEnds, TypeOK
<1>5. CASE WaitTimesOut
  <2>1. used' \in [Bounds -> Nat] /\ used'["timeouts"] \in Nat
    BY <1>5, SpendType DEF WaitTimesOut, TypeOK, Bounds
  <2>2. \A op \in Waiting : [op EXCEPT !.late = used'["timeouts"]] \in Operation
    BY <2>1 DEF Waiting, Operation, TypeOK
  <2>3. \A op \in ops' : op \in Operation
    BY <1>5, <2>2 DEF WaitTimesOut, TypeOK
  <2> QED BY <1>5, <2>1, <2>3, UpdateVersionsType DEF WaitTimesOut, TypeOK
<1>6. CASE createVersion
  <2>1. versions' \in Entry
    BY <1>6 DEF createVersion, TypeOK, Entry, ResourceVersions
  <2>2. persisted' \in PropagatedVersion
    BY <1>6, EmptyTypes DEF createVersion, TypeOK, Entry, PropagatedVersion
  <2> QED BY <1>6, <2>1, <2>2 DEF createVersion, TypeOK, WritePCs, ResourceVersions
<1>7. CASE updateVersionStatus
  <2>1. versions' \in Entry
    BY <1>7 DEF updateVersionStatus, TypeOK, Entry, ResourceVersions
  <2>2. persisted' \in PropagatedVersion
    BY <1>7 DEF updateVersionStatus, TypeOK, Entry, PropagatedVersion
  <2> QED BY <1>7, <2>1, <2>2
          DEF updateVersionStatus, TypeOK, Leave, WritePCs, ResourceVersions
<1>8. CASE refreshVersion
  BY <1>8 DEF refreshVersion, TypeOK, WritePCs, ResourceVersions
<1>9. CASE writeVersionFails
  <2>1. used' \in [Bounds -> Nat]
    BY <1>9, SpendType DEF writeVersionFails, TypeOK, Bounds
  <2> QED BY <1>9, <2>1 DEF writeVersionFails, TypeOK, Leave, ResourceVersions
<1> QED BY <1>1, <1>2, <1>3, <1>4, <1>5, <1>6, <1>7, <1>8, <1>9 DEF WorkerNext

LEMMA TypeStep == TypeOK /\ [Next]_vars => TypeOK'
<1> SUFFICES ASSUME TypeOK, [Next]_vars PROVE TypeOK'
  OBVIOUS
<1> USE DEF memberVars, managerVars, workerVars
<1>1. CASE UNCHANGED vars
  BY <1>1 DEF vars, TypeOK
<1>2. ASSUME NEW c \in Clusters, TargetEvent(c) PROVE TypeOK'
  <2>1. Cached(obj[c]) \in {o \in Object : o.managed} \union {NoObj}
    BY EmptyTypes DEF TypeOK, Cached
  <2> QED BY <1>2, <2>1 DEF TargetEvent, TypeOK
<1>3. CASE ForeignWrite
  <2>1. used' \in [Bounds -> Nat]
    BY <1>3, SpendType DEF ForeignWrite, TypeOK, Bounds
  <2>2. versions' \in Entry
    BY <1>3 DEF ForeignWrite, TypeOK, Entry, Outdated, ResourceVersions
  <2> QED BY <1>3, <2>1, <2>2 DEF ForeignWrite, TypeOK, Outdated, ResourceVersions
<1>4. CASE GarbageCollect
  BY <1>4, EmptyTypes DEF GarbageCollect, TypeOK
<1>5. CASE Restart
  <2>1. used' \in [Bounds -> Nat]
    BY <1>5, SpendType DEF Restart, TypeOK, Bounds
  <2> QED BY <1>5, <2>1, EmptyTypes DEF Restart, TypeOK, ResourceVersions
<1>6. CASE Sync
  <2>1. \A c \in Clusters : Cached(obj[c]) \in {o \in Object : o.managed} \union {NoObj}
    BY EmptyTypes DEF TypeOK, Cached
  <2>2. load \in Entry
    BY EmptyTypes DEF load, TypeOK, Entry, PropagatedVersion, ResourceVersions
  <2> QED BY <1>6, <2>1, <2>2 DEF Sync, TypeOK
<1> QED
  BY <1>1, <1>2, <1>3, <1>4, <1>5, <1>6, TypeUser, TypeWorker, OperationType DEF Next

\* The type invariant: whatever is edited, fails or restarts, every variable of
\* the manager, the worker and the member clusters keeps its type, and the
\* target stores only ever hold labelled objects.
THEOREM VersionTypeCorrect == Spec => []TypeOK
<1> QED BY TypeInit, TypeStep, PTL DEF Spec

-----------------------------------------------------------------------------
(* Resource versions identify what was written *)

\* An object is what the log says of its version.
Logged(l, o) ==
  Present(o) => /\ o.version \in 1..Len(l)
                /\ l[o.version] = [content |-> o.content, managed |-> o.managed]
\* A recorded version is one at which the object was labelled and had the
\* content of the template.
Sound(l, t, v) ==
  v # 0 => /\ v \in 1..Len(l)
           /\ l[v] = [content |-> t, managed |-> TRUE]
SoundMap(t, map) == \A c \in Clusters : Sound(log[c], t, map[c])

\* The inductive invariant: every copy of an object agrees with the log, and so
\* does every recorded version, in memory, persisted or on its way there.
ObjectsLogged ==
  \A c \in Clusters : Logged(log[c], obj[c]) /\ Logged(log[c], store[c])
OperationsLogged ==
  \A op \in ops :
    /\ Logged(log[op.cluster], op.seen)
    /\ op.kind = "update" => Present(op.seen)
    /\ op.late = 0 => pc = "wait" /\ op.template = copy.template
RecordedInWait == pc # "wait" => recorded = NoVersions
RevisionInv ==
  /\ TypeOK /\ ObjectsLogged /\ OperationsLogged /\ RecordedInWait
  /\ SoundMap(versions.template, versions.map)
  /\ SoundMap(persisted.template, persisted.map)
  /\ SoundMap(copy.template, recorded)

Grows ==
  \A c \in Clusters :
    Len(log[c]) <= Len(log[c]') /\ \A i \in 1..Len(log[c]) : log[c]'[i] = log[c][i]

\* What the log says stays true.
LEMMA GrowsKeeps ==
  ASSUME TypeOK, TypeOK', Grows, NEW c \in Clusters
  PROVE  /\ \A o : Logged(log[c], o) => Logged(log[c]', o)
         /\ \A t, v : Sound(log[c], t, v) => Sound(log[c]', t, v)
<1>1. Len(log[c]) \in Nat /\ Len(log[c]') \in Nat
  BY DEF TypeOK
<1> QED BY <1>1 DEF Grows, Logged, Sound

LEMMA MapsKept ==
  ASSUME TypeOK, TypeOK', Grows, NEW t, NEW map, SoundMap(t, map)
  PROVE  \A c \in Clusters : Sound(log[c]', t, map[c])
BY GrowsKeeps DEF SoundMap

LEMMA NothingSound ==
  \A l, t : /\ Sound(l, t, 0) /\ Logged(l, NoObj)
            /\ \A c \in Clusters : Sound(l, t, NoVersions[c])
BY EmptyTypes DEF Sound, Logged, Present, NoVersions

\* A write of a cluster's object extends its log by what is written.
LEMMA WriteLogged ==
  ASSUME HasGeneration = FALSE, TypeOK, NEW c \in Clusters, Logged(log[c], obj[c]),
         NEW t \in Templates, NEW m \in BOOLEAN,
         Write(c, Stored(c, t, m))
  PROVE  /\ Grows /\ obj'[c] = Stored(c, t, m) /\ Logged(log[c]', obj'[c])
         /\ obj'[c].content = t /\ obj'[c].managed = m
         /\ \A d \in Clusters \ {c} : obj'[d] = obj[d] /\ log'[d] = log[d]
         /\ m = TRUE => Sound(log[c]', t, obj'[c].version)
<1> DEFINE o == Stored(c, t, m)
           e == [content |-> t, managed |-> m]
           S == [content: Templates, managed: BOOLEAN]
<1>1. o \in Object
  BY StoredType
<1>2. log \in [Clusters -> Seq(S)] /\ obj \in [Clusters -> Object \union {NoObj}]
  BY DEF TypeOK
<1>3. e \in S
  OBVIOUS
<1>4. obj' = [obj EXCEPT ![c] = o]
  BY DEF Write
<1>5. Present(o)
  BY <1>1 DEF Present, Object
<1>6. CASE Same(obj[c], t, m)
  <2>1. o = obj[c] /\ o.content = t /\ o.managed = m
    BY <1>6 DEF Stored, Same
  <2>2. log' = log
    BY <2>1 DEF Write
  <2>3. Grows
    BY <1>2, <2>2 DEF Grows
  <2> QED BY <1>2, <1>4, <1>5, <2>1, <2>2, <2>3 DEF Logged, Sound, Present
<1>7. CASE ~Same(obj[c], t, m)
  <2>1. o = [content |-> t, managed |-> m, version |-> Len(log[c]) + 1]
    BY <1>7 DEF Stored, NextVersion
  <2>2. o # obj[c]
    BY <1>5, <1>7, <2>1 DEF Same, Present
  <2>3. log' = [log EXCEPT ![c] = Append(log[c], e)]
    BY <1>5, <2>1, <2>2 DEF Write
  <2> HIDE DEF e, S
  <2>4. /\ log'[c] = Append(log[c], e) /\ Len(log[c]) \in Nat
        /\ Len(log'[c]) = Len(log[c]) + 1 /\ log'[c][Len(log[c]) + 1] = e
        /\ \A i \in 1..Len(log[c]) : log'[c][i] = log[c][i]
        /\ \A d \in Clusters \ {c} : log'[d] = log[d] /\ Len(log[d]) \in Nat
    BY <1>2, <1>3, <2>3
  <2>5. Grows
    BY <2>4 DEF Grows
  <2>6. obj'[c] = o /\ \A d \in Clusters \ {c} : obj'[d] = obj[d]
    BY <1>2, <1>4
  <2>7. /\ o.content = t /\ o.managed = m /\ o.version = Len(log[c]) + 1
        /\ o.version \in 1..Len(log'[c]) /\ log'[c][o.version] = e
    BY <2>1, <2>4
  <2>8. Logged(log[c]', o)
    BY <2>7 DEF Logged, e
  <2>9. m = TRUE => Sound(log[c]', t, o.version)
    BY <2>7 DEF Sound, e
  <2> HIDE DEF o
  <2> QED BY <2>4, <2>5, <2>6, <2>7, <2>8, <2>9 DEF o
<1> QED BY <1>6, <1>7

LEMMA RevisionInit == Init => RevisionInv
<1> SUFFICES ASSUME Init PROVE RevisionInv
  OBVIOUS
<1>1. TypeOK
  BY TypeInit
<1>2. \A c \in Clusters : obj[c] = NoObj /\ store[c] = NoObj
  BY DEF Init
<1>3. /\ versions.map = NoVersions /\ persisted.map = NoVersions
      /\ recorded = NoVersions /\ ops = {}
  BY DEF Init, NoEntry, Nothing
<1> QED BY <1>1, <1>2, <1>3, NothingSound DEF RevisionInv, ObjectsLogged, OperationsLogged, RecordedInWait, SoundMap

\* A step that writes no object and changes neither operations nor versions.
LEMMA RevisionFrame ==
  ASSUME RevisionInv, TypeOK',
         UNCHANGED <<obj, log, store, versions, persisted, copy, recorded, ops, pc>>
  PROVE  RevisionInv'
BY DEF RevisionInv, ObjectsLogged, OperationsLogged, RecordedInWait, SoundMap

\* A write, by whomever, of an object that keeps the rest as it is.
LEMMA RevisionWrite ==
  ASSUME HasGeneration = FALSE, RevisionInv, TypeOK', NEW c \in Clusters,
         \/ Write(c, NoObj)
         \/ \E t \in Templates, m \in BOOLEAN : Write(c, Stored(c, t, m))
  PROVE  /\ Grows
         /\ \A d \in Clusters : Logged(log[d]', obj'[d]) /\ Logged(log[d]', store'[d])
<1>0. TypeOK /\ \A d \in Clusters : Logged(log[d], obj[d]) /\ Logged(log[d], store[d])
  BY DEF RevisionInv, ObjectsLogged, OperationsLogged, RecordedInWait
<1>1. CASE Write(c, NoObj)
  <2>1. log' = log /\ store' = store
    BY <1>1, EmptyTypes DEF Write, Present
  <2>2. obj' = [obj EXCEPT ![c] = NoObj] /\ obj \in [Clusters -> Object \union {NoObj}]
    BY <1>0, <1>1 DEF Write, TypeOK
  <2>3. Grows
    BY <1>0, <2>1 DEF Grows, TypeOK
  <2>4. \A d \in Clusters : obj'[d] = NoObj \/ obj'[d] = obj[d]
    BY <2>2
  <2> QED BY <1>0, <2>1, <2>3, <2>4, NothingSound
<1>2. CASE \E t \in Templates, m \in BOOLEAN : Write(c, Stored(c, t, m))
  <2>1. PICK t \in Templates, m \in BOOLEAN : Write(c, Stored(c, t, m))
    BY <1>2
  <2>2. /\ Grows /\ Logged(log[c]', obj'[c])
        /\ \A d \in Clusters \ {c} : obj'[d] = obj[d] /\ log'[d] = log[d]
    BY <1>0, <2>1, WriteLogged
  <2>3. store' = store
    BY <2>1 DEF Write
  <2>4. \A d \in Clusters : Logged(log[d]', store[d])
    BY <1>0, <2>2, GrowsKeeps
  <2> QED BY <1>0, <2>2, <2>3, <2>4
<1> QED BY <1>1, <1>2

\* What remains to be shown of a step that only extends the logs.
LEMMA RevisionGrows ==
  ASSUME RevisionInv, TypeOK', Grows,
         \A c \in Clusters : Logged(log[c]', obj'[c]) /\ Logged(log[c]', store'[c]),
         ops' \subseteq ops, UNCHANGED <<versions, persisted, copy, pc>>,
         \/ UNCHANGED recorded
         \/ /\ pc = "wait"
            /\ \A c \in Clusters : Sound(log[c]', copy.template, recorded'[c])
  PROVE  RevisionInv'
<1>0. TypeOK
  BY DEF RevisionInv, ObjectsLogged, OperationsLogged, RecordedInWait
<1>1. \A op \in ops' : /\ Logged(log[op.cluster]', op.seen)
                       /\ op.kind = "update" => Present(op.seen)
                       /\ op.late = 0 => pc' = "wait" /\ op.template = copy'.template
  <2> SUFFICES ASSUME NEW op \in ops'
               PROVE  /\ Logged(log[op.cluster]', op.seen)
                      /\ op.kind = "update" => Present(op.seen)
                      /\ op.late = 0 => pc' = "wait" /\ op.template = copy'.template
    OBVIOUS
  <2>1. op \in ops /\ op.cluster \in Clusters
    BY <1>0 DEF TypeOK, Operation
  <2>2. /\ Logged(log[op.cluster], op.seen)
        /\ op.kind = "update" => Present(op.seen)
        /\ op.late = 0 => pc = "wait" /\ op.template = copy.template
    BY <2>1 DEF RevisionInv, OperationsLogged
  <2>3. Logged(log[op.cluster]', op.seen)
    BY <1>0, <2>1, <2>2, GrowsKeeps
  <2> QED BY <2>2, <2>3
<1>2. /\ \A c \in Clusters : Sound(log[c]', versions.template, versions.map[c])
      /\ \A c \in Clusters : Sound(log[c]', persisted.template, persisted.map[c])
      /\ \A c \in Clusters : Sound(log[c]', copy.template, recorded[c])
  BY <1>0, MapsKept DEF RevisionInv, ObjectsLogged, OperationsLogged, RecordedInWait
<1>3. /\ SoundMap(versions.template, versions.map)'
      /\ SoundMap(persisted.template, persisted.map)'
  BY <1>2 DEF SoundMap
<1>4. SoundMap(copy.template, recorded)'
  BY <1>2 DEF SoundMap
<1>5. ObjectsLogged'
  BY DEF ObjectsLogged
<1>6. OperationsLogged'
  BY <1>1 DEF OperationsLogged
<1>7. RecordedInWait'
  BY DEF RevisionInv, RecordedInWait
<1> QED BY <1>3, <1>4, <1>5, <1>6, <1>7 DEF RevisionInv

LEMMA RevisionOperation ==
  ASSUME HasGeneration = FALSE, RevisionInv, TypeOK', NEW op \in ops,
         clusterOperation(op)
  PROVE  RevisionInv'
<1> USE DEF memberVars, managerVars, workerVars
<1> DEFINE c == op.cluster
<1>t. /\ TypeOK /\ op \in Operation /\ c \in Clusters /\ op.template \in Templates
      /\ recorded \in [Clusters -> Nat]
  BY DEF RevisionInv, TypeOK, Operation, VersionMap
<1>l. /\ Logged(log[c], op.seen) /\ Logged(log[c], obj[c])
      /\ op.late = 0 => pc = "wait" /\ op.template = copy.template
  BY <1>t DEF RevisionInv, ObjectsLogged, OperationsLogged, RecordedInWait
<1>0. /\ TypeOK /\ op \in Operation /\ c \in Clusters /\ op.template \in Templates
      /\ Logged(log[c], op.seen) /\ Logged(log[c], obj[c])
      /\ op.late = 0 => pc = "wait" /\ op.template = copy.template
      /\ SoundMap(copy.template, recorded) /\ recorded \in [Clusters -> Nat]
  BY <1>t, <1>l DEF RevisionInv
<1>p. UNCHANGED <<versions, persisted, copy, pc>>
  BY DEF clusterOperation
\* An operation that becomes another one.
<1>o. ASSUME NEW op2, ops' = (ops \ {op}) \union {op2}, op2.cluster = c,
             op2.late = op.late, op2.template = op.template,
             Logged(log[c], op2.seen), op2.kind = "update" => Present(op2.seen),
             UNCHANGED <<memberVars, recorded>>
      PROVE  RevisionInv'
  <2>1. \A x \in ops' : /\ Logged(log[x.cluster], x.seen)
                        /\ x.kind = "update" => Present(x.seen)
                        /\ x.late = 0 => pc = "wait" /\ x.template = copy.template
    BY <1>0, <1>o DEF RevisionInv, ObjectsLogged, OperationsLogged, RecordedInWait
  <2> QED BY <1>o, <1>p, <2>1 DEF RevisionInv, ObjectsLogged, OperationsLogged, RecordedInWait, SoundMap
\* An operation that writes what it is to propagate.
<1>w. ASSUME Write(c, Stored(c, op.template, TRUE)), Record(op, obj'[c].version),
             ops' = ops \ {op}
      PROVE  RevisionInv'
  <2>1. /\ Grows
        /\ \A d \in Clusters : Logged(log[d]', obj'[d]) /\ Logged(log[d]', store'[d])
    BY <1>0, <1>w, RevisionWrite
  <2>2. Sound(log[c]', op.template, obj'[c].version)
    BY <1>0, <1>w, WriteLogged
  <2>3. \A d \in Clusters : Sound(log[d]', copy.template, recorded[d])
    BY <1>0, <2>1, MapsKept
  <2>4. \A d \in Clusters : Sound(log[d]', copy.template, recorded'[d])
    BY <1>0, <1>w, <2>2, <2>3 DEF Record
  <2>5. UNCHANGED recorded \/ pc = "wait"
    BY <1>0, <1>w DEF Record
  <2> QED BY <1>p, <1>w, <2>1, <2>4, <2>5, RevisionGrows
<1>1. CASE Create(op)
  <2>1. CASE Present(obj[c])
    <3> DEFINE op2 == [op EXCEPT !.kind = "update", !.seen = obj[c]]
    <3>1. /\ ops' = (ops \ {op}) \union {op2} /\ UNCHANGED <<memberVars, recorded>>
          /\ op2.cluster = c /\ op2.late = op.late /\ op2.template = op.template
          /\ op2.seen = obj[c] /\ op2.kind = "update"
      BY <1>0, <1>1, <2>1 DEF Create, Operation
    <3> HIDE DEF op2
    <3> QED BY <1>0, <2>1, <3>1, <1>o
  <2>2. CASE ~Present(obj[c])
    BY <1>1, <2>2, <1>w DEF Create
  <2> QED BY <2>1, <2>2
<1>2. CASE Update(op)
  <2> DEFINE op2 == [op EXCEPT !.kind = "put"]
  <2>1. /\ ops' = ops \ {op} \/ ops' = (ops \ {op}) \union {op2}
        /\ UNCHANGED <<memberVars, recorded>>
        /\ op2.cluster = c /\ op2.late = op.late /\ op2.template = op.template
        /\ op2.seen = op.seen /\ op2.kind = "put"
    BY <1>0, <1>2 DEF Update, Operation
  <2> HIDE DEF op2
  <2>2. CASE ops' = (ops \ {op}) \union {op2}
    BY <1>0, <2>1, <2>2, <1>o
  <2>3. CASE ops' = ops \ {op}
    BY <1>p, <2>1, <2>3 DEF RevisionInv, ObjectsLogged, OperationsLogged, RecordedInWait, SoundMap
  <2> QED BY <2>1, <2>2, <2>3
<1>3. CASE Put(op)
  <2>1. CASE obj[c] = op.seen
    BY <1>3, <2>1, <1>w DEF Put
  <2>2. CASE obj[c] # op.seen
    BY <1>3, <1>p, <2>2 DEF Put, RevisionInv, ObjectsLogged, OperationsLogged, RecordedInWait, SoundMap
  <2> QED BY <2>1, <2>2
<1>4. CASE DeleteObject(op)
  <2>1. /\ Grows
        /\ \A d \in Clusters : Logged(log[d]', obj'[d]) /\ Logged(log[d]', store'[d])
    BY <1>0, <1>4, RevisionWrite DEF DeleteObject
  <2> QED BY <1>4, <1>p, <2>1, RevisionGrows DEF DeleteObject
<1> QED BY <1>1, <1>2, <1>3, <1>4 DEF clusterOperation

\* The entry the manager keeps after a reconciliation is sound.
LEMMA NewEntrySound ==
  ASSUME RevisionInv
  PROVE  SoundMap(NewEntry.template, NewEntry.map)
<1>1. /\ SoundMap(versions.template, versions.map) /\ SoundMap(copy.template, recorded)
  BY DEF RevisionInv, ObjectsLogged, OperationsLogged, RecordedInWait
<1>2. \A c \in Clusters : Sound(log[c], copy.template, Get(copy.template)[c])
  BY <1>1, NothingSound DEF SoundMap, Get
<1>3. \A c \in Clusters :
        Sound(log[c], copy.template, updateClusterVersions(Get(copy.template))[c])
  BY <1>1, <1>2, NothingSound DEF SoundMap, updateClusterVersions
<1> QED BY <1>3 DEF NewEntry, UpdatedEntry, SoundMap

LEMMA RevisionUpdate ==
  ASSUME RevisionInv, TypeOK', UpdateVersions,
         UNCHANGED <<obj, log, store, persisted>>,
         \A op \in ops' : /\ op.late # 0 /\ Logged(log[op.cluster], op.seen)
                          /\ op.kind = "update" => Present(op.seen)
  PROVE  RevisionInv'
<1>1. SoundMap(NewEntry.template, NewEntry.map) /\ versions' = NewEntry
  BY NewEntrySound DEF UpdateVersions
<1>2. SoundMap(versions.template, versions.map)'
  BY <1>1 DEF SoundMap
<1>3. SoundMap(copy.template, recorded)'
  BY NothingSound DEF UpdateVersions, SoundMap
<1>4. SoundMap(persisted.template, persisted.map)'
  BY DEF RevisionInv, ObjectsLogged, OperationsLogged, RecordedInWait, SoundMap
<1>5. ObjectsLogged' /\ OperationsLogged'
  BY DEF RevisionInv, ObjectsLogged, OperationsLogged
<1>6. RecordedInWait'
  BY DEF UpdateVersions, RecordedInWait
<1> QED BY <1>2, <1>3, <1>4, <1>5, <1>6 DEF RevisionInv

LEMMA RevisionWorker ==
  ASSUME RevisionInv, TypeOK', WorkerNext
  PROVE  RevisionInv'
<1> USE DEF memberVars, managerVars, workerVars
<1>0. /\ TypeOK /\ ObjectsLogged /\ OperationsLogged /\ RecordedInWait
      /\ SoundMap(versions.template, versions.map)
      /\ SoundMap(persisted.template, persisted.map) /\ SoundMap(copy.template, recorded)
  BY DEF RevisionInv
<1>1. CASE syncToClusters
  <2>1. UNCHANGED <<obj, log, store, versions, persisted>>
    BY <1>1 DEF syncToClusters
  <2>2. \A op \in ops : op.late # 0
    BY <1>0, <1>1 DEF OperationsLogged, syncToClusters
  <2>3. \A c \in Clusters : /\ NewOp(c).cluster = c /\ NewOp(c).seen = store[c]
                            /\ NewOp(c).template = fed.template
                            /\ NewOp(c).kind = "update" => Present(store[c])
    BY DEF NewOp
  <2>4. \A op \in ops' : op \in ops \/ \E c \in Clusters : op = NewOp(c)
    BY <1>1 DEF syncToClusters
  <2>5. pc' = "wait" /\ copy' = fed /\ recorded' = NoVersions
    BY <1>1 DEF syncToClusters
  <2>6. OperationsLogged'
    BY <1>0, <2>1, <2>2, <2>3, <2>4, <2>5 DEF OperationsLogged, ObjectsLogged
  <2>7. ObjectsLogged'
    BY <1>0, <2>1 DEF ObjectsLogged
  <2>8. /\ SoundMap(versions.template, versions.map)'
        /\ SoundMap(persisted.template, persisted.map)'
    BY <1>0, <2>1 DEF SoundMap
  <2>9. SoundMap(copy.template, recorded)'
    BY <2>5, NothingSound DEF SoundMap
  <2> QED BY <2>5, <2>6, <2>7, <2>8, <2>9 DEF RevisionInv, RecordedInWait
<1>2. CASE ensureDeletion
  <2>1. /\ log' = log /\ store' = store /\ versions' = NoEntry
        /\ UNCHANGED <<persisted, copy, recorded, ops, pc>>
    BY <1>2 DEF ensureDeletion, Delete
  <2>2. \A c \in Clusters : obj'[c] = NoObj \/ obj'[c] = obj[c]
    BY <1>2 DEF ensureDeletion
  <2>3. ObjectsLogged' /\ OperationsLogged'
    BY <1>0, <2>1, <2>2, NothingSound DEF ObjectsLogged, OperationsLogged
  <2>4. versions'.map = NoVersions
    BY <2>1 DEF NoEntry
  <2>5. SoundMap(versions.template, versions.map)'
    BY <2>4, NothingSound DEF SoundMap
  <2>6. /\ SoundMap(persisted.template, persisted.map)'
        /\ SoundMap(copy.template, recorded)'
    BY <1>0, <2>1 DEF SoundMap
  <2>7. RecordedInWait'
    BY <1>0, <2>1 DEF RecordedInWait
  <2> QED BY <2>3, <2>5, <2>6, <2>7 DEF RevisionInv
<1>3. CASE reconcileNothing
  BY <1>3, RevisionFrame DEF reconcileNothing
<1>4. CASE WaitEnds
  <2>1. \A op \in ops' : /\ op.late # 0 /\ Logged(log[op.cluster], op.seen)
                         /\ op.kind = "update" => Present(op.seen)
    BY <1>0, <1>4 DEF WaitEnds, Waiting, OperationsLogged
  <2> QED BY <1>4, <2>1, RevisionUpdate DEF WaitEnds
<1>5. CASE WaitTimesOut
  <2>1. used'["timeouts"] \in Nat \ {0}
    BY <1>0, <1>5, SpendType DEF WaitTimesOut, TypeOK, Bounds
  <2>2. ASSUME NEW op \in Waiting
        PROVE  /\ [op EXCEPT !.late = used'["timeouts"]].late = used'["timeouts"]
               /\ [op EXCEPT !.late = used'["timeouts"]].cluster = op.cluster
               /\ [op EXCEPT !.late = used'["timeouts"]].seen = op.seen
               /\ [op EXCEPT !.late = used'["timeouts"]].kind = op.kind
               /\ Logged(log[op.cluster], op.seen)
               /\ op.kind = "update" => Present(op.seen)
    BY <1>0 DEF Waiting, TypeOK, Operation, OperationsLogged
  <2>3. \A op \in ops' : op \in ops \ Waiting
          \/ \E x \in Waiting : op = [x EXCEPT !.late = used'["timeouts"]]
    BY <1>5 DEF WaitTimesOut
  <2>4. \A op \in ops \ Waiting : /\ op.late # 0 /\ Logged(log[op.cluster], op.seen)
                                  /\ op.kind = "update" => Present(op.seen)
    BY <1>0 DEF Waiting, OperationsLogged
  <2>5. \A op \in ops' : /\ op.late # 0 /\ Logged(log[op.cluster], op.seen)
                         /\ op.kind = "update" => Present(op.seen)
    <3> SUFFICES ASSUME NEW op \in ops'
                 PROVE  /\ op.late # 0 /\ Logged(log[op.cluster], op.seen)
                        /\ op.kind = "update" => Present(op.seen)
      OBVIOUS
    <3>1. CASE op \in ops \ Waiting
      BY <2>4, <3>1
    <3>2. ASSUME NEW x \in Waiting, op = [x EXCEPT !.late = used'["timeouts"]]
          PROVE  /\ op.late # 0 /\ Logged(log[op.cluster], op.seen)
                 /\ op.kind = "update" => Present(op.seen)
      <4>1. /\ op.late = used'["timeouts"] /\ op.cluster = x.cluster
            /\ op.seen = x.seen /\ op.kind = x.kind
            /\ Logged(log[x.cluster], x.seen)
            /\ x.kind = "update" => Present(x.seen)
        BY <2>2, <3>2
      <4> HIDE <3>2
      <4> QED BY <2>1, <4>1
    <3> QED BY <2>3, <3>1, <3>2
  <2> QED BY <1>5, <2>5, RevisionUpdate DEF WaitTimesOut
\* The writes of the PropagatedVersion copy what is in memory.
<1>v. ASSUME pc # "wait", pc' # "wait", UNCHANGED <<obj, log, store, recorded, ops>>,
             SoundMap(versions'.template, versions'.map),
             SoundMap(persisted'.template, persisted'.map)
      PROVE  RevisionInv'
  <2>1. recorded' = NoVersions /\ \A op \in ops' : op.late # 0
    BY <1>0, <1>v DEF RecordedInWait, OperationsLogged
  <2>2. ObjectsLogged' /\ OperationsLogged' /\ RecordedInWait'
    BY <1>0, <1>v, <2>1 DEF ObjectsLogged, OperationsLogged, RecordedInWait
  <2>3. SoundMap(copy.template, recorded)'
    BY <2>1, NothingSound DEF SoundMap
  <2>4. /\ SoundMap(versions.template, versions.map)'
        /\ SoundMap(persisted.template, persisted.map)'
    BY <1>v DEF SoundMap
  <2> QED BY <2>2, <2>3, <2>4 DEF RevisionInv
<1>6. CASE createVersion
  <2>1. versions'.template = versions.template /\ versions'.map = versions.map
    BY <1>0, <1>6 DEF createVersion, TypeOK, Entry
  <2>2. persisted' = persisted \/ persisted'.map = NoVersions
    BY <1>6 DEF createVersion, Nothing
  <2>3. SoundMap(persisted'.template, persisted'.map)
    BY <1>0, <2>2, NothingSound DEF SoundMap
  <2> QED BY <1>0, <1>6, <1>v, <2>1, <2>3 DEF createVersion
<1>7. CASE updateVersionStatus
  <2>1. versions'.template = versions.template /\ versions'.map = versions.map
    BY <1>0, <1>7 DEF updateVersionStatus, TypeOK, Entry
  <2>2. \/ persisted' = persisted
        \/ persisted'.template = versions.template /\ persisted'.map = versions.map
    BY <1>0, <1>7 DEF updateVersionStatus, TypeOK, PropagatedVersion
  <2> QED BY <1>0, <1>7, <1>v, <2>1, <2>2 DEF updateVersionStatus, Leave
<1>8. CASE refreshVersion
  BY <1>0, <1>8, <1>v DEF refreshVersion
<1>9. CASE writeVersionFails
  BY <1>0, <1>9, <1>v DEF writeVersionFails, WritePCs, Leave
<1> QED BY <1>1, <1>2, <1>3, <1>4, <1>5, <1>6, <1>7, <1>8, <1>9 DEF WorkerNext

LEMMA RevisionStep ==
  ASSUME HasGeneration = FALSE
  PROVE  RevisionInv /\ [Next]_vars => RevisionInv'
<1> SUFFICES ASSUME RevisionInv, [Next]_vars PROVE RevisionInv'
  OBVIOUS
<1> USE DEF memberVars, managerVars, workerVars
<1>0. /\ TypeOK /\ ObjectsLogged /\ OperationsLogged /\ RecordedInWait
      /\ SoundMap(versions.template, versions.map)
      /\ SoundMap(persisted.template, persisted.map) /\ SoundMap(copy.template, recorded)
  BY DEF RevisionInv
<1>t. TypeOK'
  BY <1>0, TypeStep
<1>1. CASE UNCHANGED vars
  BY <1>1, <1>t, RevisionFrame DEF vars
<1>2. ASSUME NEW t \in Templates, NEW p \in SUBSET Clusters,
             UserCreates(t, p) \/ UserEdits(t, p)
      PROVE  RevisionInv'
  BY <1>2, <1>t, RevisionFrame DEF UserCreates, UserEdits
<1>3. CASE UserDeletes
  BY <1>3, <1>t, RevisionFrame DEF UserDeletes
<1>4. ASSUME NEW c \in Clusters, MemberEdit(c) PROVE RevisionInv'
  <2>0. obj[c] \in Object \union {NoObj}
    BY <1>0 DEF TypeOK
  <2>1. obj[c].managed \in BOOLEAN /\ (Present(obj[c]) => obj[c].content \in Templates)
    <3>1. CASE obj[c] \in Object
      BY <3>1 DEF Object
    <3>2. CASE obj[c] = NoObj
      BY <3>2, EmptyTypes DEF Present
    <3> QED BY <2>0, <3>1, <3>2
  <2>2. \/ Write(c, NoObj)
        \/ \E t \in Templates, m \in BOOLEAN : Write(c, Stored(c, t, m))
    BY <1>4, <2>1 DEF MemberEdit
  <2>3. /\ Grows
        /\ \A d \in Clusters : Logged(log[d]', obj'[d]) /\ Logged(log[d]', store'[d])
    BY <1>t, <2>2, RevisionWrite
  <2> QED BY <1>4, <1>t, <2>3, RevisionGrows DEF MemberEdit
<1>5. ASSUME NEW c \in Clusters, TargetEvent(c) PROVE RevisionInv'
  <2>1. \A d \in Clusters : store'[d] \in {store[d], obj[d], NoObj}
    BY <1>0, <1>5 DEF TargetEvent, Cached, TypeOK
  <2>2. ObjectsLogged'
    BY <1>0, <1>5, <2>1, NothingSound DEF ObjectsLogged, TargetEvent
  <2>3. OperationsLogged' /\ RecordedInWait'
    BY <1>0, <1>5 DEF OperationsLogged, RecordedInWait, TargetEvent
  <2>4. /\ SoundMap(versions.template, versions.map)'
        /\ SoundMap(persisted.template, persisted.map)'
        /\ SoundMap(copy.template, recorded)'
    BY <1>0, <1>5 DEF SoundMap, TargetEvent
  <2> QED BY <1>t, <2>2, <2>3, <2>4 DEF RevisionInv
<1>6. ASSUME NEW op \in ops, clusterOperation(op) PROVE RevisionInv'
  BY <1>6, <1>t, RevisionOperation
\* Steps of the host cluster and of the manager's start.
<1>h. ASSUME UNCHANGED <<obj, log>>,
             \A c \in Clusters : store'[c] \in {store[c], obj[c], NoObj},
             \/ UNCHANGED <<ops, pc, copy, recorded>>
             \/ ops' = {} /\ recorded' = NoVersions,
             SoundMap(versions'.template, versions'.map),
             SoundMap(persisted'.template, persisted'.map)
      PROVE  RevisionInv'
  <2>1. ObjectsLogged'
    BY <1>0, <1>h, NothingSound DEF ObjectsLogged
  <2>2. OperationsLogged' /\ RecordedInWait'
    BY <1>0, <1>h DEF OperationsLogged, RecordedInWait
  <2>3. SoundMap(copy.template, recorded)'
    BY <1>0, <1>h, NothingSound DEF SoundMap
  <2>4. /\ SoundMap(versions.template, versions.map)'
        /\ SoundMap(persisted.template, persisted.map)'
    BY <1>h DEF SoundMap
  <2> QED BY <1>t, <2>1, <2>2, <2>3, <2>4 DEF RevisionInv
<1>n. SoundMap(NoEntry.template, NoEntry.map) /\ SoundMap(Nothing.template, Nothing.map)
  BY NothingSound DEF SoundMap, NoEntry, Nothing
<1>7. CASE ForeignWrite
  <2>1. versions'.template = versions.template /\ versions'.map = versions.map
    BY <1>0, <1>7 DEF ForeignWrite, TypeOK, Entry
  <2> QED BY <1>0, <1>7, <1>h, <2>1 DEF ForeignWrite
<1>8. CASE GarbageCollect
  BY <1>0, <1>8, <1>h, <1>n DEF GarbageCollect
<1>9. CASE Restart
  BY <1>0, <1>9, <1>h, <1>n DEF Restart
<1>10. CASE Sync
  <2>1. SoundMap(load.template, load.map)
    BY <1>0, <1>n DEF load
  <2>2. \A c \in Clusters : store'[c] \in {store[c], obj[c], NoObj}
    BY <1>10 DEF Sync, Cached
  <2> QED BY <1>0, <1>10, <1>h, <2>1, <2>2 DEF Sync
<1> QED
  BY <1>1, <1>2, <1>3, <1>4, <1>5, <1>6, <1>7, <1>8, <1>9, <1>10, <1>t, RevisionWorker
     DEF Next, UserNext

LEMMA RevisionSound == HasGeneration = FALSE /\ RevisionInv => NoUpdateSkipped
<1> SUFFICES ASSUME HasGeneration = FALSE, RevisionInv, NEW op \in ops,
                    op.kind = "update", op.late = 0,
                    ~ObjectNeedsUpdate(op.seen, Get(op.template)[op.cluster])
             PROVE  op.seen.content = op.template /\ op.seen.managed
  BY DEF NoUpdateSkipped
<1>1. op.cluster \in Clusters
  BY DEF RevisionInv, TypeOK, Operation
<1>2. op.seen.version = Get(op.template)[op.cluster]
  BY DEF ObjectNeedsUpdate
<1>3. Logged(log[op.cluster], op.seen) /\ op.seen.version # 0
  BY DEF RevisionInv, OperationsLogged, Present
<1>4. /\ versions.template = op.template
      /\ op.seen.version = versions.map[op.cluster]
  BY <1>1, <1>2, <1>3 DEF Get, NoVersions
<1>5. Sound(log[op.cluster], op.template, op.seen.version)
  BY <1>1, <1>4 DEF RevisionInv, SoundMap
<1>6. [content |-> op.seen.content, managed |-> op.seen.managed]
        = [content |-> op.template, managed |-> TRUE]
  BY <1>3, <1>5 DEF Logged, Sound, Present
<1> QED BY <1>6

\* For target types without a generation, whatever the clusters, the templates
\* and the bounds: an update is left out only for an object that has the content
\* of the template and the label, although versions are recorded late, lost by a
\* failed write or a restart, or loaded from an earlier life of the resource.
THEOREM SkippedUpdatesAreNeedless ==
  HasGeneration = FALSE => (Spec => []NoUpdateSkipped)
<1>1. SUFFICES ASSUME HasGeneration = FALSE PROVE Spec => []NoUpdateSkipped
  OBVIOUS
<1>2. RevisionInv /\ [Next]_vars => RevisionInv'
  BY <1>1, RevisionStep
<1>3. RevisionInv => NoUpdateSkipped
  BY <1>1, RevisionSound
<1> QED BY <1>2, <1>3, RevisionInit, PTL DEF Spec

-----------------------------------------------------------------------------
(* Whose version is written *)

\* Without a restart no entry outlives its resource: the worker writes for the resource
\* there is, and the manager's entry is owned by it.
OwnerInv ==
  /\ TypeOK /\ hasSynced
  /\ pc # "idle" => Exists(fed) /\ copy.uid = fed.uid
  /\ Recorded(versions) => versions.owner = fed.uid
  /\ pc \in WritePCs => Recorded(versions)

LEMMA OwnerFrame ==
  ASSUME OwnerInv, TypeOK', UNCHANGED <<hasSynced, pc, copy, versions>>, fed'.uid = fed.uid
  PROVE  OwnerInv'
BY DEF OwnerInv, Exists, Recorded

\* The worker leaves, or goes on with a write of the entry there is.
LEMMA OwnerWrites ==
  ASSUME OwnerInv, TypeOK', UNCHANGED <<hasSynced, fed>>, versions'.owner = versions.owner,
         pc \in WritePCs, pc' = "idle" \/ (pc' \in WritePCs /\ UNCHANGED copy)
  PROVE  OwnerInv'
BY DEF OwnerInv, Exists, Recorded, WritePCs

LEMMA OwnerUpdates ==
  ASSUME OwnerInv, TypeOK', UpdateVersions, UNCHANGED <<hasSynced, fed>>, pc = "wait"
  PROVE  OwnerInv'
<1>1. versions'.owner = IF Recorded(versions) THEN versions.owner ELSE copy.uid
  BY DEF UpdateVersions, NewEntry, UpdatedEntry
<1>2. Exists(fed) /\ copy.uid = fed.uid /\ (Recorded(versions) => versions.owner = fed.uid)
  BY DEF OwnerInv
<1>3. versions'.owner = fed.uid /\ Recorded(versions')
  BY <1>1, <1>2 DEF Recorded, Exists
<1>4. pc' = "idle" \/ copy' = copy
  BY DEF UpdateVersions, Leave
<1> QED BY <1>2, <1>3, <1>4 DEF OwnerInv, Exists, Recorded

LEMMA OwnerStep ==
  ASSUME MaxCrashes = 0, OwnerInv, [Next]_vars
  PROVE  OwnerInv'
<1> USE DEF memberVars, managerVars, workerVars
<1>0. TypeOK /\ hasSynced
  BY DEF OwnerInv
<1>t. TypeOK'
  BY <1>0, TypeStep
<1>1. CASE UNCHANGED vars
  BY <1>t, <1>1, OwnerFrame DEF vars
<1>2. ASSUME NEW t \in Templates, NEW p \in SUBSET Clusters, UserCreates(t, p) PROVE OwnerInv'
  <2>1. ~Exists(fed) /\ UNCHANGED <<hasSynced, pc, copy, versions>>
    BY <1>2 DEF UserCreates
  <2>2. ~Recorded(versions) /\ pc = "idle"
    BY <2>1 DEF OwnerInv, Exists, Recorded
  <2> QED BY <1>t, <2>1, <2>2 DEF OwnerInv, WritePCs, Recorded
<1>3. ASSUME NEW t \in Templates, NEW p \in SUBSET Clusters, UserEdits(t, p) PROVE OwnerInv'
  <2>1. fed'.uid = fed.uid
    BY <1>0, <1>3 DEF UserEdits, TypeOK, FedResource, NoFed
  <2> QED BY <1>t, <1>3, <2>1, OwnerFrame DEF UserEdits
<1>4. CASE UserDeletes
  <2>1. fed'.uid = fed.uid
    BY <1>0, <1>4 DEF UserDeletes, TypeOK, FedResource, NoFed
  <2> QED BY <1>t, <1>4, <2>1, OwnerFrame DEF UserDeletes
<1>5. ASSUME NEW c \in Clusters, MemberEdit(c) \/ TargetEvent(c) PROVE OwnerInv'
  BY <1>t, <1>5, OwnerFrame DEF MemberEdit, TargetEvent
<1>6. CASE syncToClusters
  BY <1>t, <1>6 DEF syncToClusters, OwnerInv, WritePCs, Exists, Recorded
<1>7. CASE ensureDeletion
  BY <1>t, <1>7 DEF ensureDeletion, OwnerInv, WritePCs, Delete, NoEntry, Recorded
<1>8. CASE reconcileNothing
  BY <1>t, <1>8, OwnerFrame DEF reconcileNothing
<1>9. CASE WaitEnds \/ WaitTimesOut
  BY <1>t, <1>9, OwnerUpdates DEF WaitEnds, WaitTimesOut
<1>10. CASE createVersion
  <2>1. versions'.owner = versions.owner
    BY <1>0, <1>10 DEF createVersion, TypeOK, Entry
  <2> QED BY <1>t, <1>10, <2>1, OwnerWrites DEF createVersion, WritePCs
<1>11. CASE updateVersionStatus
  <2>1. versions'.owner = versions.owner
    BY <1>0, <1>11 DEF updateVersionStatus, TypeOK, Entry
  <2> QED BY <1>t, <1>11, <2>1, OwnerWrites DEF updateVersionStatus, WritePCs, Leave
<1>12. CASE refreshVersion \/ writeVersionFails
  BY <1>t, <1>12, OwnerWrites DEF refreshVersion, writeVersionFails, WritePCs, Leave
<1>13. ASSUME NEW op \in ops, clusterOperation(op) PROVE OwnerInv'
  BY <1>t, <1>13, OwnerFrame DEF clusterOperation
<1>14. CASE ForeignWrite
  <2>1. versions'.owner = versions.owner
    BY <1>0, <1>14 DEF ForeignWrite, TypeOK, Entry
  <2> QED BY <1>t, <1>14, <2>1 DEF ForeignWrite, OwnerInv, Exists, Recorded
<1>15. CASE GarbageCollect
  BY <1>t, <1>15, OwnerFrame DEF GarbageCollect
<1>16. ~Restart /\ ~Sync
  <2>1. used["crashes"] \in Nat /\ Limit["crashes"] = 0
    BY <1>0 DEF TypeOK, Bounds, Limit
  <2> QED BY <1>0, <2>1 DEF Restart, Sync, Spend
<1> QED
  BY <1>1, <1>2, <1>3, <1>4, <1>5, <1>6, <1>7, <1>8, <1>9, <1>10, <1>11, <1>12, <1>13, <1>14,
     <1>15, <1>16 DEF Next, UserNext, WorkerNext

\* Until the manager restarts, a PropagatedVersion is created with the resource it is about
\* as its owner, however late the garbage collector is with the one of a resource of the
\* same name, and whatever users, conflicts, failed writes and timeouts come between.
\* A manager that has restarted may have loaded that one.
THEOREM VersionsAreOwned == MaxCrashes = 0 => (Spec => []OwnedByResource)
<1>1. SUFFICES ASSUME MaxCrashes = 0 PROVE Spec => []OwnedByResource
  OBVIOUS
<1>2. Init => OwnerInv
  BY TypeInit DEF Init, OwnerInv, NoEntry, Recorded, WritePCs
<1>3. OwnerInv /\ [Next]_vars => OwnerInv'
  BY <1>1, OwnerStep
<1>4. OwnerInv => OwnedByResource
  BY DEF OwnerInv, OwnedByResource, WritePCs
<1> QED BY <1>2, <1>3, <1>4, PTL DEF Spec


-----------------------------------------------------------------------------
(* Updates are not missed *)

\* A store that trails its cluster has an event to come.
InStep == \A c \in Clusters : c \in lag \/ store[c] = Cached(obj[c])

\* The worker has begun its last reconciliation, with what the store now holds of c.
Settled(c) == ~queue /\ hasSynced /\ c \notin lag /\ Present(store[c])

\* An operation of that reconciliation compares what the store holds with the versions, or
\* is about to write it.
Working(c) ==
  \E op \in ops : /\ op.cluster = c /\ op.template = fed.template
                  /\ op.kind \in {"update", "put"} /\ op.seen = store[c]

ContentInv ==
  \A c \in fed.placement :
    Settled(c) => store[c].content = fed.template \/ Working(c)

\* A version recorded for an object is of use only if it tells its content.
SkipsSound ==
  \A op \in ops :
    (/\ op.kind = "update" /\ op.seen = obj[op.cluster] /\ Present(op.seen)
     /\ ~ObjectNeedsUpdate(op.seen, Get(op.template)[op.cluster]))
      => op.seen.content = op.template

UpdatesInv == TypeOK /\ InStep /\ ContentInv

\* Without timeouts there is one operation for a cluster, of the reconciliation that waits.
OneOperation ==
  /\ \A op \in ops : /\ op.late = 0 /\ pc = "wait" /\ op.template = copy.template
                     /\ recorded[op.cluster] = 0
                     /\ op.kind # "delete" => op.cluster \in copy.placement
  /\ \A op1, op2 \in ops : op1.cluster = op2.cluster => op1 = op2
  /\ RecordedInWait

\* A labelled object has not been written since version v was recorded for template t, or
\* its generation has grown.
Follows(o, v, t) == v = 0 \/ o.version > v \/ (o.version = v /\ o.content = t)

Recent(c) ==
  IF recorded[c] # 0 THEN Follows(obj[c], recorded[c], copy.template)
  ELSE Follows(obj[c], versions.map[c], versions.template)

\* While the manager runs, every write that labels an object is recorded, also where it
\* starts the object's generations anew.
GenerationInv ==
  /\ TypeOK /\ hasSynced /\ OneOperation
  /\ \A c \in Clusters : obj[c].managed => Recent(c)

LEMMA WriteHeard ==
  ASSUME TypeOK, InStep, NEW c \in Clusters, NEW o \in Object \union {NoObj}, Write(c, o)
  PROVE  /\ store' = store /\ lag \subseteq lag' /\ obj'[c] = o
         /\ \A d \in Clusters \ {c} : obj'[d] = obj[d] /\ (d \in lag' => d \in lag)
         /\ c \notin lag' => /\ c \notin lag /\ store[c] = Cached(o)
                             /\ Present(store[c]) => o = obj[c] /\ store[c] = obj[c]
<1>1. obj \in [Clusters -> Object \union {NoObj}] /\ store' = store
  BY DEF TypeOK, Write
<1>2. obj' = [obj EXCEPT ![c] = o]
  BY DEF Write
<1>3. lag' = lag \/ lag' = lag \union {c}
  BY DEF Write
<1>4. c \notin lag' => c \notin lag /\ (o = obj[c] \/ (~o.managed /\ ~obj[c].managed))
  BY DEF Write
<1>5. ASSUME c \notin lag'
      PROVE  /\ c \notin lag /\ store[c] = Cached(o)
             /\ Present(store[c]) => o = obj[c] /\ store[c] = obj[c]
  <2>1. c \notin lag /\ store[c] = Cached(obj[c])
    BY <1>4, <1>5 DEF InStep
  <2>2. ~Present(NoObj)
    BY EmptyTypes DEF Present
  <2> QED BY <1>4, <1>5, <2>1, <2>2 DEF Cached
<1> QED BY <1>1, <1>2, <1>3, <1>5

LEMMA WriteInStep ==
  ASSUME TypeOK, InStep, NEW c \in Clusters, NEW o \in Object \union {NoObj}, Write(c, o)
  PROVE  InStep'
BY WriteHeard DEF InStep, Cached

\* What a member edit and what an operation writes.
LEMMA MemberEditWrites ==
  ASSUME TypeOK, NEW c \in Clusters, MemberEdit(c)
  PROVE  \E o \in Object \union {NoObj} : Write(c, o)
<1>1. obj[c] \in Object \union {NoObj}
  BY DEF TypeOK
<1>2. obj[c].managed \in BOOLEAN /\ (Present(obj[c]) => obj[c].content \in Templates)
  <2>1. CASE obj[c] \in Object
    BY <2>1 DEF Object
  <2>2. CASE obj[c] = NoObj
    BY <2>2, EmptyTypes DEF Present
  <2> QED BY <1>1, <2>1, <2>2
<1> QED BY <1>2, StoredType DEF MemberEdit

LEMMA OperationWrites ==
  ASSUME TypeOK, NEW op \in ops, clusterOperation(op)
  PROVE  UNCHANGED memberVars \/ \E o \in Object \union {NoObj} : Write(op.cluster, o)
<1>1. op.cluster \in Clusters /\ op.template \in Templates
  BY DEF TypeOK, Operation
<1>2. Stored(op.cluster, op.template, TRUE) \in Object
  BY <1>1, StoredType
<1> QED BY <1>2 DEF clusterOperation, Create, Update, Put, DeleteObject

LEMMA InStepStep == TypeOK /\ InStep /\ [Next]_vars => InStep'
<1> SUFFICES ASSUME TypeOK, InStep, [Next]_vars PROVE InStep'
  OBVIOUS
<1> USE DEF memberVars, managerVars, workerVars
<1>f. ASSUME UNCHANGED <<obj, store, lag>> PROVE InStep'
  BY <1>f DEF InStep
<1>1. CASE UNCHANGED vars
  BY <1>1, <1>f DEF vars
<1>2. CASE UserNext
  <2>1. ASSUME NEW c \in Clusters, MemberEdit(c) PROVE InStep'
    BY <2>1, MemberEditWrites, WriteInStep
  <2> QED BY <1>2, <1>f, <2>1 DEF UserNext, UserCreates, UserEdits, UserDeletes
<1>3. CASE WorkerNext
  <2>1. CASE ensureDeletion
    <3>1. store' = store
      BY <2>1 DEF ensureDeletion
    <3>2. ASSUME NEW c \in Clusters, c \notin lag' PROVE store[c] = Cached(obj'[c])
      <4>1. c \notin lag /\ obj'[c] = obj[c]
        BY <2>1, <3>2 DEF ensureDeletion
      <4> QED BY <4>1 DEF InStep
    <3> QED BY <3>1, <3>2 DEF InStep, Cached
  <2> QED
    BY <1>3, <1>f, <2>1 DEF WorkerNext, syncToClusters, reconcileNothing, WaitEnds, WaitTimesOut,
       createVersion, updateVersionStatus, refreshVersion, writeVersionFails
<1>4. ASSUME NEW c \in Clusters, TargetEvent(c) PROVE InStep'
  <2>1. store' = [store EXCEPT ![c] = Cached(obj[c])] /\ lag' = lag \ {c} /\ obj' = obj
    BY <1>4 DEF TargetEvent
  <2>2. \A d \in Clusters : store'[d] = IF d = c THEN Cached(obj[c]) ELSE store[d]
    BY <2>1 DEF TypeOK
  <2> QED BY <2>1, <2>2 DEF InStep, Cached
<1>5. ASSUME NEW op \in ops, clusterOperation(op) PROVE InStep'
  <2>1. op.cluster \in Clusters
    BY DEF TypeOK, Operation
  <2> QED BY <1>5, <1>f, <2>1, OperationWrites, WriteInStep
<1>6. CASE ForeignWrite \/ GarbageCollect \/ Restart
  BY <1>6, <1>f DEF ForeignWrite, GarbageCollect, Restart
<1>7. CASE Sync
  BY <1>7 DEF Sync, InStep, Cached
<1> QED BY <1>1, <1>2, <1>3, <1>4, <1>5, <1>6, <1>7 DEF Next

\* A step that leaves the resource, the stores and the operations as they are.
LEMMA ContentFrame ==
  ASSUME ContentInv, UNCHANGED <<fed, store, ops>>, lag \subseteq lag',
         queue => queue', hasSynced' => hasSynced
  PROVE  ContentInv'
<1>1. fed.placement' = fed.placement
  OBVIOUS
<1>2. ASSUME NEW c \in fed.placement, Settled(c)'
      PROVE  store'[c].content = fed'.template \/ Working(c)'
  <2>1. Settled(c)
    BY <1>2 DEF Settled
  <2> QED BY <2>1 DEF ContentInv, Working
<1> QED BY <1>1, <1>2 DEF ContentInv


\* An operation either ends or goes on with the template it has.
LEMMA ContentOperation ==
  ASSUME UpdatesInv, SkipsSound, NEW op \in ops, clusterOperation(op)
  PROVE  ContentInv'
<1> USE DEF memberVars, managerVars
<1> DEFINE c == op.cluster
<1>0. /\ TypeOK /\ InStep /\ ContentInv /\ c \in Clusters /\ op \in Operation
      /\ op.template \in Templates /\ op.seen \in Object \union {NoObj}
      /\ obj[c] \in Object \union {NoObj}
  BY DEF UpdatesInv, TypeOK, Operation
<1>p. fed.placement \subseteq Clusters
  BY <1>0 DEF TypeOK, FedResource, NoFed
<1>1. UNCHANGED <<fed, queue, hasSynced, store>>
  BY DEF clusterOperation, Create, Update, Put, DeleteObject, Write
<1>2. /\ lag \subseteq lag' /\ \A d \in Clusters \ {c} : d \in lag' => d \in lag
      /\ c \notin lag' /\ Present(store[c]) => store[c] = obj[c] /\ obj'[c] = obj[c]
  <2>1. CASE UNCHANGED memberVars
    <3>1. c \notin lag => store[c] = Cached(obj[c])
      BY <1>0 DEF InStep
    <3>2. ~Present(NoObj)
      BY EmptyTypes DEF Present
    <3> QED BY <2>1, <3>1, <3>2 DEF Cached
  <2>2. CASE \E o \in Object \union {NoObj} : Write(c, o)
    BY <1>0, <2>2, WriteHeard
  <2> QED BY <1>0, <2>1, <2>2, OperationWrites
<1>3. \A x \in ops : x # op => x \in ops'
  BY DEF clusterOperation, Create, Update, Put, DeleteObject
<1> SUFFICES ASSUME NEW d \in fed.placement, Settled(d)'
             PROVE  store[d].content = fed.template \/ Working(d)'
  BY <1>1 DEF ContentInv
<1>4. d \in Clusters /\ d \notin lag' /\ Present(store[d]) /\ Settled(d)
  BY <1>p, <1>1, <1>2 DEF Settled
<1>5. CASE store[d].content = fed.template
  BY <1>5
<1>6. ASSUME NEW x \in ops, x.cluster = d, x.template = fed.template,
             x.kind \in {"update", "put"}, x.seen = store[d]
      PROVE  store[d].content = fed.template \/ Working(d)'
  <2>1. CASE x # op
    BY <1>1, <1>3, <1>6, <2>1 DEF Working
  <2>2. CASE x = op
    <3>1. c = d /\ store[c] = obj[c] /\ obj'[c] = obj[c] /\ op.seen = obj[c] /\ Present(op.seen)
      BY <1>2, <1>4, <1>6, <2>2
    <3>2. CASE Update(op)
      <4>1. CASE ObjectNeedsUpdate(op.seen, Get(op.template)[c])
        <5> DEFINE y == [op EXCEPT !.kind = "put"]
        <5>1. y \in ops'
          BY <3>2, <4>1 DEF Update
        <5>2. y.cluster = op.cluster /\ y.template = op.template /\ y.kind = "put"
              /\ y.seen = op.seen
          BY <1>0 DEF Operation
        <5> HIDE DEF y
        <5> QED BY <1>1, <1>6, <2>2, <5>1, <5>2 DEF Working
      <4>2. CASE ~ObjectNeedsUpdate(op.seen, Get(op.template)[c])
        BY <1>6, <2>2, <3>1, <3>2, <4>2 DEF SkipsSound, Update
      <4> QED BY <4>1, <4>2
    <3>3. CASE Put(op)
      <4>1. Write(c, Stored(c, op.template, TRUE))
        BY <3>1, <3>3 DEF Put
      <4>2. obj'[c] = Stored(c, op.template, TRUE)
        BY <1>0, <4>1, StoredType, WriteType
      <4>3. obj'[c].content = op.template
        BY <4>2 DEF Stored, Same
      <4> QED BY <1>6, <2>2, <3>1, <4>3
    <3> QED BY <1>6, <2>2, <3>2, <3>3 DEF clusterOperation, Create, DeleteObject
  <2> QED BY <2>1, <2>2
<1>7. CASE Working(d)
  BY <1>6, <1>7 DEF Working
<1> QED BY <1>0, <1>4, <1>5, <1>7 DEF ContentInv

LEMMA ContentStep ==
  ASSUME UpdatesInv, SkipsSound, [Next]_vars
  PROVE  UpdatesInv'
<1> USE DEF memberVars, managerVars, workerVars
<1>0. TypeOK /\ InStep /\ ContentInv
  BY DEF UpdatesInv
<1>t. TypeOK' /\ InStep'
  BY <1>0, TypeStep, InStepStep
<1> SUFFICES ContentInv'
  BY <1>t DEF UpdatesInv
<1>q. ASSUME queue' \/ ~hasSynced' PROVE ContentInv'
  BY <1>q DEF ContentInv, Settled
<1>n. ASSUME fed' = NoFed PROVE ContentInv'
  BY <1>n DEF ContentInv, NoFed
<1>1. CASE UNCHANGED vars
  BY <1>0, <1>1, ContentFrame DEF vars
<1>2. CASE UserNext
  <2>1. ASSUME NEW c \in Clusters, MemberEdit(c) PROVE ContentInv'
    <3>1. UNCHANGED <<fed, store, ops, queue, hasSynced>> /\ lag \subseteq lag'
      BY <2>1 DEF MemberEdit, Write
    <3> QED BY <1>0, <3>1, ContentFrame
  <2> QED BY <1>2, <1>q, <2>1 DEF UserNext, UserCreates, UserEdits, UserDeletes
<1>3. CASE syncToClusters
  <2>1. UNCHANGED <<fed, store>> /\ fed \in FedResource
    BY <1>0, <1>3 DEF syncToClusters, TypeOK, Exists, NoFed
  <2>2. ASSUME NEW c \in fed.placement, Present(store[c]) PROVE Working(c)'
    <3>1. c \in Clusters
      BY <2>1 DEF FedResource
    <3>2. NewOp(c) \in ops'
      BY <1>3, <3>1 DEF syncToClusters
    <3>3. /\ NewOp(c).cluster = c /\ NewOp(c).template = fed.template
          /\ NewOp(c).seen = store[c] /\ NewOp(c).kind = "update"
      BY <2>2 DEF NewOp
    <3> QED BY <2>1, <3>2, <3>3 DEF Working
  <2> QED BY <2>1, <2>2 DEF ContentInv, Settled
<1>4. CASE ensureDeletion
  BY <1>4, <1>n DEF ensureDeletion
<1>5. CASE reconcileNothing
  <2>1. fed = NoFed
    BY <1>0, <1>5 DEF reconcileNothing, TypeOK, Exists, FedResource
  <2> QED BY <1>5, <1>n, <2>1 DEF reconcileNothing
<1>6. CASE WaitEnds \/ createVersion \/ updateVersionStatus \/ refreshVersion \/ writeVersionFails
  <2>1. UNCHANGED <<fed, store, ops, queue, hasSynced, lag>>
    BY <1>6 DEF WaitEnds, createVersion, updateVersionStatus, refreshVersion, writeVersionFails
  <2> QED BY <1>0, <2>1, ContentFrame
<1>7. CASE WaitTimesOut
  <2>1. UNCHANGED <<fed, store, queue, hasSynced, lag>>
    BY <1>7 DEF WaitTimesOut
  <2>2. ASSUME NEW c \in fed.placement, Working(c) PROVE Working(c)'
    <3>1. PICK op \in ops : /\ op.cluster = c /\ op.template = fed.template
                            /\ op.kind \in {"update", "put"} /\ op.seen = store[c]
      BY <2>2 DEF Working
    <3> DEFINE y == [op EXCEPT !.late = used'["timeouts"]]
    <3>2. op \in ops' \/ y \in ops'
      BY <1>7 DEF WaitTimesOut
    <3>3. y.cluster = op.cluster /\ y.template = op.template /\ y.kind = op.kind /\ y.seen = op.seen
      BY <1>0 DEF TypeOK, Operation
    <3> HIDE DEF y
    <3> QED BY <2>1, <3>1, <3>2, <3>3 DEF Working
  <2>3. ASSUME NEW c \in fed.placement, Settled(c)'
        PROVE  store'[c].content = fed'.template \/ Working(c)'
    <3>1. Settled(c)
      BY <2>1, <2>3 DEF Settled
    <3> QED BY <1>0, <2>1, <2>2, <3>1 DEF ContentInv
  <2> QED BY <2>1, <2>3 DEF ContentInv
<1>8. ASSUME NEW c \in Clusters, TargetEvent(c) PROVE ContentInv'
  BY <1>8, <1>q DEF TargetEvent
<1>9. ASSUME NEW op \in ops, clusterOperation(op) PROVE ContentInv'
  BY <1>9, ContentOperation
<1>10. CASE ForeignWrite \/ GarbageCollect
  <2>1. UNCHANGED <<fed, store, ops, queue, hasSynced, lag>>
    BY <1>10 DEF ForeignWrite, GarbageCollect
  <2> QED BY <1>0, <2>1, ContentFrame
<1>11. CASE Restart \/ Sync
  BY <1>11, <1>q DEF Restart, Sync
<1> QED
  BY <1>1, <1>2, <1>3, <1>4, <1>5, <1>6, <1>7, <1>8, <1>9, <1>10, <1>11
     DEF Next, WorkerNext

\* Resource versions tell the content.
LEMMA RevisionSkips == HasGeneration = FALSE /\ RevisionInv => SkipsSound
<1> SUFFICES ASSUME HasGeneration = FALSE, RevisionInv, NEW op \in ops,
                    op.kind = "update", Present(op.seen),
                    ~ObjectNeedsUpdate(op.seen, Get(op.template)[op.cluster])
             PROVE  op.seen.content = op.template
  BY DEF SkipsSound
<1>1. op.cluster \in Clusters
  BY DEF RevisionInv, TypeOK, Operation
<1>2. op.seen.version = Get(op.template)[op.cluster]
  BY DEF ObjectNeedsUpdate
<1>3. Logged(log[op.cluster], op.seen) /\ op.seen.version # 0
  BY DEF RevisionInv, OperationsLogged, Present
<1>4. /\ versions.template = op.template
      /\ op.seen.version = versions.map[op.cluster]
  BY <1>1, <1>2, <1>3 DEF Get, NoVersions
<1>5. Sound(log[op.cluster], op.template, op.seen.version)
  BY <1>1, <1>4 DEF RevisionInv, SoundMap
<1>6. [content |-> op.seen.content, managed |-> op.seen.managed]
        = [content |-> op.template, managed |-> TRUE]
  BY <1>3, <1>5 DEF Logged, Sound, Present
<1> QED BY <1>6


LEMMA OneOperationFrame ==
  ASSUME OneOperation, UNCHANGED <<ops, pc, copy, recorded>>
  PROVE  OneOperation'
BY DEF OneOperation, RecordedInWait

LEMMA OneOperationNone ==
  ASSUME ops' = {}, recorded' = NoVersions
  PROVE  OneOperation'
BY DEF OneOperation, RecordedInWait

LEMMA OneOperationOp ==
  ASSUME TypeOK, OneOperation, NEW op \in ops, clusterOperation(op)
  PROVE  OneOperation'
<1> USE DEF memberVars, managerVars
<1> DEFINE c == op.cluster
<1>0. /\ op \in Operation /\ c \in Clusters /\ op.late = 0 /\ pc = "wait"
      /\ op.template = copy.template /\ recorded[c] = 0 /\ recorded \in VersionMap
      /\ op.kind # "delete" => c \in copy.placement
      /\ \A x \in ops : x # op => x.cluster # c
  BY DEF TypeOK, OneOperation, Operation
<1>1. UNCHANGED <<pc, copy>>
  BY DEF clusterOperation
<1>2. CASE ops' = ops \ {op}
  <2>1. \A d \in Clusters \ {c} : recorded'[d] = recorded[d]
    BY <1>0 DEF clusterOperation, Create, Update, Put, DeleteObject, Record, VersionMap
  <2>2. \A x \in ops' : x \in ops /\ x.cluster \in Clusters \ {c}
    BY <1>0, <1>2 DEF TypeOK, Operation
  <2> QED BY <1>0, <1>1, <2>1, <2>2 DEF OneOperation, RecordedInWait
<1>3. ASSUME NEW y, ops' = (ops \ {op}) \union {y}, recorded' = recorded,
             y.cluster = c, y.template = op.template, y.late = op.late,
             y.kind # "delete", op.kind # "delete"
      PROVE  OneOperation'
  BY <1>0, <1>1, <1>3 DEF OneOperation, RecordedInWait
<1>4. CASE Create(op)
  <2>1. CASE Present(obj[c])
    <3> DEFINE y == [op EXCEPT !.kind = "update", !.seen = obj[c]]
    <3>1. y.cluster = c /\ y.template = op.template /\ y.late = op.late /\ y.kind = "update"
      BY <1>0 DEF Operation
    <3>2. ops' = (ops \ {op}) \union {y} /\ recorded' = recorded /\ op.kind = "create"
      BY <1>4, <2>1 DEF Create
    <3> HIDE DEF y
    <3> QED BY <1>3, <3>1, <3>2
  <2>2. CASE ~Present(obj[c])
    BY <1>2, <1>4, <2>2 DEF Create
  <2> QED BY <2>1, <2>2
<1>5. CASE Update(op)
  <2>1. CASE ObjectNeedsUpdate(op.seen, Get(op.template)[c])
    <3> DEFINE y == [op EXCEPT !.kind = "put"]
    <3>1. y.cluster = c /\ y.template = op.template /\ y.late = op.late /\ y.kind = "put"
      BY <1>0 DEF Operation
    <3>2. ops' = (ops \ {op}) \union {y} /\ recorded' = recorded /\ op.kind = "update"
      BY <1>5, <2>1 DEF Update
    <3> HIDE DEF y
    <3> QED BY <1>3, <3>1, <3>2
  <2>2. CASE ~ObjectNeedsUpdate(op.seen, Get(op.template)[c])
    <3>1. ops' = ops \ {op}
      BY <1>5, <2>2 DEF Update
    <3> QED BY <1>2, <3>1
  <2> QED BY <2>1, <2>2
<1>6. CASE Put(op) \/ DeleteObject(op)
  BY <1>2, <1>6 DEF Put, DeleteObject
<1> QED BY <1>4, <1>5, <1>6 DEF clusterOperation

LEMMA NoTimeouts ==
  ASSUME MaxTimeouts = 0, TypeOK
  PROVE  ~WaitTimesOut
<1>1. used["timeouts"] \in Nat /\ Limit["timeouts"] = 0
  BY DEF TypeOK, Bounds, Limit
<1> QED BY <1>1 DEF WaitTimesOut, Spend

LEMMA OneOperationStep ==
  ASSUME MaxTimeouts = 0, TypeOK, OneOperation, [Next]_vars
  PROVE  OneOperation'
<1> USE DEF memberVars, managerVars, workerVars
<1>1. CASE UNCHANGED vars
  BY <1>1, OneOperationFrame DEF vars
<1>2. CASE UserNext
  <2>1. UNCHANGED <<ops, pc, copy, recorded>>
    BY <1>2 DEF UserNext, UserCreates, UserEdits, UserDeletes, MemberEdit
  <2> QED BY <2>1, OneOperationFrame
<1>3. CASE syncToClusters
  <2>1. ops = {} /\ pc' = "wait" /\ copy' = fed /\ recorded' = NoVersions
    BY <1>3 DEF syncToClusters, OneOperation
  <2>2. \A op \in ops' : \E c \in Clusters : op = NewOp(c)
    BY <1>3, <2>1 DEF syncToClusters
  <2>3. \A c : /\ NewOp(c).cluster = c /\ NewOp(c).late = 0 /\ NewOp(c).template = fed.template
               /\ NewOp(c).kind # "delete" => c \in fed.placement
    BY DEF NewOp
  <2>4. \A c \in Clusters : NoVersions[c] = 0
    BY DEF NoVersions
  <2>5. ASSUME NEW op \in ops'
        PROVE  /\ op.late = 0 /\ op.template = fed.template /\ recorded'[op.cluster] = 0
               /\ op.kind # "delete" => op.cluster \in fed.placement
               /\ op = NewOp(op.cluster)
    BY <2>1, <2>2, <2>3, <2>4
  <2> QED BY <2>1, <2>5 DEF OneOperation, RecordedInWait
<1>4. CASE ensureDeletion \/ reconcileNothing
  BY <1>4, OneOperationFrame DEF ensureDeletion, reconcileNothing
<1>5. CASE WaitEnds
  <2>1. ops = {} /\ ops' = ops /\ recorded' = NoVersions
    BY <1>5 DEF WaitEnds, Waiting, UpdateVersions, OneOperation
  <2> QED BY <2>1, OneOperationNone
<1>6. CASE createVersion \/ updateVersionStatus \/ refreshVersion \/ writeVersionFails
  <2>1. pc \in WritePCs /\ UNCHANGED <<ops, recorded>>
    BY <1>6 DEF createVersion, updateVersionStatus, refreshVersion, writeVersionFails, WritePCs
  <2>2. ops = {} /\ recorded = NoVersions
    BY <2>1 DEF OneOperation, RecordedInWait, WritePCs
  <2> QED BY <2>1, <2>2, OneOperationNone
<1>7. ASSUME NEW c \in Clusters, TargetEvent(c) PROVE OneOperation'
  BY <1>7, OneOperationFrame DEF TargetEvent
<1>8. ASSUME NEW op \in ops, clusterOperation(op) PROVE OneOperation'
  BY <1>8, OneOperationOp
<1>9. CASE ForeignWrite \/ GarbageCollect \/ Sync
  BY <1>9, OneOperationFrame DEF ForeignWrite, GarbageCollect, Sync
<1>10. CASE Restart
  BY <1>10, OneOperationNone DEF Restart
<1> QED
  BY <1>1, <1>2, <1>3, <1>4, <1>5, <1>6, <1>7, <1>8, <1>9, <1>10, NoTimeouts
     DEF Next, WorkerNext


LEMMA StoredGeneration ==
  ASSUME HasGeneration = TRUE, TypeOK, NEW c \in Clusters, NEW t \in Templates,
         NEW m \in BOOLEAN
  PROVE  /\ Stored(c, t, m).content = t /\ Stored(c, t, m).managed = m
         /\ Stored(c, t, m).version \in Nat \ {0}
         /\ Present(obj[c]) =>
              \/ Stored(c, t, m).version = obj[c].version /\ t = obj[c].content
              \/ Stored(c, t, m).version = obj[c].version + 1
<1>1. Stored(c, t, m).version \in Nat \ {0}
  BY StoredType DEF Object
<1>2. Stored(c, t, m).content = t /\ Stored(c, t, m).managed = m
  BY DEF Stored, Same
<1>3. ASSUME Present(obj[c])
      PROVE  \/ Stored(c, t, m).version = obj[c].version /\ t = obj[c].content
             \/ Stored(c, t, m).version = obj[c].version + 1
  <2>1. obj[c].version \in Nat
    BY EmptyTypes DEF TypeOK, Object
  <2>2. NextVersion(c, t) = obj[c].version + (IF obj[c].content = t THEN 0 ELSE 1)
    BY <1>3 DEF NextVersion
  <2>3. CASE Same(obj[c], t, m)
    BY <2>3 DEF Stored, Same
  <2>4. CASE ~Same(obj[c], t, m)
    BY <2>1, <2>2, <2>4 DEF Stored
  <2> QED BY <2>3, <2>4
<1> QED BY <1>1, <1>2, <1>3

\* An object that keeps its label, or what is recorded of it, keeps following.
LEMMA GenerationGrows ==
  ASSUME NEW o, NEW p, o.version \in Nat, p.version \in Nat, NEW v \in Nat, NEW t,
         Follows(o, v, t),
         \/ p.version = o.version /\ p.content = o.content
         \/ p.version = o.version + 1
  PROVE  Follows(p, v, t)
BY DEF Follows

LEMMA GenerationEdit ==
  ASSUME HasGeneration = TRUE, GenerationInv, NEW c \in Clusters, MemberEdit(c)
  PROVE  \A d \in Clusters : obj'[d].managed => Recent(d)'
<1> USE DEF managerVars, workerVars
<1>0. TypeOK /\ UNCHANGED <<recorded, copy, versions>>
  BY DEF GenerationInv, MemberEdit
<1>1. /\ obj[c] \in Object \union {NoObj} /\ obj[c].managed \in BOOLEAN /\ obj[c].version \in Nat
      /\ obj[c].managed => Present(obj[c])
  <2>1. obj[c] \in Object \union {NoObj}
    BY <1>0 DEF TypeOK
  <2>2. CASE obj[c] \in Object
    BY <2>2 DEF Object, Present
  <2>3. CASE obj[c] = NoObj
    BY <2>3, EmptyTypes
  <2> QED BY <2>1, <2>2, <2>3
<1>2. /\ recorded[c] \in Nat /\ versions.map[c] \in Nat
  BY <1>0 DEF TypeOK, VersionMap, Entry
<1>3. \A d \in Clusters \ {c} : obj'[d] = obj[d]
  BY <1>0 DEF MemberEdit, Write, TypeOK
<1>4. ASSUME obj'[c].managed PROVE Recent(c)'
  <2>1. PICK t \in Templates : Write(c, Stored(c, t, obj[c].managed))
    <3>1. ~Write(c, NoObj)
      <4>1. Write(c, NoObj) => obj'[c] = NoObj
        BY <1>0 DEF Write, TypeOK
      <4> QED BY <1>4, <4>1, EmptyTypes
    <3>2. ASSUME Present(obj[c]) PROVE ~Write(c, Stored(c, obj[c].content, FALSE))
      <4>1. obj[c].content \in Templates
        BY <1>1, <3>2, EmptyTypes DEF Object, Present
      <4>2. ~Stored(c, obj[c].content, FALSE).managed
        BY <1>0, <4>1, StoredGeneration
      <4>3. Write(c, Stored(c, obj[c].content, FALSE)) =>
              obj'[c] = Stored(c, obj[c].content, FALSE)
        BY <1>0 DEF Write, TypeOK
      <4> QED BY <1>4, <4>2, <4>3
    <3> QED BY <3>1, <3>2 DEF MemberEdit
  <2>2. obj'[c] = Stored(c, t, obj[c].managed)
    BY <1>0, <2>1 DEF Write, TypeOK
  <2>3. /\ obj'[c].content = t /\ obj'[c].managed = obj[c].managed
        /\ obj'[c].version \in Nat \ {0}
        /\ Present(obj[c]) =>
              \/ obj'[c].version = obj[c].version /\ t = obj[c].content
              \/ obj'[c].version = obj[c].version + 1
    BY <1>0, <1>1, <2>2, StoredGeneration
  <2>4. Present(obj[c]) /\ Recent(c)
    BY <1>1, <1>4, <2>3 DEF GenerationInv
  <2>5. \A v \in Nat : \A x : Follows(obj[c], v, x) => Follows(obj'[c], v, x)
    BY <1>1, <2>3, <2>4, GenerationGrows
  <2> QED BY <1>0, <1>2, <2>4, <2>5 DEF Recent
<1> QED BY <1>0, <1>3, <1>4 DEF GenerationInv, Recent

\* A write of the controller is recorded.
LEMMA GenerationOperation ==
  ASSUME HasGeneration = TRUE, GenerationInv, NEW op \in ops, clusterOperation(op)
  PROVE  \A d \in Clusters : obj'[d].managed => Recent(d)'
<1> USE DEF memberVars, managerVars
<1> DEFINE c == op.cluster
<1>0. /\ TypeOK /\ UNCHANGED <<copy, versions>> /\ c \in Clusters /\ op.template \in Templates
      /\ op.late = 0 /\ op.template = copy.template
      /\ recorded \in [Clusters -> Nat] /\ obj \in [Clusters -> Object \union {NoObj}]
  BY DEF GenerationInv, OneOperation, TypeOK, Operation, VersionMap, clusterOperation
<1>1. CASE UNCHANGED <<obj, recorded>>
  BY <1>0, <1>1 DEF GenerationInv, Recent
<1>2. CASE Write(c, NoObj) /\ UNCHANGED recorded
  <2>1. \A d \in Clusters : obj'[d] = IF d = c THEN NoObj ELSE obj[d]
    BY <1>0, <1>2 DEF Write
  <2> QED BY <1>0, <1>2, <2>1, EmptyTypes DEF GenerationInv, Recent
<1>3. CASE Write(c, Stored(c, op.template, TRUE)) /\ Record(op, obj'[c].version)
  <2>1. /\ obj'[c] = Stored(c, op.template, TRUE)
        /\ \A d \in Clusters \ {c} : obj'[d] = obj[d] /\ recorded'[d] = recorded[d]
        /\ recorded'[c] = obj'[c].version
    BY <1>0, <1>3 DEF Write, Record
  <2>2. obj'[c].content = op.template /\ obj'[c].version \in Nat \ {0}
    <3>1. \A m \in BOOLEAN : /\ Stored(c, op.template, m).content = op.template
                             /\ Stored(c, op.template, m).version \in Nat \ {0}
      BY <1>0, StoredGeneration
    <3> QED BY <2>1, <3>1
  <2>3. Recent(c)'
    BY <1>0, <2>1, <2>2 DEF Recent, Follows
  <2> QED BY <1>0, <2>1, <2>3 DEF GenerationInv, Recent
<1> QED BY <1>1, <1>2, <1>3 DEF clusterOperation, Create, Update, Put, DeleteObject


LEMMA NoCrashes ==
  ASSUME MaxCrashes = 0, TypeOK, hasSynced
  PROVE  ~Restart /\ ~Sync
<1>1. used["crashes"] \in Nat /\ Limit["crashes"] = 0
  BY DEF TypeOK, Bounds, Limit
<1> QED BY <1>1 DEF Restart, Sync, Spend

LEMMA GenerationStep ==
  ASSUME HasGeneration = TRUE, MaxTimeouts = 0, MaxCrashes = 0, GenerationInv, [Next]_vars
  PROVE  GenerationInv'
<1> USE DEF memberVars, managerVars, workerVars
<1>0. /\ TypeOK /\ hasSynced /\ OneOperation
      /\ \A c \in Clusters : obj[c].managed => Recent(c)
  BY DEF GenerationInv
<1>t. TypeOK' /\ OneOperation'
  BY <1>0, TypeStep, OneOperationStep
<1>r. ~Restart /\ ~Sync
  BY <1>0, NoCrashes
<1>s. hasSynced'
  BY <1>0, <1>r
     DEF Next, vars, UserNext, UserCreates, UserEdits, UserDeletes, MemberEdit, WorkerNext,
         syncToClusters, ensureDeletion, reconcileNothing, WaitEnds, WaitTimesOut, createVersion,
         updateVersionStatus, refreshVersion, writeVersionFails, TargetEvent, clusterOperation,
         ForeignWrite, GarbageCollect
<1> SUFFICES \A c \in Clusters : obj'[c].managed => Recent(c)'
  BY <1>s, <1>t DEF GenerationInv
<1>z. \A c \in Clusters : NoVersions[c] = 0
  BY DEF NoVersions
<1>f. ASSUME UNCHANGED <<obj, recorded, copy>>, versions'.map = versions.map,
             versions'.template = versions.template
      PROVE  \A c \in Clusters : obj'[c].managed => Recent(c)'
  BY <1>0, <1>f DEF Recent
\* The worker has nothing recorded.
<1>i. ASSUME UNCHANGED obj, recorded = NoVersions, recorded' = NoVersions,
             versions'.map = versions.map, versions'.template = versions.template
      PROVE  \A c \in Clusters : obj'[c].managed => Recent(c)'
  BY <1>0, <1>z, <1>i DEF Recent
<1>1. CASE UNCHANGED vars
  BY <1>1, <1>f DEF vars
<1>2. CASE UserNext
  <2>1. ASSUME NEW c \in Clusters, MemberEdit(c)
        PROVE  \A d \in Clusters : obj'[d].managed => Recent(d)'
    BY <2>1, GenerationEdit
  <2> QED BY <1>2, <1>f, <2>1 DEF UserNext, UserCreates, UserEdits, UserDeletes
<1>3. CASE syncToClusters
  <2>1. recorded = NoVersions
    BY <1>0, <1>3 DEF syncToClusters, OneOperation, RecordedInWait
  <2> QED BY <1>3, <1>i, <2>1 DEF syncToClusters
<1>4. CASE ensureDeletion
  <2>1. \A c \in Clusters : obj'[c].managed <=> FALSE
    BY <1>4, EmptyTypes DEF ensureDeletion
  <2> QED BY <2>1
<1>5. CASE reconcileNothing
  BY <1>5, <1>f DEF reconcileNothing
<1>6. CASE WaitEnds
  <2>1. /\ versions' = NewEntry /\ recorded' = NoVersions /\ obj' = obj
    BY <1>6 DEF WaitEnds, UpdateVersions
  <2>2. /\ versions'.template = copy.template
        /\ versions'.map = updateClusterVersions(Get(copy.template))
    BY <2>1 DEF NewEntry, UpdatedEntry
  <2>3. ASSUME NEW c \in Clusters, obj[c].managed
        PROVE  Follows(obj[c], versions'.map[c], copy.template)
    <3>1. versions'.map[c] = IF recorded[c] # 0 THEN recorded[c]
                             ELSE IF c \in copy.placement THEN Get(copy.template)[c] ELSE 0
      BY <2>2 DEF updateClusterVersions
    <3>2. CASE recorded[c] # 0
      BY <1>0, <2>3, <3>1, <3>2 DEF Recent
    <3>3. CASE recorded[c] = 0
      <4>1. Follows(obj[c], versions.map[c], versions.template)
        BY <1>0, <2>3, <3>3 DEF Recent
      <4>2. \/ versions'.map[c] = 0
            \/ versions'.map[c] = versions.map[c] /\ versions.template = copy.template
        BY <1>z, <3>1, <3>3 DEF Get
      <4> QED BY <4>1, <4>2 DEF Follows
    <3> QED BY <3>2, <3>3
  <2> QED BY <1>z, <2>1, <2>2, <2>3 DEF Recent
<1>7. CASE createVersion \/ updateVersionStatus \/ refreshVersion \/ writeVersionFails
  <2>1. pc \in WritePCs /\ UNCHANGED <<obj, recorded>>
    BY <1>7 DEF createVersion, updateVersionStatus, refreshVersion, writeVersionFails, WritePCs
  <2>2. recorded = NoVersions
    BY <1>0, <2>1 DEF OneOperation, RecordedInWait, WritePCs
  <2>3. versions'.map = versions.map /\ versions'.template = versions.template
    BY <1>0, <1>7 DEF createVersion, updateVersionStatus, refreshVersion, writeVersionFails,
                      TypeOK, Entry
  <2> QED BY <1>i, <2>1, <2>2, <2>3
<1>8. ASSUME NEW c \in Clusters, TargetEvent(c)
      PROVE  \A d \in Clusters : obj'[d].managed => Recent(d)'
  BY <1>8, <1>f DEF TargetEvent
<1>9. ASSUME NEW op \in ops, clusterOperation(op)
      PROVE  \A d \in Clusters : obj'[d].managed => Recent(d)'
  BY <1>9, GenerationOperation
<1>10. CASE ForeignWrite
  <2>1. versions'.map = versions.map /\ versions'.template = versions.template
    BY <1>0, <1>10 DEF ForeignWrite, TypeOK, Entry
  <2> QED BY <1>10, <1>f, <2>1 DEF ForeignWrite
<1>11. CASE GarbageCollect
  BY <1>11, <1>f DEF GarbageCollect
<1> QED
  BY <1>0, <1>r, <1>1, <1>2, <1>3, <1>4, <1>5, <1>6, <1>7, <1>8, <1>9, <1>10, <1>11, NoTimeouts
     DEF Next, WorkerNext

\* Generations tell the content, as long as every write is recorded.
LEMMA GenerationSkips == HasGeneration = TRUE /\ GenerationInv => SkipsSound
<1> SUFFICES ASSUME HasGeneration = TRUE, GenerationInv, NEW op \in ops,
                    op.kind = "update", op.seen = obj[op.cluster], Present(op.seen),
                    ~ObjectNeedsUpdate(op.seen, Get(op.template)[op.cluster])
             PROVE  op.seen.content = op.template
  BY DEF SkipsSound
<1>1. op.cluster \in Clusters /\ recorded[op.cluster] = 0
  BY DEF GenerationInv, OneOperation, TypeOK, Operation
<1>2. op.seen.version = Get(op.template)[op.cluster] /\ op.seen.managed /\ op.seen.version # 0
  BY DEF ObjectNeedsUpdate, Present
<1>3. /\ versions.template = op.template
      /\ op.seen.version = versions.map[op.cluster]
  BY <1>1, <1>2 DEF Get, NoVersions
<1>4. Follows(op.seen, op.seen.version, op.template)
  BY <1>1, <1>2, <1>3 DEF GenerationInv, Recent
<1>5. op.seen.version \in Nat
  BY <1>1, EmptyTypes DEF GenerationInv, TypeOK, Object
<1> QED BY <1>2, <1>4, <1>5 DEF Follows

LEMMA UpdatesInit == Init => UpdatesInv
<1> SUFFICES ASSUME Init PROVE UpdatesInv
  OBVIOUS
<1>1. \A c \in Clusters : obj[c] = NoObj /\ store[c] = NoObj
  BY DEF Init
<1>2. InStep
  BY <1>1, EmptyTypes DEF InStep, Cached
<1>3. ContentInv
  BY DEF Init, ContentInv, NoFed
<1> QED BY <1>2, <1>3, TypeInit DEF UpdatesInv

LEMMA OneOperationInit == Init => OneOperation
BY DEF Init, OneOperation, RecordedInWait

LEMMA UpdatesRest == UpdatesInv => NoMissedUpdate
<1> SUFFICES ASSUME UpdatesInv, AtRest, NEW c \in fed.placement, Present(store[c])
             PROVE  store[c].content = fed.template
  BY DEF NoMissedUpdate
<1>1. Settled(c) /\ ops = {}
  BY DEF AtRest, Settled
<1> QED BY <1>1 DEF UpdatesInv, ContentInv, Working

\* When nothing is left to do, every labelled object of a selected cluster has the content
\* of the template.  For types versioned by resource version this holds whatever edits,
\* conflicts, failed writes, timeouts and restarts came before; for types versioned by
\* generation as long as every write of the controller is recorded, that is without
\* dispatcher timeouts and without restarts: an object that was deleted and created anew
\* counts its generations from 1 again.
THEOREM NoUpdateIsMissed ==
  (HasGeneration => MaxTimeouts = 0 /\ MaxCrashes = 0) => (Spec => []NoMissedUpdate)
<1>1. SUFFICES ASSUME HasGeneration => MaxTimeouts = 0 /\ MaxCrashes = 0
               PROVE  Spec => []NoMissedUpdate
  OBVIOUS
<1>2. CASE HasGeneration = FALSE
  <2>1. RevisionInv /\ [Next]_vars => RevisionInv'
    BY <1>2, RevisionStep
  <2>2. RevisionInv /\ UpdatesInv /\ [Next]_vars => UpdatesInv'
    BY <1>2, RevisionSkips, ContentStep
  <2> QED BY <2>1, <2>2, RevisionInit, UpdatesInit, UpdatesRest, PTL DEF Spec
<1>3. CASE HasGeneration = TRUE
  <2>1. GenerationInv /\ [Next]_vars => GenerationInv'
    BY <1>1, <1>3, GenerationStep
  <2>2. GenerationInv /\ UpdatesInv /\ [Next]_vars => UpdatesInv'
    BY <1>3, GenerationSkips, ContentStep
  <2>3. Init => GenerationInv
    BY TypeInit, OneOperationInit, EmptyTypes DEF Init, GenerationInv
  <2> QED BY <2>1, <2>2, <2>3, UpdatesInit, UpdatesRest, PTL DEF Spec
<1> QED BY <1>2, <1>3, VersionAssumption


-----------------------------------------------------------------------------
(* Versions are current *)

\* What the manager knows of c, or will when the operations that wait have ended.
KnownVersion(c) ==
  IF pc = "wait" THEN updateClusterVersions(Get(copy.template))[c]
  ELSE Get(fed.template)[c]

Known(c) ==
  IF c \in fed.placement
  THEN Settled(c) => KnownVersion(c) = store[c].version \/ Working(c)
  ELSE KnownVersion(c) = 0

\* In its last reconciliation the worker has the resource as it is, and what its operations
\* have not yet compared with the versions is known.
KnownInv ==
  ~queue /\ hasSynced /\ Exists(fed) =>
    (pc = "wait" => copy = fed) /\ \A c \in Clusters : Known(c)

CurrentInv == TypeOK /\ InStep /\ OneOperation /\ KnownInv

\* What is known while the operations are out.
LEMMA KnownInWait ==
  ASSUME pc = "wait", copy = fed, NEW c \in Clusters
  PROVE  KnownVersion(c) = IF recorded[c] # 0 THEN recorded[c]
                           ELSE IF c \in fed.placement THEN Get(fed.template)[c] ELSE 0
BY DEF KnownVersion, updateClusterVersions

LEMMA KnownFrame ==
  ASSUME TypeOK, KnownInv, UNCHANGED <<fed, store, ops, pc, copy, recorded>>, lag \subseteq lag',
         queue => queue', hasSynced' => hasSynced, versions'.owner = versions.owner,
         versions'.template = versions.template, versions'.map = versions.map
  PROVE  KnownInv'
<1>1. \A t : Get(t)' = Get(t)
  BY DEF Get, Recorded
<1>2. \A c \in Clusters : KnownVersion(c)' = KnownVersion(c)
  BY <1>1 DEF KnownVersion, updateClusterVersions
<1> SUFFICES ASSUME ~queue', hasSynced', Exists(fed)
             PROVE  (pc = "wait" => copy = fed) /\ \A c \in Clusters : Known(c)'
  BY DEF KnownInv, Exists
<1>3. (pc = "wait" => copy = fed) /\ \A c \in Clusters : Known(c)
  BY DEF KnownInv
<1>4. \A c \in Clusters : (Settled(c)' => Settled(c)) /\ (Working(c) => Working(c)')
  BY DEF Settled, Working
<1> QED BY <1>2, <1>3, <1>4 DEF Known

\* A step after which the worker is out of the wait, with the entry it had.
LEMMA KnownWrites ==
  ASSUME TypeOK, KnownInv, pc # "wait", pc' # "wait", UNCHANGED <<fed, store, ops>>,
         lag = lag', queue' = queue, hasSynced' = hasSynced, versions'.owner = versions.owner,
         versions'.template = versions.template, versions'.map = versions.map
  PROVE  KnownInv'
<1>1. \A t : Get(t)' = Get(t)
  BY DEF Get, Recorded
<1>2. \A c \in Clusters : KnownVersion(c)' = KnownVersion(c)
  BY <1>1 DEF KnownVersion
<1> SUFFICES ASSUME ~queue', hasSynced', Exists(fed)
             PROVE  \A c \in Clusters : Known(c)'
  BY DEF KnownInv, Exists
<1>3. \A c \in Clusters : Known(c)
  BY DEF KnownInv
<1>4. \A c \in Clusters : (Settled(c)' => Settled(c)) /\ (Working(c) => Working(c)')
  BY DEF Settled, Working
<1> QED BY <1>2, <1>3, <1>4 DEF Known

LEMMA KnownOperation ==
  ASSUME CurrentInv, NEW op \in ops, clusterOperation(op)
  PROVE  KnownInv'
<1> USE DEF memberVars, managerVars
<1> DEFINE c == op.cluster
<1>0. /\ TypeOK /\ InStep /\ OneOperation /\ KnownInv /\ c \in Clusters /\ op \in Operation
      /\ op.template \in Templates /\ op.seen \in Object \union {NoObj}
      /\ obj[c] \in Object \union {NoObj} /\ recorded \in [Clusters -> Nat]
  BY DEF CurrentInv, TypeOK, Operation, VersionMap
<1>1. UNCHANGED <<fed, queue, hasSynced, store, pc, copy, versions>> /\ pc = "wait"
  BY <1>0 DEF OneOperation, clusterOperation, Create, Update, Put, DeleteObject, Write
<1>2. /\ lag \subseteq lag' /\ \A d \in Clusters \ {c} : d \in lag' => d \in lag
      /\ c \notin lag' /\ Present(store[c]) => store[c] = obj[c] /\ obj'[c] = obj[c]
  <2>1. CASE UNCHANGED memberVars
    <3>1. c \notin lag => store[c] = Cached(obj[c])
      BY <1>0 DEF InStep
    <3>2. ~Present(NoObj)
      BY EmptyTypes DEF Present
    <3> QED BY <2>1, <3>1, <3>2 DEF Cached
  <2>2. CASE \E o \in Object \union {NoObj} : Write(c, o)
    BY <1>0, <2>2, WriteHeard
  <2> QED BY <1>0, <2>1, <2>2, OperationWrites
<1>3. \A x \in ops : x # op => x \in ops' /\ x.cluster # c
  BY <1>0 DEF OneOperation, clusterOperation, Create, Update, Put, DeleteObject
<1>4. \A d \in Clusters \ {c} : recorded'[d] = recorded[d]
  BY <1>0 DEF clusterOperation, Create, Update, Put, DeleteObject, Record
<1> SUFFICES ASSUME ~queue, hasSynced, Exists(fed)
             PROVE  copy = fed /\ \A d \in Clusters : Known(d)'
  BY <1>1 DEF KnownInv
<1>5. copy = fed /\ \A d \in Clusters : Known(d)
  BY <1>0, <1>1 DEF KnownInv
<1>6. \A t : Get(t)' = Get(t)
  BY <1>1 DEF Get
<1>7. \A d \in Clusters : recorded'[d] = recorded[d] => KnownVersion(d)' = KnownVersion(d)
  BY <1>1, <1>5, <1>6 DEF KnownVersion, updateClusterVersions
<1>8. ASSUME NEW d \in Clusters \ {c} PROVE Known(d)'
  <2>1. Settled(d)' => Settled(d)
    BY <1>1, <1>2 DEF Settled
  <2>2. Working(d) => Working(d)'
    BY <1>1, <1>3 DEF Working
  <2> QED BY <1>1, <1>4, <1>5, <1>7, <2>1, <2>2 DEF Known
<1>9. Known(c)'
  <2>1. CASE c \notin fed.placement
    <3>1. op.kind = "delete"
      BY <1>0, <1>5, <2>1 DEF OneOperation
    <3>2. recorded' = recorded
      BY <3>1 DEF clusterOperation, Create, Update, Put, DeleteObject
    <3> QED BY <1>0, <1>1, <1>5, <1>7, <2>1, <3>2 DEF Known
  <2>2. CASE c \in fed.placement
    <3> SUFFICES ASSUME Settled(c)'
                 PROVE  KnownVersion(c)' = store[c].version \/ Working(c)'
      BY <1>1, <2>2 DEF Known
    <3>1. /\ Settled(c) /\ c \notin lag' /\ store[c] = obj[c] /\ obj'[c] = obj[c]
          /\ Present(store[c])
      BY <1>1, <1>2 DEF Settled
    <3>2. KnownVersion(c) = store[c].version \/ Working(c)
      BY <1>0, <1>5, <2>2, <3>1 DEF Known
    <3>3. Working(c) => op.template = fed.template /\ op.kind \in {"update", "put"} /\ op.seen = store[c]
      BY <1>3 DEF Working
    <3>4. recorded[c] = 0 /\ op.late = 0
      BY <1>0 DEF OneOperation
    <3>5. KnownVersion(c) = Get(fed.template)[c]
      BY <1>0, <1>1, <1>5, <2>2, <3>4, KnownInWait
    <3>6. CASE Create(op)
      <4>1. Present(obj[c])
        BY <3>1
      <4> DEFINE y == [op EXCEPT !.kind = "update", !.seen = obj[c]]
      <4>2. y \in ops' /\ recorded' = recorded
        BY <3>6, <4>1 DEF Create
      <4>3. y.cluster = c /\ y.template = op.template /\ y.kind = "update" /\ y.seen = obj[c]
        BY <1>0 DEF Operation
      <4>4. op.template = fed.template
        BY <1>0, <1>5 DEF OneOperation
      <4> HIDE DEF y
      <4> QED BY <1>1, <3>1, <4>2, <4>3, <4>4 DEF Working
    <3>7. CASE Update(op)
      <4>1. recorded' = recorded
        BY <3>7 DEF Update
      <4>2. CASE KnownVersion(c) = store[c].version
        BY <1>0, <1>7, <4>1, <4>2
      <4>3. CASE Working(c)
        <5>1. CASE ObjectNeedsUpdate(op.seen, Get(op.template)[c])
          <6> DEFINE y == [op EXCEPT !.kind = "put"]
          <6>1. y \in ops'
            BY <3>7, <5>1 DEF Update
          <6>2. y.cluster = c /\ y.template = op.template /\ y.kind = "put" /\ y.seen = op.seen
            BY <1>0 DEF Operation
          <6> HIDE DEF y
          <6> QED BY <1>1, <3>3, <4>3, <6>1, <6>2 DEF Working
        <5>2. CASE ~ObjectNeedsUpdate(op.seen, Get(op.template)[c])
          <6>1. Get(fed.template)[c] = store[c].version
            BY <3>3, <4>3, <5>2 DEF ObjectNeedsUpdate
          <6> QED BY <1>0, <1>7, <3>5, <4>1, <6>1
        <5> QED BY <5>1, <5>2
      <4> QED BY <3>2, <4>2, <4>3
    <3>8. CASE Put(op)
      <4>1. CASE obj[c] = op.seen
        <5>1. recorded'[c] = obj'[c].version
          BY <1>0, <3>4, <3>8, <4>1 DEF Put, Record
        <5>2. recorded'[c] = store[c].version /\ recorded'[c] # 0
          BY <3>1, <5>1 DEF Present
        <5>3. KnownVersion(c)' = recorded'[c]
          BY <1>0, <1>1, <1>5, <5>2 DEF KnownVersion, updateClusterVersions
        <5> QED BY <5>2, <5>3
      <4>2. CASE obj[c] # op.seen
        <5>1. recorded' = recorded /\ ~Working(c)
          BY <3>1, <3>3, <3>8, <4>2 DEF Put
        <5> QED BY <1>0, <1>7, <3>2, <5>1
      <4> QED BY <4>1, <4>2
    <3>9. CASE DeleteObject(op)
      <4>1. recorded' = recorded /\ ~Working(c)
        BY <3>3, <3>9 DEF DeleteObject
      <4> QED BY <1>0, <1>7, <3>2, <4>1
    <3> QED BY <3>6, <3>7, <3>8, <3>9 DEF clusterOperation
  <2> QED BY <2>1, <2>2
<1> QED BY <1>5, <1>8, <1>9


LEMMA KnownStep ==
  ASSUME MaxTimeouts = 0, CurrentInv, [Next]_vars
  PROVE  CurrentInv'
<1> USE DEF memberVars, managerVars, workerVars
<1>0. TypeOK /\ InStep /\ OneOperation /\ KnownInv
  BY DEF CurrentInv
<1>t. TypeOK' /\ InStep' /\ OneOperation'
  BY <1>0, TypeStep, InStepStep, OneOperationStep
<1> SUFFICES KnownInv'
  BY <1>t DEF CurrentInv
<1>q. ASSUME queue' \/ ~hasSynced' PROVE KnownInv'
  BY <1>q DEF KnownInv
<1>n. ASSUME fed' = NoFed PROVE KnownInv'
  BY <1>n DEF KnownInv, NoFed, Exists
<1>v. ASSUME UNCHANGED <<fed, store, ops, pc, copy, recorded, queue, hasSynced, versions>>,
             lag \subseteq lag'
      PROVE  KnownInv'
  BY <1>0, <1>v, KnownFrame
<1>z. \A c \in Clusters : NoVersions[c] = 0
  BY DEF NoVersions
<1>1. CASE UNCHANGED vars
  BY <1>1, <1>v DEF vars
<1>2. CASE UserNext
  <2>1. ASSUME NEW c \in Clusters, MemberEdit(c) PROVE KnownInv'
    <3>1. lag \subseteq lag' /\ store' = store
      BY <2>1 DEF MemberEdit, Write
    <3> QED BY <2>1, <1>v, <3>1 DEF MemberEdit
  <2> QED BY <1>2, <1>q, <2>1 DEF UserNext, UserCreates, UserEdits, UserDeletes
<1>3. CASE syncToClusters
  <2>1. /\ UNCHANGED <<fed, store, versions>> /\ copy' = fed /\ pc' = "wait"
        /\ recorded' = NoVersions
    BY <1>3 DEF syncToClusters
  <2>2. ASSUME NEW c \in fed.placement, c \in Clusters, Present(store[c]) PROVE Working(c)'
    <3>1. NewOp(c) \in ops'
      BY <1>3, <2>2 DEF syncToClusters
    <3>2. /\ NewOp(c).cluster = c /\ NewOp(c).template = fed.template
          /\ NewOp(c).seen = store[c] /\ NewOp(c).kind = "update"
      BY <2>2 DEF NewOp
    <3> QED BY <2>1, <3>1, <3>2 DEF Working
  <2>3. ASSUME NEW c \in Clusters, c \notin fed.placement PROVE KnownVersion(c)' = 0
    <3>1. KnownVersion(c)' = updateClusterVersions(Get(copy.template))'[c]
      BY <2>1 DEF KnownVersion
    <3> QED BY <1>z, <2>1, <2>3, <3>1 DEF updateClusterVersions
  <2>4. \A c \in Clusters : Known(c)'
    BY <2>1, <2>2, <2>3 DEF Known, Settled
  <2> QED BY <2>1, <2>4 DEF KnownInv
<1>4. CASE ensureDeletion
  BY <1>4, <1>n DEF ensureDeletion
<1>5. CASE reconcileNothing
  <2>1. fed = NoFed
    BY <1>0, <1>5 DEF reconcileNothing, TypeOK, Exists, FedResource
  <2> QED BY <1>5, <1>n, <2>1 DEF reconcileNothing
<1>6. CASE WaitEnds
  <2>1. /\ UNCHANGED <<fed, store, lag, queue, hasSynced, ops>> /\ ops = {} /\ pc = "wait"
        /\ pc' # "wait" /\ versions' = NewEntry
    BY <1>0, <1>6 DEF WaitEnds, Waiting, UpdateVersions, OneOperation, Leave
  <2> SUFFICES ASSUME ~queue, hasSynced, Exists(fed) PROVE \A c \in Clusters : Known(c)'
    BY <2>1 DEF KnownInv
  <2>2. copy = fed /\ \A c \in Clusters : Known(c)
    BY <1>0, <2>1 DEF KnownInv
  <2>3. /\ versions'.template = fed.template /\ versions'.owner # 0
        /\ versions'.map = updateClusterVersions(Get(copy.template))
    BY <2>1, <2>2 DEF NewEntry, UpdatedEntry, Recorded, Exists
  <2>4. Get(fed.template)' = updateClusterVersions(Get(copy.template))
    BY <2>1, <2>3 DEF Get, Recorded
  <2>5. \A c \in Clusters : KnownVersion(c)' = KnownVersion(c)
    BY <2>1, <2>4 DEF KnownVersion
  <2>6. \A c \in Clusters : (Settled(c)' => Settled(c)) /\ ~Working(c)
    BY <2>1 DEF Settled, Working
  <2> QED BY <2>1, <2>2, <2>5, <2>6 DEF Known
<1>7. CASE createVersion \/ updateVersionStatus \/ refreshVersion \/ writeVersionFails
  <2>1. /\ pc # "wait" /\ pc' # "wait" /\ UNCHANGED <<fed, store, lag, queue, hasSynced, ops>>
    BY <1>7 DEF createVersion, updateVersionStatus, refreshVersion, writeVersionFails, WritePCs,
                Leave
  <2>2. /\ versions'.map = versions.map /\ versions'.template = versions.template
        /\ versions'.owner = versions.owner
    BY <1>0, <1>7 DEF createVersion, updateVersionStatus, refreshVersion, writeVersionFails,
                      TypeOK, Entry
  <2> QED BY <1>0, <2>1, <2>2, KnownWrites
<1>8. ASSUME NEW c \in Clusters, TargetEvent(c) PROVE KnownInv'
  BY <1>8, <1>q DEF TargetEvent
<1>9. ASSUME NEW op \in ops, clusterOperation(op) PROVE KnownInv'
  BY <1>9, KnownOperation
<1>10. CASE ForeignWrite
  <2>1. /\ versions'.map = versions.map /\ versions'.template = versions.template
        /\ versions'.owner = versions.owner
    BY <1>0, <1>10 DEF ForeignWrite, TypeOK, Entry
  <2> QED BY <1>0, <1>10, <2>1, KnownFrame DEF ForeignWrite
<1>11. CASE GarbageCollect
  BY <1>11, <1>v DEF GarbageCollect
<1>12. CASE Restart \/ Sync
  BY <1>12, <1>q DEF Restart, Sync
<1> QED
  BY <1>0, <1>1, <1>2, <1>3, <1>4, <1>5, <1>6, <1>7, <1>8, <1>9, <1>10, <1>11, <1>12, NoTimeouts
     DEF Next, WorkerNext

LEMMA KnownRest == CurrentInv => VersionsCurrent
<1> SUFFICES ASSUME CurrentInv, AtRest, Exists(fed), NEW c \in Clusters
             PROVE  IF c \in fed.placement
                    THEN Present(store[c]) => Get(fed.template)[c] = store[c].version
                    ELSE Get(fed.template)[c] = 0
  BY DEF VersionsCurrent
<1>1. Known(c) /\ pc # "wait" /\ ops = {}
  BY DEF CurrentInv, KnownInv, AtRest
<1>2. KnownVersion(c) = Get(fed.template)[c] /\ ~Working(c)
  BY <1>1 DEF KnownVersion, Working
<1>3. Present(store[c]) => Settled(c)
  BY DEF AtRest, Settled
<1> QED BY <1>1, <1>2, <1>3 DEF Known

\* When nothing is left to do, the manager knows the version of every labelled object of a
\* selected cluster, and of no other, whatever edits, conflicts, failed writes and restarts
\* came before: a restarted manager learns the versions it lost by updates that change
\* nothing.  With timeouts it is false: the version that such an update finds is dropped
\* with the operation that was left behind.
THEOREM VersionsAreCurrent == MaxTimeouts = 0 => (Spec => []VersionsCurrent)
<1>1. SUFFICES ASSUME MaxTimeouts = 0 PROVE Spec => []VersionsCurrent
  OBVIOUS
<1>2. Init => CurrentInv
  <2>1. Init => KnownInv
    BY DEF Init, KnownInv, Exists, NoFed
  <2> QED BY <2>1, UpdatesInit, OneOperationInit DEF CurrentInv, UpdatesInv
<1>3. CurrentInv /\ [Next]_vars => CurrentInv'
  BY <1>1, KnownStep
<1> QED BY <1>2, <1>3, KnownRest, PTL DEF Spec
=============================================================================
