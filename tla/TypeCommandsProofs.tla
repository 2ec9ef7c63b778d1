------------------------- MODULE TypeCommandsProofs -------------------------
(***************************************************************************)
(* No controller outlives its configuration, kubefedctl enables one of      *)
(* several equivalent types, and a type at rest is as its configuration     *)
(* wants it: for users and commands beside a controller whose cache is      *)
(* behind.                                                                  *)
(***************************************************************************)
EXTENDS TypeCommands, TLAPS

LEMMA ConfigTypes ==
  /\ Absent \in TypeConfig /\ ~Exists(Absent) /\ ~Absent.finalizer
  /\ \A uid \in Nat \ {0}, e \in BOOLEAN :
       /\ Created(uid, e) \in TypeConfig /\ Exists(Created(uid, e))
       /\ ~Created(uid, e).finalizer
BY DEF Absent, TypeConfig, Exists, Created

LEMMA SteadyTypes ==
  ASSUME NEW t, NEW e \in BOOLEAN
  PROVE  Steady(t, e) \in TypeConfig /\ Exists(Steady(t, e))
<1> DEFINE o == [Created(1, e) EXCEPT !.observed = 1]
           p(b) == [o EXCEPT !.finalizer = TRUE, !.reported = e, !.collected = b]
<1>1. Created(1, e) \in TypeConfig /\ Exists(Created(1, e))
  BY ConfigTypes
<1>2. o \in TypeConfig /\ Exists(o)
  BY <1>1 DEF TypeConfig, Exists
<1> HIDE DEF o
<1>3. \A b \in BOOLEAN : p(b) \in TypeConfig /\ Exists(p(b))
  BY <1>2 DEF TypeConfig, Exists
<1>4. Steady(t, e) \in {o, p(t \in StatusTypes)}
  BY DEF Steady, o
<1> HIDE DEF p
<1>5. (t \in StatusTypes) \in BOOLEAN
  OBVIOUS
<1> QED
  BY <1>2, <1>3, <1>4, <1>5

LEMMA TypesInit == CommandsInit => CommandsTypeOK
<1> SUFFICES ASSUME CommandsInit PROVE CommandsTypeOK
  OBVIOUS
<1>1. Absent \in TypeConfig /\ \A e \in BOOLEAN : Created(1, e) \in TypeConfig
  BY ConfigTypes
<1>2. ASSUME Init PROVE TypeOK
  <2>1. api \in [Types -> TypeConfig] /\ store \in [Types -> TypeConfig]
    BY <1>1, <1>2 DEF Init
  <2> QED
    BY <1>2, <2>1, TypeConfigsAssumption DEF Init, TypeOK, NotRunning
<1>3. ASSUME SteadyInit PROVE TypeOK
  <2>1. api \in [Types -> TypeConfig] /\ store \in [Types -> TypeConfig]
    BY <1>1, <1>3, SteadyTypes DEF SteadyInit
  <2>2. sync \in [Types -> [uid : Nat, gen : Nat]]
    BY <1>3, <2>1 DEF SteadyInit, NotRunning, Holder, Config, TypeConfig
  <2>3. used \in [edits : 0 .. MaxEdits, faults : 0 .. MaxFaults]
    BY <1>3, TypeConfigsAssumption DEF SteadyInit
  <2>4. pending \subseteq Types /\ status \subseteq StatusTypes /\ limited \in BOOLEAN
    BY <1>3 DEF SteadyInit
  <2> QED
    BY <2>1, <2>2, <2>3, <2>4 DEF TypeOK
<1>4. TypeOK
  BY <1>2, <1>3 DEF CommandsInit
<1> QED
  BY <1>1, <1>4, TypeConfigsAssumption, CommandsAssumption DEF CommandsInit, CommandsTypeOK, NoCommand

-----------------------------------------------------------------------------
(* What a step of the controller writes                                    *)

\* A written object exists and has the finalizer.
LEMMA WrittenTypes ==
  ASSUME TypeOK, NEW t \in Types, Exists(store[t])
  PROVE  /\ ensureFinalizer(t) \in TypeConfig /\ WithStatus(t, ensureFinalizer(t)) \in TypeConfig
         /\ Exists(ensureFinalizer(t)) /\ ensureFinalizer(t).finalizer
         /\ Exists(WithStatus(t, ensureFinalizer(t))) /\ WithStatus(t, ensureFinalizer(t)).finalizer
<1> DEFINE o == ensureFinalizer(t)
           p(a, b) == [o EXCEPT !.observed = o.gen, !.reported = a, !.collected = b]
           a == StartNewSync(t) \/ (sync[t] # NotRunning /\ ~StopSync(t))
<1>1. o \in TypeConfig /\ Exists(o) /\ o.finalizer
  BY DEF TypeOK, TypeConfig, ensureFinalizer, Exists
<1> HIDE DEF o
<1>2. \A c, d \in BOOLEAN : p(c, d) \in TypeConfig /\ Exists(p(c, d)) /\ p(c, d).finalizer
  BY <1>1 DEF TypeConfig, Exists
<1>3. WithStatus(t, o) = p(a, StatusEnabled(t))
  BY DEF WithStatus
<1>4. a \in BOOLEAN /\ StatusEnabled(t) \in BOOLEAN
  BY DEF StartNewSync, StatusEnabled
<1> HIDE DEF p, a
<1>5. WithStatus(t, o) \in TypeConfig /\ Exists(WithStatus(t, o)) /\ WithStatus(t, o).finalizer
  BY <1>2, <1>3, <1>4
<1> QED
  BY <1>1, <1>5 DEF o

LEMMA ChargeTypes ==
  ASSUME TypeOK, NEW f, Charge(f)
  PROVE  used' \in [edits : 0 .. MaxEdits, faults : 0 .. MaxFaults] /\ used'.edits = used.edits
BY TypeConfigsAssumption DEF TypeOK, Charge

\* What reconcilePresent does to a type, without the reasons: a controller is started
\* only when the cached object has the finalizer or it has just been written.
LEMMA PresentStep ==
  ASSUME TypeOK, NEW t \in Types, reconcilePresent(t)
  PROVE  /\ Exists(store[t]) /\ ~store[t].deleting /\ UNCHANGED <<limited, store>>
         /\ \/ api' = api
            \/ \E o \in {ensureFinalizer(t), WithStatus(t, ensureFinalizer(t))} :
                 store[t] = api[t] /\ api' = [api EXCEPT ![t] = o]
         /\ \E x \in {sync[t], NotRunning, Config(store[t])} : sync' = [sync EXCEPT ![t] = x]
         /\ status' \in {status, status \ {t}} \/ (t \in StatusTypes /\ status' = status \cup {t})
         /\ \/ sync' = sync /\ status' = status
            \/ store[t].finalizer
            \/ \E o \in {ensureFinalizer(t), WithStatus(t, ensureFinalizer(t))} : api' = [api EXCEPT ![t] = o]
         /\ used' \in [edits : 0 .. MaxEdits, faults : 0 .. MaxFaults] /\ used'.edits = used.edits
         /\ pending' \subseteq Types
<1>1. PICK f \in Fails(t) :
       LET adds == ~store[t].finalizer
           finalized == adds => store[t] = api[t] /\ f # "finalizer"
           started == finalized /\ (StartNewSync(t) => startSyncController(t) /\ f # "sync")
           collected == started /\ (StatusEnabled(t) /\ t \notin status => f # "status")
           refreshed == collected /\ (RefreshSync(t) => startSyncController(t) /\ f # "refresh")
           done == refreshed /\ Current(t, f)
       IN  /\ Charge(f)
           /\ sync' = [sync EXCEPT ![t] =
                CASE ~started -> @
                  [] collected /\ RefreshSync(t) -> Refreshed(t, refreshed)
                  [] OTHER -> SyncAfter(t)]
           /\ status' = CASE started /\ ~StatusEnabled(t) -> status \ {t}
                          [] collected /\ StatusEnabled(t) -> status \cup {t}
                          [] OTHER -> status
           /\ api' = [api EXCEPT ![t] =
                IF done THEN WithStatus(t, ensureFinalizer(t))
                ELSE IF finalized /\ adds THEN ensureFinalizer(t) ELSE @]
           /\ pending' = (IF done THEN pending \ {t} ELSE pending)
                \cup (IF finalized /\ adds /\ t = NamespaceType
                      THEN reconcileOnNamespaceFTCUpdate ELSE {})
  BY DEF reconcilePresent
<1> DEFINE adds == ~store[t].finalizer
           finalized == adds => store[t] = api[t] /\ f # "finalizer"
           started == finalized /\ (StartNewSync(t) => startSyncController(t) /\ f # "sync")
           collected == started /\ (StatusEnabled(t) /\ t \notin status => f # "status")
           refreshed == collected /\ (RefreshSync(t) => startSyncController(t) /\ f # "refresh")
           done == refreshed /\ Current(t, f)
<1>2. (refreshed => collected) /\ (collected => started) /\ (started => finalized)
  OBVIOUS
<1>3. done => refreshed /\ store[t] = api[t]
  BY DEF Current
<1>4. finalized /\ adds => store[t] = api[t]
  OBVIOUS
<1>5. Charge(f) /\ pending' \subseteq Types
  BY <1>1, TypeConfigsAssumption DEF TypeOK, reconcileOnNamespaceFTCUpdate
<1>6. status' = CASE started /\ ~StatusEnabled(t) -> status \ {t}
                  [] collected /\ StatusEnabled(t) -> status \cup {t}
                  [] OTHER -> status
  BY <1>1
<1>7. sync' = [sync EXCEPT ![t] =
                CASE ~started -> @
                  [] collected /\ RefreshSync(t) -> Refreshed(t, refreshed)
                  [] OTHER -> SyncAfter(t)]
  BY <1>1
<1>8. api' = [api EXCEPT ![t] =
                IF done THEN WithStatus(t, ensureFinalizer(t))
                ELSE IF finalized /\ adds THEN ensureFinalizer(t) ELSE @]
  BY <1>1
<1>9. StatusEnabled(t) => t \in StatusTypes
  BY DEF StatusEnabled
<1>10. SyncAfter(t) \in {sync[t], NotRunning, Config(store[t])}
       /\ Refreshed(t, refreshed) \in {sync[t], NotRunning, Config(store[t])}
  BY DEF SyncAfter, Refreshed
<1> HIDE DEF adds, finalized, started, collected, refreshed, done
<1>11. \E x \in {sync[t], NotRunning, Config(store[t])} : sync' = [sync EXCEPT ![t] = x]
  BY <1>2, <1>7, <1>10
<1>12. status' \in {status, status \ {t}} \/ (t \in StatusTypes /\ status' = status \cup {t})
  BY <1>6, <1>9
<1>13. /\ done => api' = [api EXCEPT ![t] = WithStatus(t, ensureFinalizer(t))]
       /\ ~done /\ finalized /\ adds => api' = [api EXCEPT ![t] = ensureFinalizer(t)]
       /\ ~done /\ ~(finalized /\ adds) => api' = [api EXCEPT ![t] = api[t]]
  BY <1>8
<1>14. [api EXCEPT ![t] = api[t]] = api /\ [sync EXCEPT ![t] = sync[t]] = sync
  BY DEF TypeOK
<1>15. \/ api' = api
       \/ \E o \in {ensureFinalizer(t), WithStatus(t, ensureFinalizer(t))} :
            store[t] = api[t] /\ api' = [api EXCEPT ![t] = o]
  BY <1>3, <1>4, <1>13, <1>14
<1>16. ~started => sync' = sync /\ status' = status
  BY <1>2, <1>6, <1>7, <1>14
<1>17. started => \/ store[t].finalizer
                  \/ \E o \in {ensureFinalizer(t), WithStatus(t, ensureFinalizer(t))} :
                       api' = [api EXCEPT ![t] = o]
  BY <1>2, <1>13 DEF adds
<1> QED
  BY <1>5, <1>11, <1>12, <1>15, <1>16, <1>17, ChargeTypes DEF reconcilePresent

-----------------------------------------------------------------------------
(* The invariant of the controller                                         *)

Held(t) == Exists(api[t]) /\ api[t].finalizer

\* A cache that is behind is still right about the finalizer of an object that it does
\* not know to be deleted: only the controller removes the finalizer, and only from an
\* object whose deletion it has seen.
CacheTrails ==
  \A t \in Types : Exists(store[t]) /\ store[t].finalizer /\ ~store[t].deleting => Held(t)

ControllerInv == TypeOK /\ CacheTrails /\ NoOrphanController

\* What users and commands do: the object of one type is replaced by another one,
\* without its finalizer only where it had none.
Replaces(t, o) ==
  /\ o \in TypeConfig
  /\ Held(t) => Exists(o) /\ o.finalizer
  /\ api' = [api EXCEPT ![t] = o]
  /\ UNCHANGED <<limited, ctlVars>>

LEMMA ReplaceInv ==
  ASSUME ControllerInv, NEW t \in Types, NEW o, Replaces(t, o),
         used' \in [edits : 0 .. MaxEdits, faults : 0 .. MaxFaults]
  PROVE  ControllerInv'
<1>1. TypeOK'
  BY DEF ControllerInv, TypeOK, Replaces, ctlVars
<1>2. \A u \in Types : Held(u) => Held(u)'
  BY DEF ControllerInv, TypeOK, Replaces, Held
<1> QED
  BY <1>1, <1>2 DEF ControllerInv, CacheTrails, NoOrphanController, Held, Replaces, ctlVars, Syncs

LEMMA NewerTypes ==
  ASSUME NEW o \in TypeConfig, NEW e \in BOOLEAN, NEW c \in BOOLEAN
  PROVE  LET p == [o EXCEPT !.gen = @ + 1, !.enabled = e, !.collect = c]
             q == [o EXCEPT !.deleting = TRUE, !.gen = @ + 1]
         IN  /\ p \in TypeConfig /\ p.uid = o.uid /\ p.finalizer = o.finalizer
             /\ q \in TypeConfig /\ q.uid = o.uid /\ q.finalizer = o.finalizer
<1>1. o.gen + 1 \in Nat
  BY DEF TypeConfig
<1>2. \A n \in Nat :
        /\ [o EXCEPT !.gen = n, !.enabled = e, !.collect = c] \in TypeConfig
        /\ [o EXCEPT !.deleting = TRUE, !.gen = n] \in TypeConfig
  BY DEF TypeConfig
<1> QED
  BY <1>1, <1>2 DEF TypeConfig

LEMMA EditReplaces ==
  ASSUME TypeOK, NEW t \in Types, NEW o \in TypeConfig, Edit(t, o), Held(t) => Exists(o) /\ o.finalizer
  PROVE  /\ Replaces(t, o)
         /\ used' \in [edits : 0 .. MaxEdits, faults : 0 .. MaxFaults]
         /\ used.edits < MaxEdits
BY TypeConfigsAssumption DEF TypeOK, Edit, Replaces

LEMMA UserReplaces ==
  ASSUME TypeOK, NEW t \in Types, UserCreates(t) \/ UserEdits(t) \/ UserDeletes(t)
  PROVE  /\ \E o \in TypeConfig : Replaces(t, o)
         /\ used' \in [edits : 0 .. MaxEdits, faults : 0 .. MaxFaults]
         /\ used.edits < MaxEdits
<1>0. api[t] \in TypeConfig
  BY DEF TypeOK
<1>1. CASE UserCreates(t)
  <2>1. PICK e \in BOOLEAN : Edit(t, Created(used.edits + 2, e))
    BY <1>1 DEF UserCreates
  <2>2. used.edits + 2 \in Nat \ {0}
    BY TypeConfigsAssumption DEF TypeOK
  <2>3. Created(used.edits + 2, e) \in TypeConfig /\ ~Held(t)
    BY <1>1, <2>2, ConfigTypes DEF UserCreates, Held
  <2> QED
    BY <2>1, <2>3, EditReplaces
<1>2. CASE UserEdits(t)
  <2>1. PICK e \in BOOLEAN, c \in BOOLEAN :
          Edit(t, [api[t] EXCEPT !.gen = @ + 1, !.enabled = e, !.collect = c])
    BY <1>2 DEF UserEdits
  <2> DEFINE o == [api[t] EXCEPT !.gen = @ + 1, !.enabled = e, !.collect = c]
  <2>a. o \in TypeConfig /\ o.uid = api[t].uid /\ o.finalizer = api[t].finalizer
    BY <1>0, NewerTypes
  <2>2. o \in TypeConfig /\ (Held(t) => Exists(o) /\ o.finalizer)
    BY <2>a DEF Held, Exists, o
  <2> HIDE DEF o
  <2> QED
    BY <2>1, <2>2, EditReplaces DEF o
<1>3. CASE UserDeletes(t)
  <2> DEFINE o == [api[t] EXCEPT !.deleting = TRUE, !.gen = @ + 1]
  <2>a. o \in TypeConfig /\ o.uid = api[t].uid /\ o.finalizer = api[t].finalizer
    BY <1>0, NewerTypes
  <2>1. o \in TypeConfig /\ (Held(t) => Exists(o) /\ o.finalizer)
    BY <2>a DEF Held, Exists, o
  <2>2. Edit(t, o) \/ (Edit(t, Absent) /\ ~Held(t))
    BY <1>3 DEF UserDeletes, Held
  <2> HIDE DEF o
  <2> QED
    BY <2>1, <2>2, ConfigTypes, EditReplaces
<1> QED
  BY <1>1, <1>2, <1>3

LEMMA ReconcileInv ==
  ASSUME ControllerInv, NEW t \in Types, reconcile(t)
  PROVE  ControllerInv'
<1> USE DEF ControllerInv
<1>1. CASE reconcileAbsent(t)
  BY <1>1 DEF reconcileAbsent, TypeOK, CacheTrails, NoOrphanController, Held, Syncs
<1>2. CASE reconcileOutOfScope(t)
  <2>1. PICK f \in {"nothing", "write"} :
          /\ Charge(f)
          /\ sync' = [sync EXCEPT ![t] = IF @ = NotRunning THEN Holder ELSE @]
          /\ IF Current(t, f)
             THEN /\ api' = [api EXCEPT ![t].observed = store[t].gen, ![t].reported = FALSE,
                                        ![t].collected = FALSE]
                  /\ pending' = pending \ {t}
             ELSE UNCHANGED <<api, pending>>
    BY <1>2 DEF reconcileOutOfScope
  <2> DEFINE o == [api[t] EXCEPT !.observed = store[t].gen, !.reported = FALSE, !.collected = FALSE]
  <2>a. api[t] \in TypeConfig /\ store[t] \in TypeConfig
    BY DEF TypeOK
  <2>b. o \in TypeConfig /\ (Exists(o) <=> Exists(api[t])) /\ (o.finalizer <=> api[t].finalizer)
    BY <2>a DEF TypeConfig, Exists
  <2>c. api' = api \/ api' = [api EXCEPT ![t] = o]
    BY <2>1 DEF TypeOK
  <2> HIDE DEF o
  <2>2. /\ api' \in [Types -> TypeConfig]
        /\ \A u \in Types : Held(u) <=> Held(u)'
    BY <2>b, <2>c DEF TypeOK, Held
  <2>3. /\ sync' \in [Types -> [uid : Nat, gen : Nat]]
        /\ \A u \in Types : Syncs(u)' => Syncs(u)
    BY <2>1 DEF TypeOK, Holder, NotRunning, Syncs
  <2>4. TypeOK'
    BY <1>2, <2>1, <2>2, <2>3, ChargeTypes DEF TypeOK, reconcileOutOfScope
  <2> QED
    BY <1>2, <2>2, <2>3, <2>4 DEF reconcileOutOfScope, CacheTrails, NoOrphanController, Held
<1>3. CASE reconcileDeleted(t)
  <2>1. PICK f \in {"nothing", "write"} :
          /\ Charge(f)
          /\ api' = [api EXCEPT ![t] = IF Current(t, f) THEN Absent ELSE @]
          /\ pending' = (IF Current(t, f) THEN pending \ {t} ELSE pending)
                          \cup (IF t = NamespaceType THEN reconcileOnNamespaceFTCUpdate ELSE {})
    BY <1>3 DEF reconcileDeleted
  <2>2. /\ api' \in [Types -> TypeConfig]
        /\ \A u \in Types \ {t} : api'[u] = api[u]
    BY <2>1, ConfigTypes DEF TypeOK
  <2>3. /\ sync' \in [Types -> [uid : Nat, gen : Nat]] /\ ~Syncs(t)' /\ t \notin status'
        /\ \A u \in Types \ {t} : (Syncs(u)' <=> Syncs(u)) /\ (u \in status' <=> u \in status)
    BY <1>3 DEF TypeOK, reconcileDeleted, NotRunning, Syncs
  <2>4. TypeOK'
    BY <1>3, <2>1, <2>2, <2>3, ChargeTypes, TypeConfigsAssumption
    DEF TypeOK, reconcileDeleted, reconcileOnNamespaceFTCUpdate
  <2>5. store[t].deleting /\ UNCHANGED store
    BY <1>3 DEF reconcileDeleted
  <2> QED
    BY <2>2, <2>3, <2>4, <2>5 DEF CacheTrails, NoOrphanController, Held
<1>4. CASE reconcilePresent(t)
  <2>1. /\ Exists(store[t]) /\ ~store[t].deleting /\ UNCHANGED <<limited, store>>
        /\ \/ api' = api
           \/ \E o \in {ensureFinalizer(t), WithStatus(t, ensureFinalizer(t))} :
                store[t] = api[t] /\ api' = [api EXCEPT ![t] = o]
        /\ \E x \in {sync[t], NotRunning, Config(store[t])} : sync' = [sync EXCEPT ![t] = x]
        /\ status' \in {status, status \ {t}} \/ (t \in StatusTypes /\ status' = status \cup {t})
        /\ \/ sync' = sync /\ status' = status
           \/ store[t].finalizer
           \/ \E o \in {ensureFinalizer(t), WithStatus(t, ensureFinalizer(t))} : api' = [api EXCEPT ![t] = o]
        /\ used' \in [edits : 0 .. MaxEdits, faults : 0 .. MaxFaults]
        /\ pending' \subseteq Types
    BY <1>4, PresentStep
  <2>2. \A o \in {ensureFinalizer(t), WithStatus(t, ensureFinalizer(t))} :
          o \in TypeConfig /\ Exists(o) /\ o.finalizer
    BY <2>1, WrittenTypes
  <2>3. api' \in [Types -> TypeConfig] /\ \A u \in Types : Held(u) => Held(u)'
    BY <2>1, <2>2 DEF TypeOK, Held
  <2>4. sync' \in [Types -> [uid : Nat, gen : Nat]] /\ \A u \in Types \ {t} : sync'[u] = sync[u]
    BY <2>1 DEF TypeOK, TypeConfig, Config, NotRunning
  <2>5. TypeOK'
    BY <2>1, <2>3, <2>4 DEF TypeOK
  <2>6. CacheTrails'
    BY <2>1, <2>3 DEF CacheTrails, Held
  <2>7. (sync' = sync /\ status' = status) \/ Held(t)'
    BY <2>1, <2>2, <2>3 DEF CacheTrails, Held, TypeOK
  <2>8. NoOrphanController'
    BY <2>1, <2>3, <2>4, <2>7 DEF NoOrphanController, Held, Syncs
  <2> QED
    BY <2>5, <2>6, <2>8
<1> QED
  BY <1>1, <1>2, <1>3, <1>4 DEF reconcile

LEMMA ControllerStep ==
  ASSUME ControllerInv, Next
  PROVE  ControllerInv'
<1>1. ASSUME NEW t \in Types, UserCreates(t) \/ UserEdits(t) \/ UserDeletes(t)
      PROVE  ControllerInv'
  BY <1>1, UserReplaces, ReplaceInv DEF ControllerInv
<1>2. ASSUME NEW t \in Types, Informed(t)
      PROVE  ControllerInv'
  BY <1>2 DEF Informed, ControllerInv, TypeOK, CacheTrails, NoOrphanController, Held, Syncs
<1>3. CASE Restart
  <2>1. TypeOK'
    BY <1>3, TypeConfigsAssumption DEF Restart, ControllerInv, TypeOK, NotRunning
  <2>2. CacheTrails' /\ NoOrphanController'
    BY <1>3 DEF Restart, CacheTrails, NoOrphanController, Held, Syncs
  <2> QED
    BY <2>1, <2>2 DEF ControllerInv
<1> QED
  BY <1>1, <1>2, <1>3, ReconcileInv DEF Next

-----------------------------------------------------------------------------
(* The commands                                                            *)

Commands ==
  \/ \E t \in Types : Enable(t) \/ Disable(t)
  \/ CreateResources
  \/ DisableFederation
  \/ Interrupted

\* Three of their calls write a FederatedTypeConfig, that of the command's type.
LEMMA CommandReplaces ==
  ASSUME CommandsTypeOK, Commands
  PROVE  /\ UNCHANGED used
         /\ UNCHANGED vars \/ \E o \in TypeConfig : Replaces(cmd.type, o)
<1>0. cmd.type \in Types /\ api[cmd.type] \in TypeConfig
  BY DEF CommandsTypeOK, TypeOK
<1>1. CASE \E t \in Types : Enable(t) \/ Disable(t)
  BY <1>1 DEF Enable, Disable, Give, vars
<1>2. CASE CreateResources
  <2>1. CASE At("enable", "config")
    <3>1. commands + MaxEdits + 2 \in Nat \ {0}
      BY TypeConfigsAssumption, CommandsAssumption DEF CommandsTypeOK
    <3>2. Generated(cmd.type) \in TypeConfig
          /\ (Held(cmd.type) => Exists(Generated(cmd.type)) /\ Generated(cmd.type).finalizer)
      <4>1. CASE ~Exists(api[cmd.type])
        <5>1. Created(commands + MaxEdits + 2, TRUE) \in TypeConfig
          BY <3>1, ConfigTypes
        <5>2. Generated(cmd.type) \in TypeConfig
          BY <4>1, <5>1 DEF Generated, TypeConfig
        <5> QED BY <4>1, <5>2 DEF Held
      <4>2. CASE Exists(api[cmd.type]) /\ api[cmd.type].enabled /\ ~api[cmd.type].collect
        BY <1>0, <4>2 DEF Generated, Held
      <4>3. CASE Exists(api[cmd.type]) /\ ~(api[cmd.type].enabled /\ ~api[cmd.type].collect)
        <5> DEFINE p == [api[cmd.type] EXCEPT !.enabled = TRUE, !.collect = FALSE, !.gen = @ + 1]
        <5>1. Generated(cmd.type) = p
          BY <4>3 DEF Generated
        <5>2. p = [api[cmd.type] EXCEPT !.gen = @ + 1, !.enabled = TRUE, !.collect = FALSE]
          BY <1>0 DEF TypeConfig
        <5>3. p \in TypeConfig /\ p.uid = api[cmd.type].uid /\ p.finalizer = api[cmd.type].finalizer
          BY <1>0, <5>2, NewerTypes
        <5> HIDE DEF p
        <5> QED
          BY <5>1, <5>3 DEF Held, Exists
      <4> QED
        BY <4>1, <4>2, <4>3
    <3> QED
      BY <1>2, <2>1, <3>2 DEF CreateResources, At, Replaces
  <2>2. CASE ~At("enable", "config")
    BY <1>2, <2>2 DEF CreateResources, vars
  <2> QED
    BY <2>1, <2>2
<1>3. CASE DisableFederation
  <2>1. CASE disablePropagation(cmd.type)
    <3> DEFINE o == [api[cmd.type] EXCEPT !.enabled = FALSE, !.gen = @ + 1]
    <3>1. o \in TypeConfig /\ o.uid = api[cmd.type].uid /\ o.finalizer = api[cmd.type].finalizer
      <4>1. api[cmd.type].gen + 1 \in Nat
        BY <1>0 DEF TypeConfig
      <4>2. \A n \in Nat : [api[cmd.type] EXCEPT !.enabled = FALSE, !.gen = n] \in TypeConfig
        BY <1>0 DEF TypeConfig
      <4> QED
        BY <1>0, <4>1, <4>2 DEF TypeConfig
    <3>2. UNCHANGED <<limited, ctlVars, used>> /\ (api' = api \/ api' = [api EXCEPT ![cmd.type] = o])
      BY <1>0, <2>1 DEF disablePropagation, CommandsTypeOK, TypeOK
    <3> HIDE DEF o
    <3> QED
      BY <3>1, <3>2 DEF Replaces, Held, Exists, vars
  <2>2. CASE deleteFederatedTypeConfig(cmd.type)
    <3> DEFINE q == [api[cmd.type] EXCEPT !.deleting = TRUE, !.gen = @ + 1]
    <3>1. q \in TypeConfig /\ q.uid = api[cmd.type].uid /\ q.finalizer = api[cmd.type].finalizer
      BY <1>0, NewerTypes
    <3>2. /\ UNCHANGED <<limited, ctlVars, used>>
          /\ \/ ~api[cmd.type].finalizer /\ api' = [api EXCEPT ![cmd.type] = Absent]
             \/ api' = [api EXCEPT ![cmd.type] = api[cmd.type]]
             \/ api' = [api EXCEPT ![cmd.type] = q]
      <4>1. UNCHANGED <<limited, ctlVars, used>>
        BY <2>2 DEF deleteFederatedTypeConfig
      <4>2. CASE ~api[cmd.type].finalizer
        BY <2>2, <4>1, <4>2 DEF deleteFederatedTypeConfig
      <4>3. CASE api[cmd.type].finalizer /\ api[cmd.type].deleting
        BY <2>2, <4>1, <4>3 DEF deleteFederatedTypeConfig
      <4>4. CASE api[cmd.type].finalizer /\ ~api[cmd.type].deleting
        BY <2>2, <4>1, <4>4 DEF deleteFederatedTypeConfig
      <4> QED
        BY <4>2, <4>3, <4>4
    <3> HIDE DEF q
    <3> QED
      BY <1>0, <3>1, <3>2, ConfigTypes DEF Replaces, Held, Exists
  <2> QED
    BY <1>3, <2>1, <2>2 DEF DisableFederation, checkFederatedTypeConfigExists,
         verifyPropagationControllerStopped, deleteFederatedType, vars
<1>4. CASE Interrupted
  BY <1>4 DEF Interrupted, vars
<1> QED
  BY <1>1, <1>2, <1>3, <1>4 DEF Commands

LEMMA CommandTypes ==
  ASSUME CommandsTypeOK, Commands, TypeOK'
  PROVE  CommandsTypeOK'
<1> DEFINE C == [op : {"none", "enable", "disable"}, type : Types, deleteCRD : BOOLEAN,
                 step : {"get", "propagation", "verify", "crd", "config", "ended"},
                 ok : BOOLEAN, read : TypeConfig]
           All == {CRD[t] : t \in Types}
<1>0. cmd \in C /\ cmd.type \in Types /\ api[cmd.type] \in TypeConfig /\ Absent \in TypeConfig
  BY ConfigTypes DEF CommandsTypeOK, TypeOK
<1>1. \A ok \in BOOLEAN : Ends(ok) => cmd' \in C
  BY <1>0 DEF Ends
<1>2. \A step \in {"get", "propagation", "verify", "crd", "config"} : Goes(step) => cmd' \in C
  BY <1>0 DEF Goes
<1>3. Exists(api[cmd.type]) \in BOOLEAN
  BY DEF Exists
<1>4. cmd' \in C
  <2>1. CASE \E t \in Types : Enable(t) \/ Disable(t)
    <3>1. PICK t \in Types, op \in {"enable", "disable"}, d \in BOOLEAN : Give(op, t, d)
      BY <2>1 DEF Enable, Disable
    <3>2. cmd' = [op |-> op, type |-> t, deleteCRD |-> d,
                  step |-> IF op = "enable" THEN "crd" ELSE "get", ok |-> FALSE, read |-> Absent]
      BY <3>1 DEF Give
    <3>3. (IF op = "enable" THEN "crd" ELSE "get") \in {"crd", "get"}
      OBVIOUS
    <3> QED
      BY <1>0, <3>2, <3>3
  <2>2. CASE CreateResources
    BY <1>1, <1>2, <2>2 DEF CreateResources, CreateCRD
  <2>3. CASE checkFederatedTypeConfigExists(cmd.type)
    BY <1>0, <1>1, <1>2, <2>3 DEF checkFederatedTypeConfigExists
  <2>4. CASE disablePropagation(cmd.type)
    BY <1>1, <1>2, <2>4 DEF disablePropagation
  <2>5. CASE verifyPropagationControllerStopped(cmd.type)
    BY <1>1, <1>2, <2>5 DEF verifyPropagationControllerStopped
  <2>6. CASE deleteFederatedType(cmd.type)
    BY <1>1, <1>2, <2>6 DEF deleteFederatedType
  <2>7. CASE deleteFederatedTypeConfig(cmd.type)
    BY <1>1, <1>3, <2>7 DEF deleteFederatedTypeConfig
  <2>8. CASE Interrupted
    BY <1>1, <2>8 DEF Interrupted
  <2> QED
    BY <2>1, <2>2, <2>3, <2>4, <2>5, <2>6, <2>7, <2>8 DEF Commands, DisableFederation
<1>5. crds' \subseteq All /\ instances' \subseteq All /\ dropped' \subseteq All
  <2>1. crds \subseteq All /\ instances \subseteq All /\ dropped \subseteq All
    BY DEF CommandsTypeOK
  <2>2. CRD[cmd.type] \in All
    BY <1>0
  <2> HIDE DEF All
  <2> QED
    BY <2>1, <2>2 DEF Commands, Enable, Disable, Give, CreateResources, CreateCRD, DisableFederation,
         checkFederatedTypeConfigExists, disablePropagation, verifyPropagationControllerStopped,
         deleteFederatedType, deleteFederatedTypeConfig, Interrupted
<1>6. commands' \in 0 .. MaxCommands
  <2>1. commands' = commands \/ (commands > 0 /\ commands' = commands - 1)
    BY DEF Commands, Enable, Disable, Give, CreateResources, DisableFederation,
         checkFederatedTypeConfigExists, disablePropagation, verifyPropagationControllerStopped,
         deleteFederatedType, deleteFederatedTypeConfig, Interrupted
  <2> QED
    BY <2>1, CommandsAssumption DEF CommandsTypeOK
<1> QED
  BY <1>4, <1>5, <1>6 DEF CommandsTypeOK

LEMMA ControllerInit == CommandsInit => ControllerInv
<1> SUFFICES ASSUME CommandsInit PROVE ControllerInv
  OBVIOUS
<1>1. TypeOK
  BY TypesInit DEF CommandsTypeOK
<1>2. CASE Init
  BY <1>1, <1>2, ConfigTypes DEF Init, ControllerInv, CacheTrails, NoOrphanController, Syncs
<1>3. CASE SteadyInit
  <2>1. PICK some \in {Edited, {NamespaceType}}, e \in BOOLEAN :
          /\ api = [t \in Types |-> IF t \in some THEN Steady(t, e) ELSE Absent]
          /\ status = {t \in some \cap StatusTypes : api[t].finalizer}
          /\ sync = [t \in Types |-> IF t \notin some \/ ~e THEN NotRunning
                                    ELSE IF api[t].finalizer THEN Config(api[t]) ELSE Holder]
    BY <1>3 DEF SteadyInit
  <2>2. CacheTrails
    BY <1>3 DEF SteadyInit, CacheTrails, Held
  <2>3. \A t \in Types : Syncs(t) \/ t \in status => t \in some /\ api[t].finalizer
    BY <2>1 DEF Syncs
  <2>4. \A t \in some \cap Types : Exists(api[t])
    BY <2>1, SteadyTypes
  <2> QED
    BY <1>1, <2>2, <2>3, <2>4 DEF ControllerInv, NoOrphanController
<1> QED
  BY <1>2, <1>3 DEF CommandsInit

LEMMA CommandsStep ==
  ASSUME ControllerInv, CommandsTypeOK, [CommandsNext]_allVars
  PROVE  ControllerInv' /\ CommandsTypeOK'
<1>1. CASE Next /\ UNCHANGED cmdVars
  <2>1. ControllerInv'
    BY <1>1, ControllerStep
  <2> QED
    BY <1>1, <2>1 DEF ControllerInv, CommandsTypeOK, cmdVars
<1>2. CASE Commands
  <2>1. /\ UNCHANGED used
        /\ UNCHANGED vars \/ \E o \in TypeConfig : Replaces(cmd.type, o)
    BY <1>2, CommandReplaces
  <2>2. cmd.type \in Types /\ used' \in [edits : 0 .. MaxEdits, faults : 0 .. MaxFaults]
    BY <2>1 DEF CommandsTypeOK, TypeOK
  <2>3. ASSUME UNCHANGED vars PROVE ControllerInv'
    BY <2>3 DEF vars, ctlVars, ControllerInv, TypeOK, CacheTrails, NoOrphanController, Held, Syncs
  <2>4. ControllerInv'
    BY <2>1, <2>2, <2>3, ReplaceInv
  <2> QED
    BY <1>2, <2>4, CommandTypes DEF ControllerInv
<1>3. CASE UNCHANGED allVars
  BY <1>3 DEF allVars, vars, ctlVars, cmdVars, ControllerInv, CommandsTypeOK, TypeOK, CacheTrails,
       NoOrphanController, Held, Syncs
<1> QED
  BY <1>1, <1>2, <1>3 DEF CommandsNext, Commands

\* No sync or status controller runs for a FederatedTypeConfig that is gone or has no
\* finalizer (ensureFinalizer, removeFinalizer in federatedtypeconfig/controller.go),
\* whatever users, commands, faults and restarts do while the cache is behind.
THEOREM ControllersServe == CommandsSpec => []NoOrphanController
<1> DEFINE I == ControllerInv /\ CommandsTypeOK
<1>1. CommandsInit => I
  BY ControllerInit, TypesInit
<1>2. I /\ [CommandsNext]_allVars => I'
  BY CommandsStep
<1>3. I => NoOrphanController
  BY DEF ControllerInv
<1> QED
  BY <1>1, <1>2, <1>3, PTL DEF CommandsSpec

-----------------------------------------------------------------------------
(* One of the equivalent types                                             *)

\* Users write none but the types they own, of which no two are equivalent.
UsersWrite ==
  /\ commands = 0 /\ cmd.step = "ended"
  /\ \A t \in Types : Exists(api[t]) => t \in Edited

\* An enable that has passed its look at the CRD has found no other type by it, and the
\* CRD is there until a disable deletes it.
Checked(t) ==
  /\ CRD[t] \in crds \cup dropped
  /\ \A u \in Equivalent(t) : Exists(api[u]) => CRD[t] \in dropped

CommandsWrite ==
  /\ used.edits = MaxEdits
  /\ \A t \in Types : Exists(api[t]) => Checked(t)
  /\ At("enable", "config") => Checked(cmd.type)

EquivInv == UsersWrite \/ CommandsWrite

\* Only a user's edit makes a FederatedTypeConfig exist in a step of the controller.
LEMMA NextExists ==
  ASSUME TypeOK, Next
  PROVE  /\ \A u \in Types : Exists(api'[u]) => Exists(api[u]) \/ (u \in Edited /\ used.edits < MaxEdits)
         /\ used.edits = MaxEdits => used'.edits = MaxEdits
<1>0. \A t \in Types : api[t] \in TypeConfig /\ store[t] \in TypeConfig
  BY DEF TypeOK
<1>1. ASSUME NEW t \in Types, UserCreates(t)
      PROVE  /\ used.edits < MaxEdits /\ t \in Edited
             /\ \A u \in Types \ {t} : api'[u] = api[u]
  BY <1>1 DEF UserCreates, Edit, TypeOK
<1>2. ASSUME NEW t \in Types, UserEdits(t) \/ UserDeletes(t)
      PROVE  used.edits < MaxEdits /\ Exists(api[t]) /\ \A u \in Types \ {t} : api'[u] = api[u]
  BY <1>2 DEF UserEdits, UserDeletes, Edit, TypeOK
<1>3. ASSUME NEW t \in Types, Informed(t) \/ reconcileAbsent(t)
      PROVE  UNCHANGED <<api, used>>
  BY <1>3 DEF Informed, reconcileAbsent
<1>4. ASSUME NEW t \in Types, reconcileOutOfScope(t)
      PROVE  /\ used'.edits = used.edits
             /\ \A u \in Types : Exists(api'[u]) => Exists(api[u])
  <2>1. PICK f : Charge(f)
    BY <1>4 DEF reconcileOutOfScope
  <2>2. api' = api \/ api' = [api EXCEPT ![t].observed = store[t].gen, ![t].reported = FALSE,
                                         ![t].collected = FALSE]
    BY <1>4 DEF reconcileOutOfScope
  <2>3. \A u \in Types : api'[u].uid = api[u].uid
    BY <1>0, <2>2 DEF TypeOK, TypeConfig
  <2> QED
    BY <2>1, <2>3, ChargeTypes DEF Exists
<1>5. ASSUME NEW t \in Types, reconcileDeleted(t)
      PROVE  /\ used'.edits = used.edits
             /\ \A u \in Types : Exists(api'[u]) => Exists(api[u])
  <2>1. PICK f : Charge(f) /\ api' = [api EXCEPT ![t] = IF Current(t, f) THEN Absent ELSE @]
    BY <1>5 DEF reconcileDeleted
  <2>2. \A u \in Types : Exists(api'[u]) => Exists(api[u])
    BY <2>1, ConfigTypes DEF TypeOK
  <2> QED
    BY <2>1, <2>2, ChargeTypes
<1>6. ASSUME NEW t \in Types, reconcilePresent(t)
      PROVE  /\ used'.edits = used.edits
             /\ \A u \in Types : Exists(api'[u]) => Exists(api[u])
  <2>1. /\ used'.edits = used.edits
        /\ \/ api' = api
           \/ /\ Exists(store[t]) /\ store[t] = api[t]
              /\ \E o : api' = [api EXCEPT ![t] = o]
    BY <1>6, PresentStep
  <2> QED
    BY <2>1 DEF TypeOK
<1>7. ASSUME Restart
      PROVE  UNCHANGED api /\ used'.edits = used.edits
  BY <1>7 DEF Restart, TypeOK
<1>8. ASSUME used.edits < MaxEdits
      PROVE  used.edits # MaxEdits
  BY <1>8, TypeConfigsAssumption DEF TypeOK
<1>9. CASE \E t \in Types : UserCreates(t) \/ UserEdits(t) \/ UserDeletes(t)
  BY <1>1, <1>2, <1>8, <1>9
<1>10. CASE \E t \in Types : Informed(t) \/ reconcile(t)
  BY <1>3, <1>4, <1>5, <1>6, <1>10 DEF reconcile
<1> QED
  BY <1>7, <1>9, <1>10 DEF Next

LEMMA EquivInit == CommandsInit => EquivInv
<1> SUFFICES ASSUME CommandsInit PROVE EquivInv
  OBVIOUS
<1>1. CASE Init /\ commands = 0
  BY <1>1, ConfigTypes DEF CommandsInit, Init, NoCommand, EquivInv, UsersWrite
<1>2. CASE SteadyInit
  <2>1. PICK some \in {Edited, {NamespaceType}} : \A t \in Types : Exists(api[t]) => t \in some
    BY <1>2, ConfigTypes DEF SteadyInit
  <2>2. \A t, u \in some : CRD[t] = CRD[u] => t = u
    BY CommandsAssumption
  <2>3. \A t \in Types : Exists(api[t]) => Checked(t)
    BY <2>1, <2>2 DEF CommandsInit, Checked, Equivalent
  <2>4. used.edits = MaxEdits /\ ~At("enable", "config")
    BY <1>2 DEF SteadyInit, CommandsInit, NoCommand, At
  <2> QED
    BY <2>3, <2>4 DEF EquivInv, CommandsWrite
<1> QED
  BY <1>1, <1>2 DEF CommandsInit

\* What was checked stays so while nothing is created and CRDs go only into dropped.
LEMMA CheckedStays ==
  ASSUME \A u \in Types : Exists(api'[u]) => Exists(api[u]),
         crds \cup dropped \subseteq crds' \cup dropped', dropped \subseteq dropped',
         NEW t \in Types, Checked(t)
  PROVE  Checked(t)'
BY DEF Checked, Equivalent

LEMMA EquivStep ==
  ASSUME CommandsTypeOK, EquivInv, [CommandsNext]_allVars
  PROVE  EquivInv'
<1>0. TypeOK /\ cmd.type \in Types
  BY DEF CommandsTypeOK
<1>1. CASE Next /\ UNCHANGED cmdVars
  <2>1. /\ \A u \in Types : Exists(api'[u]) => Exists(api[u]) \/ (u \in Edited /\ used.edits < MaxEdits)
        /\ used.edits = MaxEdits => used'.edits = MaxEdits
    BY <1>0, <1>1, NextExists
  <2>2. CASE UsersWrite
    BY <1>1, <2>1, <2>2 DEF UsersWrite, EquivInv, cmdVars
  <2>3. CASE CommandsWrite
    <3>1. used.edits = MaxEdits /\ ~(used.edits < MaxEdits)
      BY <1>0, <2>3, TypeConfigsAssumption DEF CommandsWrite, TypeOK
    <3>2. \A u \in Types : Exists(api'[u]) => Exists(api[u])
      BY <2>1, <3>1
    <3>3. \A t \in Types : Checked(t) => Checked(t)'
      BY <1>1, <3>2, CheckedStays DEF cmdVars
    <3> QED
      BY <1>0, <1>1, <2>1, <2>3, <3>1, <3>2, <3>3 DEF CommandsWrite, EquivInv, At, cmdVars
  <2> QED
    BY <2>2, <2>3 DEF EquivInv
<1>2. CASE Commands
  <2>1. CASE UsersWrite
    <3>1. ~(commands > 0)
      BY <2>1 DEF UsersWrite
    <3> QED
      BY <1>2, <2>1, <3>1 DEF UsersWrite, Commands, Enable, Disable, Give, CreateResources,
           DisableFederation, checkFederatedTypeConfigExists, disablePropagation, At, Interrupted,
           verifyPropagationControllerStopped, deleteFederatedType, deleteFederatedTypeConfig
  <2>2. CASE CommandsWrite
    <3>1. used'.edits = MaxEdits
      BY <1>2, <2>2, CommandReplaces DEF CommandsWrite
    <3>2. CASE At("enable", "config") /\ CreateResources
      <4>1. /\ api' = [api EXCEPT ![cmd.type] = Generated(cmd.type)]
            /\ Ends(TRUE)
            /\ UNCHANGED <<crds, dropped>>
        BY <3>2 DEF CreateResources, At
      <4>2. ~At("enable", "config")'
        BY <1>0, <4>1 DEF CommandsTypeOK, Ends, At
      <4>3. \A u \in Types \ {cmd.type} : api'[u] = api[u]
        BY <1>0, <4>1 DEF TypeOK
      <4>4. \A u \in Types : Exists(api'[u]) => Checked(u)
        BY <2>2, <3>2, <4>3 DEF CommandsWrite
      <4>5. \A u \in Types : Exists(api'[u]) => Checked(u)'
        BY <1>0, <4>1, <4>3, <4>4 DEF Checked, Equivalent
      <4> QED
        BY <3>1, <4>2, <4>5 DEF EquivInv, CommandsWrite
    <3>3. CASE At("enable", "crd") /\ CreateResources
      <4>1. /\ CreateCRD(cmd.type)
            /\ UNCHANGED <<api, dropped>>
        BY <3>3 DEF CreateResources, At, vars
      <4>2. crds \subseteq crds'
        BY <4>1 DEF CreateCRD
      <4>3. \A t \in Types : Exists(api'[t]) => Checked(t)'
        BY <2>2, <4>1, <4>2, CheckedStays DEF CommandsWrite
      <4>4. cmd'.type = cmd.type
        BY <4>1 DEF CreateCRD, Ends, Goes, CommandsTypeOK
      <4>5. ASSUME At("enable", "config")' PROVE Checked(cmd.type)'
        <5>1. ~Ends(FALSE)
          BY <4>5 DEF At, Ends, CommandsTypeOK
        <5>2. crds' = crds \cup {CRD[cmd.type]}
              /\ (CRD[cmd.type] \in crds => \A u \in Equivalent(cmd.type) : ~Exists(api[u]))
          BY <4>1, <5>1 DEF CreateCRD
        <5>3. \A u \in Equivalent(cmd.type) : Exists(api[u]) => CRD[cmd.type] \in crds \cup dropped
          BY <2>2 DEF CommandsWrite, Checked, Equivalent
        <5> QED
          BY <4>1, <4>4, <5>2, <5>3 DEF Checked, Equivalent
      <4> QED
        BY <3>1, <4>3, <4>4, <4>5 DEF EquivInv, CommandsWrite
    <3>4. CASE ~CreateResources
      <4>1. /\ \A u \in Types : Exists(api'[u]) => Exists(api[u])
            /\ crds \cup dropped \subseteq crds' \cup dropped' /\ dropped \subseteq dropped'
            /\ ~At("enable", "config")'
        <5>1. CASE \E t \in Types : Enable(t) \/ Disable(t)
          BY <5>1 DEF Enable, Disable, Give, At, vars
        <5>2. CASE Interrupted
          BY <5>2 DEF Interrupted, Ends, At, vars, CommandsTypeOK
        <5>3. CASE DisableFederation
          <6>1. cmd.op = "disable" /\ cmd'.op = cmd.op
            BY <5>3 DEF CommandsTypeOK, DisableFederation, checkFederatedTypeConfigExists,
                 disablePropagation, verifyPropagationControllerStopped, deleteFederatedType,
                 deleteFederatedTypeConfig, At, Ends, Goes
          <6>2. crds \cup dropped \subseteq crds' \cup dropped' /\ dropped \subseteq dropped'
            BY <5>3 DEF DisableFederation, checkFederatedTypeConfigExists,
                 disablePropagation, verifyPropagationControllerStopped, deleteFederatedType,
                 deleteFederatedTypeConfig
          <6>3. \A u \in Types : Exists(api'[u]) => Exists(api[u])
            <7>0. api[cmd.type] \in TypeConfig
              BY <1>0 DEF TypeOK
            <7>1. CASE UNCHANGED api
              BY <7>1
            <7>2. CASE disablePropagation(cmd.type)
              <8>1. api' = api \/ api' = [api EXCEPT ![cmd.type].enabled = FALSE, ![cmd.type].gen = @ + 1]
                BY <7>2 DEF disablePropagation
              <8>2. \A u \in Types : api'[u].uid = api[u].uid
                BY <1>0, <7>0, <8>1 DEF TypeOK, TypeConfig
              <8> QED
                BY <8>2 DEF Exists
            <7>3. CASE deleteFederatedTypeConfig(cmd.type)
              <8> DEFINE q == [api[cmd.type] EXCEPT !.deleting = TRUE, !.gen = @ + 1]
              <8>1. q.uid = api[cmd.type].uid
                BY <7>0, NewerTypes
              <8>2. \E o \in {Absent, api[cmd.type], q} : api' = [api EXCEPT ![cmd.type] = o]
                BY <7>3 DEF deleteFederatedTypeConfig
              <8> HIDE DEF q
              <8>3. \A u \in Types \ {cmd.type} : api'[u] = api[u]
                BY <1>0, <8>2 DEF TypeOK
              <8>4. api'[cmd.type] \in {Absent, api[cmd.type], q}
                BY <1>0, <8>2 DEF TypeOK
              <8> QED
                BY <8>1, <8>3, <8>4, ConfigTypes DEF Exists
            <7> QED
              BY <5>3, <7>1, <7>2, <7>3 DEF DisableFederation, checkFederatedTypeConfigExists,
                   verifyPropagationControllerStopped, deleteFederatedType, vars
          <6> QED
            BY <6>1, <6>2, <6>3 DEF At
        <5> QED
          BY <1>2, <3>4, <5>1, <5>2, <5>3 DEF Commands
      <4> QED
        BY <2>2, <3>1, <4>1, CheckedStays DEF EquivInv, CommandsWrite
    <3> QED
      BY <3>2, <3>3, <3>4 DEF CreateResources
  <2> QED
    BY <2>1, <2>2 DEF EquivInv
<1>3. CASE UNCHANGED allVars
  BY <1>3 DEF allVars, vars, cmdVars, EquivInv, UsersWrite, CommandsWrite, Checked, At
<1> QED
  BY <1>1, <1>2, <1>3 DEF CommandsNext, Commands

\* Of the types that share a CRD only one is enabled unless a disable has deleted the CRD
\* (CreateResources in enable/enable.go, DisableFederation in disable.go), however many
\* types and commands there are and wherever they are interrupted.
THEOREM OneIsEnabled == CommandsSpec => []OneOfEquivalent
<1> DEFINE I == ControllerInv /\ CommandsTypeOK /\ EquivInv
<1>1. CommandsInit => I
  BY ControllerInit, TypesInit, EquivInit
<1>2. I /\ [CommandsNext]_allVars => I'
  BY CommandsStep, EquivStep
<1>3. I => OneOfEquivalent
  <2> SUFFICES ASSUME CommandsTypeOK, EquivInv,
                      NEW t \in Types, NEW u \in Equivalent(t), Exists(api[t]), Exists(api[u])
               PROVE  CRD[t] \in dropped
    BY DEF OneOfEquivalent, Wanted
  <2>1. CASE UsersWrite
    BY <2>1, CommandsAssumption DEF UsersWrite, Equivalent
  <2>2. CASE CommandsWrite
    BY <2>2 DEF CommandsWrite, Checked
  <2> QED
    BY <2>1, <2>2 DEF EquivInv
<1> QED
  BY <1>1, <1>2, <1>3, PTL DEF CommandsSpec
-----------------------------------------------------------------------------
(* Types at rest                                                           *)

Rests(t) == t \notin pending /\ store[t] = api[t]

\* A uid that no user and no command will use again.
KnownUid(n) ==
  \/ n < used.edits + 2
  \/ n > commands + MaxEdits + 2
  \/ n = commands + MaxEdits + 2 /\ ~At("enable", "crd") /\ ~At("enable", "config")

\* The cache trails the API: it is never ahead of an object, and has the configuration
\* whose generation the status tells.
Trails(t) ==
  /\ ~Exists(api[t]) => api[t] = Absent
  /\ ~Exists(store[t]) => store[t] = Absent
  /\ KnownUid(api[t].uid) /\ KnownUid(store[t].uid)
  /\ api[t].observed <= api[t].gen
  /\ Exists(api[t]) /\ store[t].uid = api[t].uid => store[t].gen <= api[t].gen
  /\ Exists(api[t]) /\ api[t].observed = api[t].gen => Config(store[t]) = Config(api[t])

\* A sync controller runs with the configuration whose generation the status tells.
RunsObserved(t) ==
  /\ ~(limited /\ ClusterScoped(t)) /\ Exists(api[t]) /\ api[t].observed = api[t].gen
  /\ sync[t] # NotRunning
  => sync[t] = Config(api[t])

\* Namespaces are unknown only as long as they have no finalizer.
NamespacesTrail == ~Exists(store[NamespaceType]) => ~api[NamespaceType].finalizer

\* What the last reconciliation of a type has left.
Handled(t) ==
  Rests(t) /\ Exists(store[t]) /\ ~OutOfScope(t) =>
    /\ ~store[t].deleting /\ store[t].finalizer
    /\ store[t].observed = store[t].gen /\ (t \in status <=> store[t].collected)
    /\ store[t].enabled =>
         \/ sync[t] = Config(store[t]) /\ store[t].reported
         \/ /\ t \in NamespacedTypes /\ ~api[NamespaceType].finalizer
            /\ sync[t] = NotRunning /\ ~store[t].reported
    /\ ~store[t].enabled => sync[t] = NotRunning

RestInv ==
  /\ \A t \in Types : Trails(t)
  /\ \A t \in Types : RunsObserved(t)
  /\ NamespacesTrail
  /\ \A t \in Types : Handled(t)

\* A type at rest is as its configuration wants it and its status tells, and is being
\* deleted only where a namespaced control plane leaves it aside.
ConvergedAtRest ==
  \A t \in Types :
    Rests(t) /\ (t \in NamespacedTypes => Rests(NamespaceType)) =>
      Converged(t) /\ Told(t) /\ (api[t].deleting => limited /\ ClusterScoped(t))

\* What users and commands make of an object: the same, none, one of a later generation,
\* or one with a uid the cache does not know.
Change(t, o) ==
  \/ o = api[t]
  \/ o = Absent /\ ~api[t].finalizer
  \/ /\ Exists(api[t]) /\ o \in TypeConfig /\ o.uid = api[t].uid /\ o.gen = api[t].gen + 1
     /\ o.observed = api[t].observed /\ o.finalizer = api[t].finalizer
  \/ /\ ~Exists(api[t]) /\ o.uid # 0 /\ o.uid # store[t].uid
     /\ o.gen = 1 /\ o.observed = 0 /\ ~o.finalizer

Changes(t, o) == Change(t, o) /\ api' = [api EXCEPT ![t] = o] /\ UNCHANGED <<limited, ctlVars>>

UidsStay == \A n \in Nat : KnownUid(n) => KnownUid(n)'

LEMMA AbsentIs ==
  /\ Absent \in TypeConfig /\ ~Exists(Absent) /\ Absent.uid = 0 /\ Absent.gen = 0 /\ Absent.observed = 0
  /\ ~Absent.finalizer /\ ~Absent.enabled /\ ~Absent.deleting
BY DEF Absent, TypeConfig, Exists

\* No change is taken for one the cache has seen.
LEMMA ChangeIs ==
  ASSUME TypeOK, NEW t \in Types, Trails(t), NEW o, Change(t, o), o # api[t]
  PROVE  /\ ~o.finalizer \/ o.finalizer = api[t].finalizer
         /\ Exists(o) => o # store[t] /\ o.observed < o.gen
         /\ Exists(o) /\ store[t].uid = o.uid => store[t].gen <= o.gen
         /\ ~Exists(o) => o = Absent
<1>1. api[t] \in TypeConfig /\ store[t] \in TypeConfig
  BY DEF TypeOK
<1>2. /\ api[t].gen \in Nat /\ api[t].observed \in Nat /\ store[t].gen \in Nat
      /\ api[t].uid \in Nat /\ store[t].uid \in Nat
  BY <1>1 DEF TypeConfig
<1>3. CASE o = Absent /\ ~api[t].finalizer
  BY <1>3, AbsentIs
<1>4. CASE /\ Exists(api[t]) /\ o \in TypeConfig /\ o.uid = api[t].uid /\ o.gen = api[t].gen + 1
           /\ o.observed = api[t].observed /\ o.finalizer = api[t].finalizer
  <2>1. Exists(o)
    BY <1>4 DEF Exists
  <2>2. o.observed < o.gen
    BY <1>2, <1>4 DEF Trails
  <2>3. store[t].uid = o.uid => store[t].gen < o.gen
    BY <1>2, <1>4 DEF Trails
  <2>4. o # store[t]
    BY <1>2, <1>4, <2>3
  <2> QED BY <1>2, <1>4, <2>1, <2>2, <2>3, <2>4
<1>5. CASE /\ ~Exists(api[t]) /\ o.uid # 0 /\ o.uid # store[t].uid
           /\ o.gen = 1 /\ o.observed = 0 /\ ~o.finalizer
  BY <1>5 DEF Exists
<1> QED BY <1>3, <1>4, <1>5 DEF Change

LEMMA ChangeRest ==
  ASSUME TypeOK, RestInv, NEW t \in Types, NEW o, Changes(t, o), UidsStay, KnownUid(o.uid)'
  PROVE  RestInv'
<1>0. /\ api' = [api EXCEPT ![t] = o] /\ Change(t, o)
      /\ limited' = limited /\ store' = store /\ pending' = pending /\ sync' = sync /\ status' = status
  BY DEF Changes, ctlVars
<1>1. api'[t] = o /\ \A u \in Types \ {t} : api'[u] = api[u]
  BY <1>0 DEF TypeOK
<1>2. \A u \in Types : api[u] \in TypeConfig /\ store[u] \in TypeConfig
  BY DEF TypeOK
<1>3. \A u \in Types : api[u].uid \in Nat /\ store[u].uid \in Nat
  BY <1>2 DEF TypeConfig
<1>4. Trails(t)
  BY DEF RestInv
<1>5. ~api[NamespaceType].finalizer => ~api'[NamespaceType].finalizer
  <2>1. CASE t = NamespaceType
    <3>1. CASE o = api[t]
      BY <1>1, <2>1, <3>1
    <3>2. CASE o # api[t]
      BY <1>0, <1>1, <1>4, <2>1, <3>2, ChangeIs
    <3> QED BY <3>1, <3>2
  <2>2. CASE t # NamespaceType
    BY <1>1, <2>2, TypeConfigsAssumption
  <2> QED BY <2>1, <2>2
<1>6. NamespacesTrail'
  BY <1>0, <1>5 DEF RestInv, NamespacesTrail
<1>7. ASSUME NEW u \in Types, api'[u] = api[u]
      PROVE  Trails(u)' /\ RunsObserved(u)' /\ Handled(u)'
  <2>1. Trails(u) /\ RunsObserved(u) /\ Handled(u)
    BY DEF RestInv
  <2>2. KnownUid(api[u].uid)' /\ KnownUid(store[u].uid)'
    <3>1. KnownUid(api[u].uid) /\ KnownUid(store[u].uid)
      BY <2>1 DEF Trails
    <3> QED BY <1>0, <1>3, <1>7, <3>1 DEF UidsStay, KnownUid
  <2>3. Trails(u)'
    BY <1>0, <1>7, <2>1, <2>2 DEF Trails, Config, Exists
  <2>4. RunsObserved(u)'
    BY <1>0, <1>7, <2>1 DEF RunsObserved, Config, Exists
  <2>5. Handled(u)'
    BY <1>0, <1>5, <1>7, <2>1 DEF Handled, Rests, OutOfScope, Config, Exists
  <2> QED BY <2>3, <2>4, <2>5
<1>8. ASSUME o # api[t]
      PROVE  Trails(t)' /\ RunsObserved(t)' /\ Handled(t)'
  <2>1. /\ Exists(o) => o # store[t] /\ o.observed < o.gen
        /\ Exists(o) /\ store[t].uid = o.uid => store[t].gen <= o.gen
        /\ ~Exists(o) => o = Absent
    BY <1>0, <1>4, <1>8, ChangeIs
  <2>2. o.observed <= o.gen /\ (Exists(o) => o.observed # o.gen)
    <3>1. CASE Exists(o)
      <4>1. o.observed \in Nat /\ o.gen \in Nat
        <5>1. api[t].gen \in Nat /\ api[t].observed \in Nat
          BY <1>2 DEF TypeConfig
        <5> QED BY <1>0, <1>8, <5>1, AbsentIs DEF Change
      <4> QED BY <2>1, <3>1, <4>1
    <3>2. CASE ~Exists(o)
      BY <2>1, <3>2, AbsentIs
    <3> QED BY <3>1, <3>2
  <2>3. KnownUid(store[t].uid)'
    <3>1. KnownUid(store[t].uid)
      BY <1>4 DEF Trails
    <3> QED BY <1>0, <1>3, <3>1 DEF UidsStay, KnownUid
  <2>4. Trails(t)'
    BY <1>0, <1>1, <1>4, <2>1, <2>2, <2>3 DEF Trails, Exists
  <2>5. RunsObserved(t)'
    BY <1>1, <2>2 DEF RunsObserved, Exists
  <2>6. Handled(t)'
    BY <1>0, <1>1, <2>1 DEF Handled, Rests, Exists
  <2> QED BY <2>4, <2>5, <2>6
<1> QED BY <1>1, <1>6, <1>7, <1>8 DEF RestInv

\* What reconcilePresent does to a type, done or not.
LEMMA PresentEffect ==
  ASSUME TypeOK, NEW t \in Types, t \in pending, reconcilePresent(t)
  PROVE  /\ Exists(store[t]) /\ ~store[t].deleting /\ ~OutOfScope(t)
         /\ limited' = limited /\ store' = store
         /\ pending \ {t} \subseteq pending'
         /\ \A u \in Types \ {t} : /\ api'[u] = api[u] /\ sync'[u] = sync[u]
                                   /\ (u \in status' <=> u \in status)
         /\ sync'[t] \in {sync[t], NotRunning, Config(store[t])}
         /\ t = NamespaceType /\ api'[t].finalizer /\ ~api[t].finalizer =>
              reconcileOnNamespaceFTCUpdate \subseteq pending'
         /\ \/ /\ t \in pending'
               /\ \/ api'[t] = api[t]
                  \/ store[t] = api[t] /\ api'[t] = ensureFinalizer(t)
            \/ /\ store[t] = api[t] /\ api'[t] = WithStatus(t, ensureFinalizer(t))
               /\ t \in status' <=> StatusEnabled(t)
               /\ sync'[t] = IF RefreshSync(t) THEN Config(store[t]) ELSE SyncAfter(t)
<1>1. PICK f \in Fails(t) :
       LET adds == ~store[t].finalizer
           finalized == adds => store[t] = api[t] /\ f # "finalizer"
           started == finalized /\ (StartNewSync(t) => startSyncController(t) /\ f # "sync")
           collected == started /\ (StatusEnabled(t) /\ t \notin status => f # "status")
           refreshed == collected /\ (RefreshSync(t) => startSyncController(t) /\ f # "refresh")
           done == refreshed /\ Current(t, f)
       IN  /\ Charge(f)
           /\ sync' = [sync EXCEPT ![t] =
                CASE ~started -> @
                  [] collected /\ RefreshSync(t) -> Refreshed(t, refreshed)
                  [] OTHER -> SyncAfter(t)]
           /\ status' = CASE started /\ ~StatusEnabled(t) -> status \ {t}
                          [] collected /\ StatusEnabled(t) -> status \cup {t}
                          [] OTHER -> status
           /\ api' = [api EXCEPT ![t] =
                IF done THEN WithStatus(t, ensureFinalizer(t))
                ELSE IF finalized /\ adds THEN ensureFinalizer(t) ELSE @]
           /\ pending' = (IF done THEN pending \ {t} ELSE pending)
                \cup (IF finalized /\ adds /\ t = NamespaceType
                      THEN reconcileOnNamespaceFTCUpdate ELSE {})
  BY DEF reconcilePresent
<1> DEFINE adds == ~store[t].finalizer
           finalized == adds => store[t] = api[t] /\ f # "finalizer"
           started == finalized /\ (StartNewSync(t) => startSyncController(t) /\ f # "sync")
           collected == started /\ (StatusEnabled(t) /\ t \notin status => f # "status")
           refreshed == collected /\ (RefreshSync(t) => startSyncController(t) /\ f # "refresh")
           done == refreshed /\ Current(t, f)
<1>2. (done => refreshed /\ store[t] = api[t]) /\ (refreshed => collected) /\ (collected => started)
      /\ (started => finalized) /\ (finalized /\ adds => store[t] = api[t])
  BY DEF Current
<1>3. sync' = [sync EXCEPT ![t] =
                CASE ~started -> @
                  [] collected /\ RefreshSync(t) -> Refreshed(t, refreshed)
                  [] OTHER -> SyncAfter(t)]
  BY <1>1
<1>4. status' = CASE started /\ ~StatusEnabled(t) -> status \ {t}
                  [] collected /\ StatusEnabled(t) -> status \cup {t}
                  [] OTHER -> status
  BY <1>1
<1>5. api' = [api EXCEPT ![t] =
                IF done THEN WithStatus(t, ensureFinalizer(t))
                ELSE IF finalized /\ adds THEN ensureFinalizer(t) ELSE @]
  BY <1>1
<1>6. pending' = (IF done THEN pending \ {t} ELSE pending)
                \cup (IF finalized /\ adds /\ t = NamespaceType
                      THEN reconcileOnNamespaceFTCUpdate ELSE {})
  BY <1>1
<1>7. adds <=> ~store[t].finalizer
  OBVIOUS
<1> HIDE DEF adds, finalized, started, collected, refreshed, done
<1>8. api \in [Types -> TypeConfig] /\ sync \in [Types -> [uid : Nat, gen : Nat]]
  BY DEF TypeOK
<1>9. /\ \A u \in Types \ {t} : api'[u] = api[u] /\ sync'[u] = sync[u]
      /\ sync'[t] = CASE ~started -> sync[t]
                      [] collected /\ RefreshSync(t) -> Refreshed(t, refreshed)
                      [] OTHER -> SyncAfter(t)
      /\ api'[t] = IF done THEN WithStatus(t, ensureFinalizer(t))
                   ELSE IF finalized /\ adds THEN ensureFinalizer(t) ELSE api[t]
  BY <1>3, <1>5, <1>8
<1>10. \A u \in Types \ {t} : u \in status' <=> u \in status
  BY <1>4
<1>11. /\ Exists(store[t]) /\ ~store[t].deleting /\ ~OutOfScope(t)
       /\ limited' = limited /\ store' = store
  BY DEF reconcilePresent
<1>12. SyncAfter(t) \in {sync[t], NotRunning, Config(store[t])}
       /\ Refreshed(t, refreshed) \in {NotRunning, Config(store[t])}
       /\ (refreshed => Refreshed(t, refreshed) = Config(store[t]))
  BY DEF SyncAfter, Refreshed
<1>13. sync'[t] \in {sync[t], NotRunning, Config(store[t])}
  BY <1>2, <1>9, <1>12
<1>14. done => /\ (t \in status' <=> StatusEnabled(t))
               /\ sync'[t] = IF RefreshSync(t) THEN Config(store[t]) ELSE SyncAfter(t)
  BY <1>2, <1>4, <1>9, <1>12
<1>15. ASSUME t = NamespaceType, api'[t].finalizer, ~api[t].finalizer
       PROVE  reconcileOnNamespaceFTCUpdate \subseteq pending'
  <2>1. done \/ (finalized /\ adds)
    BY <1>9, <1>15
  <2>2. ~store[t].finalizer
    BY <1>2, <1>15, <2>1
  <2>3. finalized /\ adds
    BY <1>2, <1>7, <2>1, <2>2
  <2> QED BY <1>6, <1>15, <2>3
<1>16. pending \ {t} \subseteq pending' /\ (~done => t \in pending')
  BY <1>6
<1>17. \/ /\ t \in pending'
          /\ \/ api'[t] = api[t]
             \/ store[t] = api[t] /\ api'[t] = ensureFinalizer(t)
       \/ /\ store[t] = api[t] /\ api'[t] = WithStatus(t, ensureFinalizer(t))
          /\ t \in status' <=> StatusEnabled(t)
          /\ sync'[t] = IF RefreshSync(t) THEN Config(store[t]) ELSE SyncAfter(t)
  BY <1>2, <1>9, <1>14, <1>16
<1> QED BY <1>9, <1>10, <1>11, <1>13, <1>15, <1>16, <1>17

\* What holds of a type that a step leaves alone, and which it enqueues if it gives the
\* finalizer to namespaces.
LEMMA Untouched ==
  ASSUME TypeOK, RestInv, NEW u \in Types, limited' = limited,
         api'[u] = api[u], store'[u] = store[u], sync'[u] = sync[u], u \in status' <=> u \in status,
         u \in pending => u \in pending', UidsStay,
         /\ api'[NamespaceType].finalizer /\ ~api[NamespaceType].finalizer
         /\ u \in NamespacedTypes /\ Exists(store[u])
         => u \in pending'
  PROVE  Trails(u)' /\ RunsObserved(u)' /\ Handled(u)'
<1>1. Trails(u) /\ RunsObserved(u) /\ Handled(u)
  BY DEF RestInv
<1>2. api[u].uid \in Nat /\ store[u].uid \in Nat
  BY DEF TypeOK, TypeConfig
<1>3. KnownUid(api[u].uid)' /\ KnownUid(store[u].uid)'
  <2>1. KnownUid(api[u].uid) /\ KnownUid(store[u].uid)
    BY <1>1 DEF Trails
  <2> QED BY <1>2, <2>1 DEF UidsStay, KnownUid
<1>4. Trails(u)'
  BY <1>1, <1>3 DEF Trails, Config, Exists
<1>5. RunsObserved(u)'
  BY <1>1 DEF RunsObserved, Config, Exists, ClusterScoped
<1>6. Handled(u)'
  BY <1>1 DEF Handled, Rests, OutOfScope, Config, Exists, ClusterScoped
<1> QED BY <1>4, <1>5, <1>6

\* The fields of what the controller writes.
LEMMA WrittenFields ==
  ASSUME TypeOK, NEW t \in Types
  PROVE  LET o == ensureFinalizer(t)
             p == WithStatus(t, o)
         IN  /\ o.uid = store[t].uid /\ o.gen = store[t].gen /\ o.observed = store[t].observed
             /\ o.finalizer
             /\ p.uid = store[t].uid /\ p.gen = store[t].gen /\ p.observed = p.gen /\ p.finalizer
             /\ p.reported = (StartNewSync(t) \/ (sync[t] # NotRunning /\ ~StopSync(t)))
             /\ p.collected = StatusEnabled(t)
<1> DEFINE o == ensureFinalizer(t)
<1>1. store[t] \in TypeConfig
  BY DEF TypeOK
<1>2. /\ o.uid = store[t].uid /\ o.gen = store[t].gen /\ o.observed = store[t].observed
      /\ o.finalizer /\ o \in TypeConfig
  BY <1>1 DEF ensureFinalizer, TypeConfig
<1> HIDE DEF o
<1> DEFINE p == WithStatus(t, o)
<1>3. /\ p.uid = store[t].uid /\ p.gen = store[t].gen /\ p.observed = p.gen /\ p.finalizer
      /\ p.reported = (StartNewSync(t) \/ (sync[t] # NotRunning /\ ~StopSync(t)))
      /\ p.collected = StatusEnabled(t)
  BY <1>2 DEF WithStatus, TypeConfig
<1> QED BY <1>2, <1>3 DEF o

LEMMA PresentRest ==
  ASSUME TypeOK, RestInv, NEW t \in Types, t \in pending, reconcilePresent(t), UidsStay
  PROVE  RestInv'
<1>1. /\ Exists(store[t]) /\ ~store[t].deleting /\ ~OutOfScope(t)
      /\ limited' = limited /\ store' = store
      /\ pending \ {t} \subseteq pending'
      /\ \A u \in Types \ {t} : /\ api'[u] = api[u] /\ sync'[u] = sync[u]
                                /\ (u \in status' <=> u \in status)
      /\ sync'[t] \in {sync[t], NotRunning, Config(store[t])}
      /\ t = NamespaceType /\ api'[t].finalizer /\ ~api[t].finalizer =>
           reconcileOnNamespaceFTCUpdate \subseteq pending'
  BY PresentEffect
<1>2. \/ /\ t \in pending'
         /\ \/ api'[t] = api[t]
            \/ store[t] = api[t] /\ api'[t] = ensureFinalizer(t)
      \/ /\ store[t] = api[t] /\ api'[t] = WithStatus(t, ensureFinalizer(t))
         /\ t \in status' <=> StatusEnabled(t)
         /\ sync'[t] = IF RefreshSync(t) THEN Config(store[t]) ELSE SyncAfter(t)
  BY PresentEffect
<1>3. Trails(t) /\ RunsObserved(t) /\ NamespacesTrail
  BY DEF RestInv
<1> DEFINE o == ensureFinalizer(t)
           p == WithStatus(t, o)
<1>4. /\ o.uid = store[t].uid /\ o.gen = store[t].gen /\ o.observed = store[t].observed
      /\ o.finalizer
      /\ p.uid = store[t].uid /\ p.gen = store[t].gen /\ p.observed = p.gen /\ p.finalizer
      /\ p.reported = (StartNewSync(t) \/ (sync[t] # NotRunning /\ ~StopSync(t)))
      /\ p.collected = StatusEnabled(t)
  BY WrittenFields
<1>5. /\ api[t].uid \in Nat /\ api[t].gen \in Nat /\ api[t].observed \in Nat
      /\ store[t].uid \in Nat /\ store[t].gen \in Nat /\ store[t].observed \in Nat
  BY DEF TypeOK, TypeConfig
<1> HIDE DEF o, p
<1>6. api'[t].uid = api[t].uid /\ api'[t].gen = api[t].gen
  BY <1>2, <1>4 DEF o, p
<1>7. api'[t].observed = api[t].observed \/ (store[t] = api[t] /\ api'[t].observed = api[t].gen)
  BY <1>2, <1>4 DEF o, p
<1>8. api'[t] = api[t] \/ Exists(api[t])
  BY <1>1, <1>2
<1>9. Trails(t)'
  <2>1. KnownUid(api[t].uid)' /\ KnownUid(store[t].uid)'
    <3>1. KnownUid(api[t].uid) /\ KnownUid(store[t].uid)
      BY <1>3 DEF Trails
    <3> QED BY <1>1, <1>5, <1>6, <3>1 DEF UidsStay, KnownUid
  <2>2. api'[t].observed <= api'[t].gen
    BY <1>3, <1>5, <1>6, <1>7 DEF Trails
  <2>3. Config(store[t]) = Config(api[t]) => Config(store'[t]) = Config(api'[t])
    BY <1>1, <1>6 DEF Config
  <2>4. Exists(api'[t]) /\ api'[t].observed = api'[t].gen => Config(store'[t]) = Config(api'[t])
    BY <1>3, <1>6, <1>7, <2>3 DEF Trails, Exists
  <2>5. ~Exists(api'[t]) => api'[t] = Absent
    BY <1>3, <1>6, <1>8 DEF Trails, Exists
  <2>6. Exists(api'[t]) /\ store'[t].uid = api'[t].uid => store'[t].gen <= api'[t].gen
    BY <1>1, <1>3, <1>6 DEF Trails, Exists
  <2>7. ~Exists(store'[t]) => store'[t] = Absent
    BY <1>1
  <2> QED BY <2>1, <2>2, <2>4, <2>5, <2>6, <2>7 DEF Trails, Exists, Config
<1>10. ASSUME store[t] = api[t], api'[t] = p, sync'[t] = SyncAfter(t), ~RefreshSync(t),
              ~(limited /\ ClusterScoped(t)), sync'[t] # NotRunning
       PROVE  sync'[t] = Config(store[t])
  <2>1. CASE StartNewSync(t)
    BY <1>10, <2>1 DEF SyncAfter
  <2>2. CASE ~StartNewSync(t)
    <3>1. ~StopSync(t) /\ sync'[t] = sync[t]
      BY <1>10, <2>2 DEF SyncAfter
    <3>2. store[t].observed = store[t].gen
      BY <1>10, <2>2, <3>1 DEF RefreshSync
    <3> QED BY <1>1, <1>3, <1>10, <3>1, <3>2 DEF RunsObserved
  <2> QED BY <2>1, <2>2
<1>11. RunsObserved(t)'
  <2> SUFFICES ASSUME ~(limited /\ ClusterScoped(t)), Exists(api'[t]), api'[t].observed = api'[t].gen,
                      sync'[t] # NotRunning
               PROVE  sync'[t] = Config(api'[t])
    BY <1>1 DEF RunsObserved, Config, Exists, ClusterScoped
  <2>0. Config(api'[t]) = Config(api[t])
    BY <1>6 DEF Config
  <2>1. CASE /\ t \in pending'
             /\ \/ api'[t] = api[t]
                \/ store[t] = api[t] /\ api'[t] = o
    <3>1. api'[t].observed = api[t].observed
      BY <1>4, <2>1
    <3>2. Exists(api[t]) /\ api[t].observed = api[t].gen
      BY <1>6, <3>1 DEF Exists
    <3>3. Config(store[t]) = Config(api[t])
      BY <1>3, <3>2 DEF Trails
    <3>4. sync[t] # NotRunning => sync[t] = Config(api[t])
      BY <1>3, <3>2 DEF RunsObserved
    <3> QED BY <1>1, <2>0, <3>3, <3>4
  <2>2. CASE /\ store[t] = api[t] /\ api'[t] = p
             /\ sync'[t] = IF RefreshSync(t) THEN Config(store[t]) ELSE SyncAfter(t)
    BY <1>10, <2>0, <2>2
  <2> QED BY <1>2, <2>1, <2>2 DEF o, p
<1>12. NamespacesTrail'
  <2>1. CASE t = NamespaceType
    BY <1>1, <2>1 DEF NamespacesTrail
  <2>2. CASE t # NamespaceType
    BY <1>1, <1>3, <2>2, TypeConfigsAssumption DEF NamespacesTrail
  <2> QED BY <2>1, <2>2
<1>13. ASSUME NEW u \in Types \ {t} PROVE Trails(u)' /\ RunsObserved(u)' /\ Handled(u)'
  <2>1. /\ api'[NamespaceType].finalizer /\ ~api[NamespaceType].finalizer
        /\ u \in NamespacedTypes /\ Exists(store[u])
        => u \in pending'
    <3>1. CASE t = NamespaceType
      BY <1>1, <3>1 DEF reconcileOnNamespaceFTCUpdate
    <3>2. CASE t # NamespaceType
      BY <1>1, <3>2, TypeConfigsAssumption
    <3> QED BY <3>1, <3>2
  <2> QED BY <1>1, <2>1, Untouched
<1>14. Handled(t)'
  <2> SUFFICES ASSUME Rests(t)', Exists(store'[t]), ~OutOfScope(t)' PROVE Handled(t)'
    BY DEF Handled
  <2>1. /\ store[t] = api[t] /\ api'[t] = p
        /\ t \in status' <=> StatusEnabled(t)
        /\ sync'[t] = IF RefreshSync(t) THEN Config(store[t]) ELSE SyncAfter(t)
    BY <1>2 DEF Rests, o, p
  <2>2. store[t] = p
    BY <1>1, <2>1 DEF Rests
  <2>3. store[t].finalizer /\ store[t].observed = store[t].gen /\ store[t].collected = StatusEnabled(t)
        /\ store[t].reported = (StartNewSync(t) \/ (sync[t] # NotRunning /\ ~StopSync(t)))
    BY <1>4, <2>2
  <2>4. ~RefreshSync(t) /\ sync'[t] = SyncAfter(t)
    BY <2>1, <2>3 DEF RefreshSync
  <2>5. ASSUME store[t].enabled
        PROVE  \/ sync'[t] = Config(store[t]) /\ store[t].reported
               \/ /\ t \in NamespacedTypes /\ ~api'[NamespaceType].finalizer
                  /\ sync'[t] = NotRunning /\ ~store[t].reported
    <3>1. ~(limited /\ ClusterScoped(t))
      BY <1>1, <2>5 DEF OutOfScope
    <3>2. CASE StartNewSync(t)
      BY <2>3, <2>4, <3>2 DEF SyncAfter
    <3>3. CASE StopSync(t)
      <4>1. ~StartNewSync(t) /\ sync'[t] = NotRunning /\ ~store[t].reported
        BY <2>3, <2>4, <3>3 DEF SyncAfter, StartNewSync, StopSync
      <4>2. t \in NamespacedTypes /\ ~Exists(store[NamespaceType])
        BY <2>5, <3>3 DEF StopSync, namespaceFTCExists
      <4>3. ~api[NamespaceType].finalizer /\ NamespaceType \in Types \ {t}
        BY <1>3, <4>2, TypeConfigsAssumption DEF NamespacesTrail
      <4> QED BY <1>1, <4>1, <4>2, <4>3
    <3>4. CASE ~StartNewSync(t) /\ ~StopSync(t)
      <4>1. sync[t] # NotRunning /\ sync'[t] = sync[t]
        BY <2>4, <2>5, <3>4 DEF SyncAfter, StartNewSync
      <4> QED BY <1>10, <2>1, <2>3, <2>4, <3>1, <3>4, <4>1
    <3> QED BY <3>2, <3>3, <3>4
  <2>6. ASSUME ~store[t].enabled PROVE sync'[t] = NotRunning
    BY <2>4, <2>6 DEF SyncAfter, StartNewSync, StopSync
  <2> QED BY <1>1, <2>1, <2>3, <2>5, <2>6 DEF Handled, Config
<1> QED BY <1>9, <1>11, <1>12, <1>13, <1>14 DEF RestInv

\* A step at one type: the others are left alone, and those that wait for namespaces are
\* enqueued if these get their finalizer.
LEMMA OneType ==
  ASSUME TypeOK, RestInv, NEW t \in Types, limited' = limited, UidsStay,
         \A u \in Types \ {t} : /\ api'[u] = api[u] /\ store'[u] = store[u] /\ sync'[u] = sync[u]
                                /\ (u \in status' <=> u \in status) /\ (u \in pending => u \in pending'),
         api'[t].finalizer => api[t].finalizer,
         Trails(t)', RunsObserved(t)', Handled(t)',
         t = NamespaceType => NamespacesTrail'
  PROVE  RestInv'
<1>1. api'[NamespaceType].finalizer => api[NamespaceType].finalizer
  BY TypeConfigsAssumption
<1>2. ASSUME NEW u \in Types \ {t} PROVE Trails(u)' /\ RunsObserved(u)' /\ Handled(u)'
  BY <1>1, Untouched
<1>3. NamespacesTrail'
  BY TypeConfigsAssumption DEF RestInv, NamespacesTrail
<1> QED BY <1>2, <1>3 DEF RestInv

LEMMA NoneKnown ==
  ASSUME used'.edits \in Nat
  PROVE  KnownUid(0)'
BY DEF KnownUid

LEMMA AbsentRest ==
  ASSUME TypeOK, RestInv, NEW t \in Types, reconcileAbsent(t), UidsStay
  PROVE  RestInv'
<1>1. /\ limited' = limited /\ api' = api /\ store' = store /\ sync' = sync /\ status' = status
      /\ pending' = pending \ {t} /\ ~Exists(store[t])
  BY DEF reconcileAbsent
<1>2. Trails(t) /\ RunsObserved(t) /\ NamespacesTrail
  BY DEF RestInv
<1>3. api[t].uid \in Nat /\ store[t].uid \in Nat
  BY DEF TypeOK, TypeConfig
<1>4. KnownUid(api[t].uid)' /\ KnownUid(store[t].uid)'
  <2>1. KnownUid(api[t].uid) /\ KnownUid(store[t].uid)
    BY <1>2 DEF Trails
  <2> QED BY <1>1, <1>3, <2>1 DEF UidsStay, KnownUid
<1>5. Trails(t)' /\ RunsObserved(t)' /\ NamespacesTrail'
  BY <1>1, <1>2, <1>4 DEF Trails, RunsObserved, NamespacesTrail, Config, Exists, ClusterScoped
<1>6. Handled(t)'
  BY <1>1 DEF Handled, Exists
<1> QED BY <1>1, <1>5, <1>6, OneType

LEMMA OutOfScopeRest ==
  ASSUME TypeOK, RestInv, NEW t \in Types, reconcileOutOfScope(t), UidsStay
  PROVE  RestInv'
<1>1. PICK f \in {"nothing", "write"} :
       /\ sync' = [sync EXCEPT ![t] = IF @ = NotRunning THEN Holder ELSE @]
       /\ IF Current(t, f)
          THEN /\ api' = [api EXCEPT ![t].observed = store[t].gen, ![t].reported = FALSE,
                                     ![t].collected = FALSE]
               /\ pending' = pending \ {t}
          ELSE UNCHANGED <<api, pending>>
  BY DEF reconcileOutOfScope
<1>2. limited' = limited /\ store' = store /\ status' = status /\ OutOfScope(t) /\ Exists(store[t])
  BY DEF reconcileOutOfScope
<1>3. /\ api[t] \in TypeConfig /\ store[t] \in TypeConfig
      /\ api[t].uid \in Nat /\ store[t].uid \in Nat /\ api[t].gen \in Nat /\ api[t].observed \in Nat
  BY DEF TypeOK, TypeConfig
<1>4. \A u \in Types \ {t} : api'[u] = api[u] /\ sync'[u] = sync[u] /\ (u \in pending => u \in pending')
  BY <1>1 DEF TypeOK
<1>5. /\ api'[t].uid = api[t].uid /\ api'[t].gen = api[t].gen
      /\ api'[t].finalizer = api[t].finalizer
      /\ \/ api'[t] = api[t]
         \/ store[t] = api[t] /\ api'[t].observed = api[t].gen
  <2>1. CASE Current(t, f)
    <3>1. api'[t] = [api[t] EXCEPT !.observed = store[t].gen, !.reported = FALSE, !.collected = FALSE]
      BY <1>1, <2>1 DEF TypeOK
    <3> QED BY <1>3, <2>1, <3>1 DEF Current, TypeConfig
  <2>2. CASE ~Current(t, f)
    BY <1>1, <2>2
  <2> QED BY <2>1, <2>2
<1>6. Trails(t) /\ NamespacesTrail
  BY DEF RestInv
<1>7. Trails(t)'
  <2>1. KnownUid(api[t].uid)' /\ KnownUid(store[t].uid)'
    <3>1. KnownUid(api[t].uid) /\ KnownUid(store[t].uid)
      BY <1>6 DEF Trails
    <3> QED BY <1>2, <1>3, <1>5, <3>1 DEF UidsStay, KnownUid
  <2>2. CASE api'[t] = api[t]
    BY <1>2, <1>6, <2>1, <2>2 DEF Trails, Config, Exists
  <2>3. CASE store[t] = api[t] /\ api'[t].observed = api[t].gen
    BY <1>2, <1>3, <1>5, <2>1, <2>3 DEF Trails, Config, Exists
  <2> QED BY <1>5, <2>2, <2>3
<1>8. RunsObserved(t)' /\ Handled(t)'
  BY <1>2 DEF RunsObserved, Handled, OutOfScope, ClusterScoped
<1>9. NamespacesTrail' \/ t # NamespaceType
  BY <1>2, <1>5, <1>6 DEF NamespacesTrail
<1> QED BY <1>2, <1>4, <1>5, <1>7, <1>8, <1>9, OneType

LEMMA DeletedRest ==
  ASSUME TypeOK, RestInv, NEW t \in Types, t \in pending, reconcileDeleted(t), UidsStay,
         used'.edits \in Nat
  PROVE  RestInv'
<1>1. PICK f \in {"nothing", "write"} :
       /\ api' = [api EXCEPT ![t] = IF Current(t, f) THEN Absent ELSE @]
       /\ pending' = (IF Current(t, f) THEN pending \ {t} ELSE pending)
                       \cup (IF t = NamespaceType THEN reconcileOnNamespaceFTCUpdate ELSE {})
  BY DEF reconcileDeleted
<1>2. /\ limited' = limited /\ store' = store /\ status' = status \ {t} /\ Exists(store[t])
      /\ sync' = [sync EXCEPT ![t] = NotRunning]
  BY DEF reconcileDeleted
<1>3. /\ api[t].uid \in Nat /\ store[t].uid \in Nat /\ api[t].gen \in Nat /\ api[t].observed \in Nat
  BY DEF TypeOK, TypeConfig
<1>4. \A u \in Types \ {t} : /\ api'[u] = api[u] /\ sync'[u] = sync[u] /\ (u \in status' <=> u \in status)
                             /\ (u \in pending => u \in pending')
  BY <1>1, <1>2 DEF TypeOK
<1>5. sync'[t] = NotRunning /\ (api'[t] = Absent \/ (api'[t] = api[t] /\ t \in pending'))
  BY <1>1, <1>2 DEF TypeOK
<1>6. Trails(t) /\ NamespacesTrail
  BY DEF RestInv
<1>7. KnownUid(api[t].uid)' /\ KnownUid(store[t].uid)'
  <2>1. KnownUid(api[t].uid) /\ KnownUid(store[t].uid)
    BY <1>6 DEF Trails
  <2>2. KnownUid(0)'
    BY NoneKnown
  <2> QED BY <1>2, <1>3, <1>5, <2>1, <2>2, AbsentIs DEF UidsStay, KnownUid
<1>8. Trails(t)'
  <2>1. CASE api'[t] = Absent
    BY <1>2, <1>6, <1>7, <2>1, AbsentIs DEF Trails, Exists
  <2>2. CASE api'[t] = api[t]
    BY <1>2, <1>6, <1>7, <2>2 DEF Trails, Config, Exists
  <2> QED BY <1>5, <2>1, <2>2
<1>9. RunsObserved(t)'
  BY <1>5 DEF RunsObserved
<1>10. Handled(t)'
  BY <1>2, <1>5, AbsentIs DEF Handled, Rests, Exists
<1>11. NamespacesTrail' \/ t # NamespaceType
  BY <1>2 DEF NamespacesTrail, Exists
<1> QED BY <1>2, <1>4, <1>5, <1>8, <1>9, <1>10, <1>11, AbsentIs, OneType

LEMMA InformedRest ==
  ASSUME TypeOK, RestInv, NEW t \in Types, Informed(t), UidsStay
  PROVE  RestInv'
<1>1. /\ limited' = limited /\ api' = api /\ sync' = sync /\ status' = status
      /\ store' = [store EXCEPT ![t] = api[t]] /\ pending' = pending \cup {t}
  BY DEF Informed
<1>2. store'[t] = api[t] /\ \A u \in Types \ {t} : store'[u] = store[u]
  BY <1>1 DEF TypeOK
<1>3. Trails(t) /\ RunsObserved(t)
  BY DEF RestInv
<1>4. api[t].uid \in Nat /\ api[t].gen \in Nat
  BY DEF TypeOK, TypeConfig
<1>5. KnownUid(api[t].uid)' /\ KnownUid(store[t].uid)'
  <2>1. KnownUid(api[t].uid)
    BY <1>3 DEF Trails
  <2> QED BY <1>1, <1>2, <1>4, <2>1 DEF UidsStay, KnownUid
<1>6. Trails(t)'
  BY <1>1, <1>2, <1>3, <1>4, <1>5 DEF Trails, Config, Exists
<1>7. RunsObserved(t)'
  BY <1>1, <1>3 DEF RunsObserved, Config, Exists, ClusterScoped
<1>8. Handled(t)'
  BY <1>1 DEF Handled, Rests
<1>9. NamespacesTrail' \/ t # NamespaceType
  BY <1>1, <1>2, <1>3, AbsentIs DEF NamespacesTrail, Trails, Exists
<1> QED BY <1>1, <1>2, <1>6, <1>7, <1>8, <1>9, OneType

LEMMA RestartRest ==
  ASSUME TypeOK, RestInv, Restart, UidsStay
  PROVE  RestInv'
<1>1. /\ limited' = limited /\ api' = api /\ store' = api /\ pending' = {t \in Types : Exists(api[t])}
      /\ sync' = [t \in Types |-> NotRunning]
  BY DEF Restart
<1>2. ASSUME NEW t \in Types PROVE Trails(t)' /\ RunsObserved(t)' /\ Handled(t)'
  <2>1. Trails(t) /\ RunsObserved(t)
    BY DEF RestInv
  <2>2. api[t].uid \in Nat /\ api[t].gen \in Nat
    BY DEF TypeOK, TypeConfig
  <2>3. KnownUid(api[t].uid)' /\ KnownUid(store[t].uid)'
    <3>1. KnownUid(api[t].uid)
      BY <2>1 DEF Trails
    <3> QED BY <1>1, <2>2, <3>1 DEF UidsStay, KnownUid
  <2>4. Trails(t)'
    BY <1>1, <2>1, <2>2, <2>3 DEF Trails, Config, Exists
  <2>5. RunsObserved(t)'
    BY <1>1 DEF RunsObserved
  <2>6. Handled(t)'
    BY <1>1 DEF Handled, Rests, Exists
  <2> QED BY <2>4, <2>5, <2>6
<1>3. Trails(NamespaceType)
  BY TypeConfigsAssumption DEF RestInv
<1>4. NamespacesTrail'
  BY <1>1, <1>3, AbsentIs DEF NamespacesTrail, Trails, Exists
<1> QED BY <1>2, <1>4 DEF RestInv

LEMMA Above ==
  ASSUME NEW a \in Nat, NEW b \in Nat, NEW m \in Nat, NEW n \in Nat
  PROVE  /\ n > a + m + 2 /\ (b = a \/ b < a) => n > b + m + 2
         /\ n = a + m + 2 /\ b < a => n > b + m + 2
OBVIOUS

\* Users and commands take uids that were not used before.
LEMMA UidsKept ==
  ASSUME CommandsTypeOK, used'.edits \in Nat, commands' \in Nat, used.edits <= used'.edits,
         \/ commands' < commands
         \/ /\ commands' = commands
            /\ At("enable", "crd")' \/ At("enable", "config")' =>
                 At("enable", "crd") \/ At("enable", "config")
  PROVE  UidsStay
<1>1. used.edits \in Nat /\ commands \in Nat /\ MaxEdits \in Nat
  BY TypeConfigsAssumption, CommandsAssumption DEF CommandsTypeOK, TypeOK
<1>0. commands' = commands \/ commands' < commands
  OBVIOUS
<1> SUFFICES ASSUME NEW n \in Nat, KnownUid(n) PROVE KnownUid(n)'
  BY DEF UidsStay
<1>2. CASE n < used.edits + 2
  <2>1. n < used'.edits + 2
    BY <1>1, <1>2
  <2> QED BY <2>1 DEF KnownUid, At
<1>3. CASE n > commands + MaxEdits + 2
  <2>1. n > commands' + MaxEdits + 2
    BY <1>0, <1>1, <1>3, Above
  <2> QED BY <2>1 DEF KnownUid, At
<1>4. CASE n = commands + MaxEdits + 2 /\ ~At("enable", "crd") /\ ~At("enable", "config")
  <2>1. CASE commands' < commands
    <3>1. n > commands' + MaxEdits + 2
      BY <1>0, <1>1, <1>4, <2>1, Above
    <3> QED BY <3>1 DEF KnownUid, At
  <2>2. CASE commands' = commands /\ ~At("enable", "crd")' /\ ~At("enable", "config")'
    BY <1>4, <2>2 DEF KnownUid, At
  <2> QED BY <1>4, <2>1, <2>2
<1> QED BY <1>2, <1>3, <1>4 DEF KnownUid

\* An edit is a change to a later generation.
Newer(o, v) ==
  /\ v \in TypeConfig /\ v.uid = o.uid /\ v.gen = o.gen + 1
  /\ v.observed = o.observed /\ v.finalizer = o.finalizer

LEMMA NewerChange ==
  ASSUME NEW o \in TypeConfig
  PROVE  /\ \A e, c \in BOOLEAN : Newer(o, [o EXCEPT !.gen = @ + 1, !.enabled = e, !.collect = c])
         /\ \A e, c \in BOOLEAN : Newer(o, [o EXCEPT !.enabled = e, !.collect = c, !.gen = @ + 1])
         /\ Newer(o, [o EXCEPT !.deleting = TRUE, !.gen = @ + 1])
         /\ Newer(o, [o EXCEPT !.enabled = FALSE, !.gen = @ + 1])
<1>1. o.gen + 1 \in Nat
  BY DEF TypeConfig
<1> DEFINE Later(v, n) == /\ v \in TypeConfig /\ v.uid = o.uid /\ v.gen = n
                          /\ v.observed = o.observed /\ v.finalizer = o.finalizer
<1>2. ASSUME NEW n \in Nat
      PROVE  /\ \A e, c \in BOOLEAN : Later([o EXCEPT !.gen = n, !.enabled = e, !.collect = c], n)
             /\ \A e, c \in BOOLEAN : Later([o EXCEPT !.enabled = e, !.collect = c, !.gen = n], n)
             /\ Later([o EXCEPT !.deleting = TRUE, !.gen = n], n)
             /\ Later([o EXCEPT !.enabled = FALSE, !.gen = n], n)
  BY DEF TypeConfig
<1>3. \A v : Later(v, o.gen + 1) => Newer(o, v)
  BY DEF Newer
<1> HIDE DEF Later
<1> QED BY <1>1, <1>2, <1>3

\* A new object has a uid the cache does not know.
LEMMA NewChange ==
  ASSUME NEW t \in Types, NEW n \in Nat \ {0}, NEW e \in BOOLEAN, ~Exists(api[t]), n # store[t].uid
  PROVE  /\ Change(t, Created(n, e)) /\ Created(n, e).uid = n
         /\ LET o == [Created(n, e) EXCEPT !.collect = FALSE] IN Change(t, o) /\ o.uid = n
<1>1. LET o == Created(n, e) IN o.uid = n /\ o.gen = 1 /\ o.observed = 0 /\ ~o.finalizer
  BY DEF Created, Absent
<1> QED BY <1>1 DEF Change

LEMMA UserRest ==
  ASSUME CommandsTypeOK, RestInv, NEW t \in Types, UserCreates(t) \/ UserEdits(t) \/ UserDeletes(t),
         UNCHANGED cmdVars
  PROVE  RestInv'
<1>0. TypeOK /\ api[t] \in TypeConfig /\ store[t] \in TypeConfig /\ Trails(t)
  BY DEF CommandsTypeOK, TypeOK, RestInv
<1>1. used.edits \in Nat /\ commands \in Nat /\ MaxEdits \in Nat /\ api[t].uid \in Nat /\ store[t].uid \in Nat
  BY <1>0, TypeConfigsAssumption, CommandsAssumption DEF CommandsTypeOK, TypeOK, TypeConfig
<1>2. ASSUME NEW o, Edit(t, o), Change(t, o),
             o.uid \in {0, api[t].uid} \/ o.uid = used.edits + 2
      PROVE  RestInv'
  <2>1. /\ used.edits < MaxEdits /\ api' = [api EXCEPT ![t] = o] /\ UNCHANGED <<limited, ctlVars>>
        /\ used' = [used EXCEPT !.edits = @ + 1]
    BY <1>2 DEF Edit
  <2>2. used'.edits = used.edits + 1 /\ commands' = commands /\ cmd' = cmd
    BY <1>0, <2>1 DEF TypeOK, cmdVars
  <2>3. UidsStay
    <3>1. used'.edits \in Nat /\ commands' \in Nat /\ used.edits <= used'.edits
      BY <1>1, <2>2
    <3>2. (At("enable", "crd")' <=> At("enable", "crd")) /\ (At("enable", "config")' <=> At("enable", "config"))
      BY <2>2 DEF At
    <3> QED BY <2>2, <3>1, <3>2, UidsKept
  <2>4. KnownUid(o.uid)'
    <3>1. CASE o.uid = 0
      BY <1>1, <2>2, <3>1, NoneKnown
    <3>2. CASE o.uid = api[t].uid
      BY <1>0, <1>1, <2>3, <3>2 DEF Trails, UidsStay, KnownUid
    <3>3. CASE o.uid = used.edits + 2
      BY <1>1, <2>2, <3>3 DEF KnownUid
    <3> QED BY <1>2, <3>1, <3>2, <3>3
  <2> QED BY <1>0, <1>2, <2>1, <2>3, <2>4, ChangeRest DEF Changes
<1>3. CASE UserCreates(t)
  <2>1. PICK e \in BOOLEAN : Edit(t, Created(used.edits + 2, e))
    BY <1>3 DEF UserCreates
  <2>2. used.edits < MaxEdits /\ ~Exists(api[t])
    BY <1>3, <2>1 DEF UserCreates, Edit
  <2>3. used.edits + 2 \in Nat \ {0} /\ used.edits + 2 # store[t].uid
    BY <1>0, <1>1, <2>2 DEF Trails, KnownUid
  <2> QED BY <1>2, <2>1, <2>2, <2>3, NewChange
<1>4. CASE UserEdits(t)
  <2>1. PICK e \in BOOLEAN, c \in BOOLEAN :
          Edit(t, [api[t] EXCEPT !.gen = @ + 1, !.enabled = e, !.collect = c])
    BY <1>4 DEF UserEdits
  <2> DEFINE o == [api[t] EXCEPT !.gen = @ + 1, !.enabled = e, !.collect = c]
  <2>2. Newer(api[t], o)
    BY <1>0, NewerChange
  <2>3. Edit(t, o) /\ Exists(api[t])
    BY <1>4, <2>1 DEF UserEdits
  <2> HIDE DEF o
  <2> QED BY <1>2, <2>2, <2>3 DEF Change, Newer
<1>5. CASE UserDeletes(t)
  <2> DEFINE o == [api[t] EXCEPT !.deleting = TRUE, !.gen = @ + 1]
  <2>1. Newer(api[t], o)
    BY <1>0, NewerChange
  <2>2. Exists(api[t]) /\ Edit(t, IF api[t].finalizer THEN o ELSE Absent)
    BY <1>5 DEF UserDeletes
  <2> HIDE DEF o
  <2>3. CASE api[t].finalizer
    BY <1>2, <2>1, <2>2, <2>3 DEF Change, Newer
  <2>4. CASE ~api[t].finalizer
    BY <1>2, <2>2, <2>4, AbsentIs DEF Change
  <2> QED BY <2>3, <2>4
<1> QED BY <1>3, <1>4, <1>5

LEMMA ControllerRest ==
  ASSUME CommandsTypeOK, RestInv, Next, UNCHANGED cmdVars, TypeOK'
  PROVE  RestInv'
<1>0. TypeOK /\ commands' = commands /\ cmd' = cmd
  BY DEF CommandsTypeOK, cmdVars
<1>1. used'.edits \in Nat /\ commands' \in Nat
  BY <1>0, TypeConfigsAssumption, CommandsAssumption DEF TypeOK, CommandsTypeOK
<1>2. used'.edits = used.edits => UidsStay
  <2>1. used.edits \in Nat
    BY <1>0, TypeConfigsAssumption DEF TypeOK
  <2>2. (At("enable", "crd")' <=> At("enable", "crd")) /\ (At("enable", "config")' <=> At("enable", "config"))
    BY <1>0 DEF At
  <2> QED BY <1>0, <1>1, <2>1, <2>2, UidsKept
<1>3. ASSUME NEW t \in Types, UserCreates(t) \/ UserEdits(t) \/ UserDeletes(t)
      PROVE  RestInv'
  BY <1>3, UserRest
<1>4. ASSUME NEW t \in Types, Informed(t)
      PROVE  RestInv'
  <2>1. used'.edits = used.edits
    BY <1>4 DEF Informed
  <2> QED BY <1>0, <1>2, <1>4, <2>1, InformedRest
<1>5. ASSUME NEW t \in Types, reconcile(t)
      PROVE  RestInv'
  <2>1. ASSUME NEW f, Charge(f) PROVE used'.edits = used.edits
    BY <1>0, <2>1 DEF Charge, TypeOK
  <2>2. used'.edits = used.edits
    BY <1>5, <2>1 DEF reconcile, reconcileAbsent, reconcileOutOfScope, reconcileDeleted, reconcilePresent
  <2>3. UidsStay /\ t \in pending
    BY <1>2, <1>5, <2>2 DEF reconcile
  <2> QED BY <1>0, <1>1, <1>5, <2>3, AbsentRest, OutOfScopeRest, DeletedRest, PresentRest DEF reconcile
<1>6. CASE Restart
  <2>1. used'.edits = used.edits
    BY <1>0, <1>6 DEF Restart, TypeOK
  <2> QED BY <1>0, <1>2, <1>6, <2>1, RestartRest
<1> QED BY <1>3, <1>4, <1>5, <1>6 DEF Next

\* What a command may write, once it is not going to take a uid any more or has none to take.
LEMMA CommandChange ==
  ASSUME CommandsTypeOK, RestInv, Commands
  PROVE  \/ UNCHANGED vars
         \/ /\ commands' = commands /\ ~At("enable", "crd")' /\ ~At("enable", "config")'
            /\ \E o : /\ Changes(cmd.type, o)
                      /\ o.uid \in {0, api[cmd.type].uid, commands + MaxEdits + 2}
<1> DEFINE t == cmd.type
<1>0. t \in Types /\ api[t] \in TypeConfig /\ store[t] \in TypeConfig /\ Trails(t)
      /\ api = [api EXCEPT ![t] = api[t]]
  BY DEF CommandsTypeOK, TypeOK, RestInv
<1>1. used.edits \in 0 .. MaxEdits /\ commands \in Nat /\ MaxEdits \in Nat /\ store[t].uid \in Nat
  BY <1>0, TypeConfigsAssumption, CommandsAssumption DEF CommandsTypeOK, TypeOK, TypeConfig
<1>2. cmd \in [op : {"none", "enable", "disable"}, type : Types, deleteCRD : BOOLEAN,
               step : {"get", "propagation", "verify", "crd", "config", "ended"},
               ok : BOOLEAN, read : TypeConfig]
  BY DEF CommandsTypeOK
<1>3. CASE At("enable", "config") /\ CreateResources
  <2>1. /\ api' = [api EXCEPT ![t] = Generated(t)] /\ Ends(TRUE)
        /\ UNCHANGED <<limited, ctlVars, used, commands>>
    BY <1>3 DEF CreateResources, At
  <2>2. commands' = commands /\ ~At("enable", "crd")' /\ ~At("enable", "config")'
    BY <1>2, <2>1 DEF Ends, At
  <2>3. Change(t, Generated(t)) /\ Generated(t).uid \in {0, api[t].uid, commands + MaxEdits + 2}
    <3>1. CASE ~Exists(api[t])
      <4> DEFINE n == commands + MaxEdits + 2
      <4>1. n \in Nat \ {0} /\ n # store[t].uid
        BY <1>0, <1>1, <1>3 DEF Trails, KnownUid
      <4> DEFINE new == [Created(n, TRUE) EXCEPT !.collect = FALSE]
      <4>2. Generated(t) = new
        BY <3>1 DEF Generated
      <4> HIDE DEF n, t
      <4>3. Change(t, new) /\ new.uid = n
        BY <1>0, <3>1, <4>1, NewChange
      <4> QED BY <4>2, <4>3 DEF n
    <3>2. CASE Exists(api[t]) /\ api[t].enabled /\ ~api[t].collect
      BY <3>2 DEF Generated, Change
    <3>3. CASE Exists(api[t]) /\ ~(api[t].enabled /\ ~api[t].collect)
      <4> DEFINE p == [api[t] EXCEPT !.enabled = TRUE, !.collect = FALSE, !.gen = @ + 1]
      <4>1. Generated(t) = p
        BY <3>3 DEF Generated
      <4>2. Newer(api[t], p)
        BY <1>0, NewerChange
      <4> HIDE DEF p
      <4> QED BY <3>3, <4>1, <4>2 DEF Newer, Change
    <3> QED BY <3>1, <3>2, <3>3
  <2> QED BY <2>1, <2>2, <2>3 DEF Changes
<1>4. CASE disablePropagation(t)
  <2>1. /\ UNCHANGED <<limited, ctlVars, used, commands>> /\ At("disable", "propagation")
        /\ \/ cmd' = [cmd EXCEPT !.step = "verify"]
           \/ cmd' = [cmd EXCEPT !.step = "ended", !.ok = FALSE, !.read = Absent]
    BY <1>4 DEF disablePropagation, Goes, Ends
  <2>2. ~At("enable", "crd")' /\ ~At("enable", "config")'
    BY <1>2, <2>1 DEF At
  <2> DEFINE o == [api[t] EXCEPT !.enabled = FALSE, !.gen = @ + 1]
  <2>3. api' = api \/ (api' = [api EXCEPT ![t] = o] /\ api[t].enabled)
    BY <1>0, <1>4 DEF disablePropagation, CommandsTypeOK, TypeOK
  <2>4. Newer(api[t], o)
    BY <1>0, NewerChange
  <2>5. api[t].enabled => Exists(api[t])
    BY <1>0, AbsentIs DEF Trails
  <2> HIDE DEF o, t
  <2>6. CASE api' = api
    <3>1. Changes(t, api[t])
      BY <1>0, <2>1, <2>6 DEF Changes, Change
    <3> QED BY <2>1, <2>2, <3>1 DEF t
  <2>7. CASE api' = [api EXCEPT ![t] = o] /\ api[t].enabled
    <3>1. Changes(t, o) /\ o.uid = api[t].uid
      BY <1>0, <2>1, <2>4, <2>5, <2>7 DEF Changes, Change, Newer
    <3> QED BY <2>1, <2>2, <3>1 DEF t
  <2> QED BY <2>3, <2>6, <2>7
<1>5. CASE deleteFederatedTypeConfig(t)
  <2>1. /\ UNCHANGED <<limited, ctlVars, used, commands>> /\ At("disable", "config")
        /\ Ends(Exists(api[t]))
    BY <1>5 DEF deleteFederatedTypeConfig
  <2>2. ~At("enable", "crd")' /\ ~At("enable", "config")'
    BY <1>2, <2>1 DEF At, Ends
  <2> DEFINE o == [api[t] EXCEPT !.deleting = TRUE, !.gen = @ + 1]
             p == IF ~api[t].finalizer THEN Absent ELSE IF api[t].deleting THEN api[t] ELSE o
  <2>3. api' = [api EXCEPT ![t] = p]
    BY <1>0, <1>5 DEF deleteFederatedTypeConfig
  <2>4. Newer(api[t], o)
    BY <1>0, NewerChange
  <2>5. api[t].finalizer => Exists(api[t])
    BY <1>0, AbsentIs DEF Trails
  <2> HIDE DEF o, t
  <2>7. Change(t, p) /\ p.uid \in {0, api[t].uid}
    <3>1. CASE ~api[t].finalizer
      BY <3>1, AbsentIs DEF Change
    <3>2. CASE api[t].finalizer /\ api[t].deleting
      BY <3>2 DEF Change
    <3>3. CASE api[t].finalizer /\ ~api[t].deleting
      BY <2>4, <2>5, <3>3 DEF Change, Newer
    <3> QED BY <3>1, <3>2, <3>3
  <2> HIDE DEF p
  <2>8. Changes(t, p)
    BY <2>1, <2>3, <2>7 DEF Changes
  <2> QED BY <2>1, <2>2, <2>7, <2>8 DEF t
<1>6. CASE ~(At("enable", "config") /\ CreateResources)
           /\ ~disablePropagation(t) /\ ~deleteFederatedTypeConfig(t)
  <2>1. CASE \E u \in Types : Enable(u) \/ Disable(u)
    BY <2>1 DEF Enable, Disable, Give
  <2>2. CASE CreateResources
    BY <1>6, <2>2 DEF CreateResources
  <2>3. CASE DisableFederation
    BY <1>6, <2>3 DEF DisableFederation, checkFederatedTypeConfigExists,
         verifyPropagationControllerStopped, deleteFederatedType
  <2>4. CASE Interrupted
    BY <2>4 DEF Interrupted
  <2> QED BY <2>1, <2>2, <2>3, <2>4 DEF Commands
<1> QED BY <1>3, <1>4, <1>5, <1>6

\* A command uses the uid it has, or gives it up.
LEMMA CommandUids ==
  ASSUME CommandsTypeOK, Commands
  PROVE  /\ UNCHANGED used
         /\ \/ commands' < commands
            \/ /\ commands' = commands
               /\ At("enable", "crd")' \/ At("enable", "config")' =>
                    At("enable", "crd") \/ At("enable", "config")
<1>0. cmd \in [op : {"none", "enable", "disable"}, type : Types, deleteCRD : BOOLEAN,
               step : {"get", "propagation", "verify", "crd", "config", "ended"},
               ok : BOOLEAN, read : TypeConfig]
      /\ commands \in Nat
  BY CommandsAssumption DEF CommandsTypeOK
<1>1. UNCHANGED used
  BY CommandReplaces
<1>2. CASE \E u \in Types : Enable(u) \/ Disable(u)
  <2>1. commands > 0 /\ commands' = commands - 1
    BY <1>2 DEF Enable, Disable, Give
  <2> QED BY <1>0, <1>1, <2>1
<1>3. CASE CreateResources
  <2>1. commands' = commands /\ (At("enable", "crd") \/ At("enable", "config"))
    BY <1>3 DEF CreateResources
  <2> QED BY <1>1, <2>1
<1>4. CASE DisableFederation
  <2>1. commands' = commands /\ cmd.op = "disable"
    BY <1>4 DEF DisableFederation, checkFederatedTypeConfigExists, disablePropagation,
         verifyPropagationControllerStopped, deleteFederatedType, deleteFederatedTypeConfig, At
  <2>2. /\ \A ok : Ends(ok) => cmd'.op = cmd.op
        /\ \A step : Goes(step) => cmd'.op = cmd.op
        /\ \A read : cmd' = [cmd EXCEPT !.step = "propagation", !.read = read] => cmd'.op = cmd.op
    BY <1>0 DEF Ends, Goes
  <2>3. cmd'.op = cmd.op
    <3>1. CASE checkFederatedTypeConfigExists(cmd.type)
      BY <2>2, <3>1 DEF checkFederatedTypeConfigExists
    <3>2. CASE disablePropagation(cmd.type)
      BY <2>2, <3>2 DEF disablePropagation
    <3>3. CASE verifyPropagationControllerStopped(cmd.type)
      BY <2>2, <3>3 DEF verifyPropagationControllerStopped
    <3>4. CASE deleteFederatedType(cmd.type)
      BY <2>2, <3>4 DEF deleteFederatedType
    <3>5. CASE deleteFederatedTypeConfig(cmd.type)
      BY <2>2, <3>5 DEF deleteFederatedTypeConfig
    <3> QED BY <1>4, <3>1, <3>2, <3>3, <3>4, <3>5 DEF DisableFederation
  <2> QED BY <1>1, <2>1, <2>3 DEF At
<1>5. CASE Interrupted
  BY <1>0, <1>1, <1>5 DEF Interrupted, Ends, At
<1> QED BY <1>2, <1>3, <1>4, <1>5 DEF Commands

LEMMA CommandRest ==
  ASSUME CommandsTypeOK, RestInv, Commands, CommandsTypeOK'
  PROVE  RestInv'
<1> DEFINE t == cmd.type
<1>0. TypeOK /\ t \in Types /\ api[t].uid \in Nat /\ Trails(t)
  BY DEF CommandsTypeOK, TypeOK, TypeConfig, RestInv
<1>1. /\ used'.edits \in Nat /\ commands' \in Nat /\ used' = used /\ used.edits \in Nat
      /\ commands \in Nat /\ MaxEdits \in Nat
  BY CommandUids, TypeConfigsAssumption, CommandsAssumption DEF CommandsTypeOK, TypeOK
<1>2. UidsStay
  BY <1>1, CommandUids, UidsKept
<1>3. CASE UNCHANGED vars
  <2>1. Change(NamespaceType, api[NamespaceType])
    BY DEF Change
  <2>2. NamespaceType \in Types /\ api' = [api EXCEPT ![NamespaceType] = api[NamespaceType]]
    BY <1>0, <1>3, TypeConfigsAssumption DEF TypeOK, vars
  <2>3. Changes(NamespaceType, api[NamespaceType])
    BY <1>3, <2>1, <2>2 DEF Changes, vars
  <2>4. api[NamespaceType].uid \in Nat /\ KnownUid(api[NamespaceType].uid)
    BY <1>0, <2>2 DEF RestInv, Trails, TypeOK, TypeConfig
  <2>5. api[NamespaceType] = api'[NamespaceType]
    BY <1>3 DEF vars
  <2> DEFINE o == api[NamespaceType]
  <2>6. KnownUid(o.uid)'
    BY <1>2, <2>4, <2>5 DEF UidsStay, KnownUid
  <2> QED BY <1>0, <1>2, <2>2, <2>3, <2>4, <2>5, <2>6, ChangeRest DEF KnownUid
<1>4. ASSUME commands' = commands, ~At("enable", "crd")', ~At("enable", "config")',
             NEW o, Changes(t, o), o.uid \in {0, api[t].uid, commands + MaxEdits + 2}
      PROVE  RestInv'
  <2>1. KnownUid(o.uid)'
    <3>1. CASE o.uid = 0
      BY <1>1, <3>1, NoneKnown
    <3>2. CASE o.uid = api[t].uid
      BY <1>0, <1>2, <3>2 DEF Trails, UidsStay, KnownUid
    <3>3. CASE o.uid = commands + MaxEdits + 2
      BY <1>4, <3>3 DEF KnownUid, At
    <3> QED BY <1>4, <3>1, <3>2, <3>3
  <2> HIDE DEF t
  <2> QED BY <1>0, <1>2, <1>4, <2>1, ChangeRest
<1> QED BY <1>3, <1>4, CommandChange

LEMMA RestInit == CommandsInit => RestInv
<1> SUFFICES ASSUME CommandsInit PROVE RestInv
  OBVIOUS
<1>1. CommandsTypeOK /\ NamespaceType \in Types
  BY TypesInit, TypeConfigsAssumption
<1>2. used.edits \in Nat /\ commands \in Nat /\ MaxEdits \in Nat
  BY <1>1, TypeConfigsAssumption, CommandsAssumption DEF CommandsTypeOK, TypeOK
<1>3. KnownUid(0) /\ KnownUid(1)
  BY <1>2 DEF KnownUid
<1>4. CASE Init
  <2>1. PICK e \in BOOLEAN : \A t \in Types : api[t] \in {Created(1, e), Absent}
    BY <1>4 DEF Init
  <2>2. /\ Created(1, e).uid = 1 /\ Created(1, e).gen = 1 /\ Created(1, e).observed = 0
        /\ ~Created(1, e).finalizer
    BY DEF Created, Absent
  <2>3. \A t \in Types : store[t] = Absent /\ sync[t] = NotRunning
    BY <1>4 DEF Init
  <2>4. ASSUME NEW t \in Types PROVE Trails(t)
    <3>1. CASE api[t] = Created(1, e)
      BY <1>3, <2>2, <2>3, <3>1, AbsentIs DEF Trails, Exists
    <3>2. CASE api[t] = Absent
      BY <1>3, <2>3, <3>2, AbsentIs DEF Trails, Exists
    <3> QED BY <2>1, <3>1, <3>2
  <2>5. \A t \in Types : RunsObserved(t) /\ Handled(t)
    BY <2>3, AbsentIs DEF RunsObserved, Handled
  <2>6. NamespacesTrail
    BY <1>1, <2>1, <2>2, AbsentIs DEF NamespacesTrail
  <2> QED BY <2>4, <2>5, <2>6 DEF RestInv
<1>5. CASE SteadyInit
  <2>1. PICK some \in {Edited, {NamespaceType}}, e \in BOOLEAN :
          /\ api = [t \in Types |-> IF t \in some THEN Steady(t, e) ELSE Absent]
          /\ status = {t \in some \cap StatusTypes : api[t].finalizer}
          /\ sync = [t \in Types |-> IF t \notin some \/ ~e THEN NotRunning
                                    ELSE IF api[t].finalizer THEN Config(api[t]) ELSE Holder]
    BY <1>5 DEF SteadyInit
  <2>2. store = api
    BY <1>5 DEF SteadyInit
  <2>3. ASSUME NEW t \in Types
        PROVE  LET o == Steady(t, e)
               IN  /\ o.uid = 1 /\ o.gen = 1 /\ o.observed = 1 /\ o.enabled = e /\ ~o.deleting
                   /\ ~(e /\ limited /\ ClusterScoped(t)) =>
                        o.finalizer /\ o.reported = e /\ o.collected = (t \in StatusTypes)
    <3>1. LET o == [Created(1, e) EXCEPT !.observed = 1]
          IN  /\ o.uid = 1 /\ o.gen = 1 /\ o.observed = 1 /\ o.enabled = e /\ ~o.deleting
              /\ \A b : LET p == [o EXCEPT !.finalizer = TRUE, !.reported = e, !.collected = b]
                        IN  /\ p.uid = 1 /\ p.gen = 1 /\ p.observed = 1 /\ p.enabled = e /\ ~p.deleting
                            /\ p.finalizer /\ p.reported = e /\ p.collected = b
      BY DEF Created, Absent
    <3> QED BY <3>1 DEF Steady
  <2>4. ASSUME NEW t \in Types PROVE Trails(t) /\ RunsObserved(t) /\ Handled(t)
    <3>1. CASE t \in some
      <4> DEFINE o == Steady(t, e)
      <4>1. /\ o.uid = 1 /\ o.gen = 1 /\ o.observed = 1 /\ o.enabled = e /\ ~o.deleting
            /\ ~(e /\ limited /\ ClusterScoped(t)) =>
                 o.finalizer /\ o.reported = e /\ o.collected = (t \in StatusTypes)
        BY <2>3
      <4>2. api[t] = o /\ store[t] = o
        BY <2>1, <2>2, <3>1
      <4>3. /\ t \in status <=> t \in StatusTypes /\ o.finalizer
            /\ sync[t] = IF ~e THEN NotRunning ELSE IF o.finalizer THEN Config(o) ELSE Holder
        BY <2>1, <3>1, <4>2
      <4> HIDE DEF o
      <4>4. Trails(t)
        BY <1>3, <4>1, <4>2 DEF Trails, Exists
      <4>5. RunsObserved(t)
        BY <4>1, <4>2, <4>3 DEF RunsObserved
      <4>6. Handled(t)
        BY <4>1, <4>2, <4>3 DEF Handled, OutOfScope
      <4> QED BY <4>4, <4>5, <4>6
    <3>2. CASE t \notin some
      <4>1. api[t] = Absent /\ store[t] = Absent
        BY <2>1, <2>2, <3>2
      <4> QED BY <1>3, <4>1, AbsentIs DEF Trails, RunsObserved, Handled
    <3> QED BY <3>1, <3>2
  <2>5. NamespacesTrail
    <3>1. Trails(NamespaceType)
      BY <1>1, <2>4
    <3> QED BY <2>2, <3>1, AbsentIs DEF Trails, NamespacesTrail
  <2> QED BY <2>4, <2>5 DEF RestInv
<1> QED BY <1>4, <1>5 DEF CommandsInit

LEMMA RestStep ==
  ASSUME ControllerInv, CommandsTypeOK, RestInv, [CommandsNext]_allVars
  PROVE  RestInv'
<1>1. ControllerInv' /\ CommandsTypeOK'
  BY CommandsStep
<1>2. CASE Next /\ UNCHANGED cmdVars
  BY <1>1, <1>2, ControllerRest DEF ControllerInv
<1>3. CASE Commands
  BY <1>1, <1>3, CommandRest
<1>4. CASE UNCHANGED allVars
  <2>1. /\ limited' = limited /\ api' = api /\ store' = store /\ pending' = pending /\ sync' = sync
        /\ status' = status /\ used' = used /\ commands' = commands /\ cmd' = cmd
    BY <1>4 DEF allVars, vars, ctlVars, cmdVars
  <2>2. ASSUME NEW t \in Types PROVE Trails(t)' /\ RunsObserved(t)' /\ Handled(t)'
    <3>1. Trails(t) /\ RunsObserved(t) /\ Handled(t)
      BY DEF RestInv
    <3> QED BY <2>1, <3>1 DEF Trails, KnownUid, At, RunsObserved, Handled, Rests, OutOfScope,
                              Exists, Config, ClusterScoped
  <2>3. NamespacesTrail'
    BY <2>1 DEF RestInv, NamespacesTrail, Exists
  <2> QED BY <2>2, <2>3 DEF RestInv
<1> QED BY <1>2, <1>3, <1>4 DEF CommandsNext, Commands

\* A type is at rest when the cache has its configuration and the worker nothing to do for
\* it (reconcile in federatedtypeconfig/controller.go).  It then has the sync controller its
\* configuration wants, started with the generation it has, or none, and its status tells
\* so; no deletion is left undone.  This is the safety half of Converges, StatusSettles and
\* DeletionEnds, for any number of types, edits, faults and commands.
THEOREM AtRestConverged == CommandsSpec => []ConvergedAtRest
<1> DEFINE I == ControllerInv /\ CommandsTypeOK /\ RestInv
<1>1. CommandsInit => I
  BY ControllerInit, TypesInit, RestInit
<1>2. I /\ [CommandsNext]_allVars => I'
  BY CommandsStep, RestStep
<1>3. I => ConvergedAtRest
  <2> SUFFICES ASSUME I, NEW t \in Types, Rests(t), t \in NamespacedTypes => Rests(NamespaceType)
               PROVE  Converged(t) /\ Told(t) /\ (api[t].deleting => limited /\ ClusterScoped(t))
    BY DEF ConvergedAtRest
  <2>1. store[t] = api[t] /\ Handled(t) /\ Trails(t)
    BY DEF Rests, RestInv
  <2>2. ASSUME Propagated(t), ~Forgotten(t)
        PROVE  /\ sync[t] = Config(api[t])
               /\ api[t].observed = api[t].gen /\ api[t].reported /\ (t \in status <=> api[t].collected)
    <3>1. Exists(api[t]) /\ api[t].enabled /\ ~OutOfScope(t)
      BY <2>1, <2>2 DEF Propagated, Wanted, OutOfScope
    <3>2. /\ api[t].observed = api[t].gen /\ (t \in status <=> api[t].collected)
          /\ \/ sync[t] = Config(api[t]) /\ api[t].reported
             \/ /\ t \in NamespacedTypes /\ ~api[NamespaceType].finalizer
                /\ sync[t] = NotRunning /\ ~api[t].reported
      BY <2>1, <3>1 DEF Handled
    <3>3. ASSUME t \in NamespacedTypes, ~api[NamespaceType].finalizer, sync[t] = NotRunning,
                 ~api[t].reported
          PROVE  FALSE
      <4>1. ~limited
        BY <2>2, <3>2, <3>3 DEF Forgotten
      <4>2. Rests(NamespaceType) /\ Handled(NamespaceType) /\ ~OutOfScope(NamespaceType)
        BY <3>3, <4>1, TypeConfigsAssumption DEF RestInv, OutOfScope
      <4>3. Exists(store[NamespaceType]) /\ store[NamespaceType] = api[NamespaceType]
        BY <2>2, <3>3, <4>2 DEF Propagated, Rests
      <4> QED BY <3>3, <4>2, <4>3 DEF Handled
    <3> QED BY <3>2, <3>3
  <2>3. ASSUME ~api[t].enabled PROVE ~Syncs(t)
    <3>1. CASE Exists(api[t])
      <4>1. ~OutOfScope(t)
        BY <2>1, <2>3 DEF OutOfScope
      <4> QED BY <2>1, <2>3, <3>1, <4>1 DEF Handled, Syncs
    <3>2. CASE ~Exists(api[t])
      BY <3>2 DEF ControllerInv, NoOrphanController
    <3> QED BY <3>1, <3>2
  <2>4. ASSUME api[t].deleting PROVE limited /\ ClusterScoped(t)
    <3>1. Exists(api[t])
      BY <2>1, <2>4, AbsentIs DEF Trails
    <3> QED BY <2>1, <2>4, <3>1 DEF Handled, OutOfScope
  <2> QED BY <2>2, <2>3, <2>4 DEF Converged, Told
<1> QED
  BY <1>1, <1>2, <1>3, PTL DEF CommandsSpec
=============================================================================
