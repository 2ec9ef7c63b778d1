----------------------------- MODULE TypeConfigs -----------------------------
(***************************************************************************)
(* The FederatedTypeConfig controller (pkg/controller/federatedtypeconfig): *)
(* for each type it starts, stops and refreshes a sync controller and, for  *)
(* services, a status controller, and reports what runs in the status of    *)
(* the FederatedTypeConfig.  A namespaced type needs the FederatedType-     *)
(* Config of namespaces.                                                    *)
(*                                                                         *)
(* The worker is its abstraction, KeyQueue: a set of pending types, from    *)
(* which a failed reconciliation is not removed.  An object written by the  *)
(* controller must be the one in the API: an optimistic lock is a           *)
(* comparison of the cached object with the stored one.                     *)
(***************************************************************************)
EXTENDS Naturals, FiniteSets

CONSTANTS
  Types,             \* the names of FederatedTypeConfigs
  NamespaceType,     \* the one of namespaces
  NamespacedTypes,   \* those whose target is namespaced
  StatusTypes,       \* those GetStatusEnabled accepts: services
  Edited,            \* bound: those that users write themselves
  MaxEdits,          \* bound: creations, edits and deletions by users
  MaxFaults          \* bound: starts and writes that fail, restarts of the manager

ASSUME TypeConfigsAssumption ==
  /\ NamespaceType \in Types
  /\ NamespacedTypes \subseteq Types \ {NamespaceType} /\ StatusTypes \subseteq Types
  /\ Edited \subseteq Types
  /\ {MaxEdits, MaxFaults} \subseteq Nat

VARIABLES
  limited,   \* the control plane is limited to one namespace
  api,       \* the FederatedTypeConfigs
  store,     \* the informer's cache of them
  pending,   \* the types the worker has still to reconcile
  sync,      \* stopChannels: the configuration each sync controller runs with
  status,    \* stopChannels: the types whose status controller runs
  used       \* how much of each bound has been spent

ctlVars == <<store, pending, sync, status>>
vars == <<limited, api, ctlVars, used>>

\* uid 0: there is none.  reported and collected are the status of the controllers.
TypeConfig == [uid : Nat, gen : Nat, enabled : BOOLEAN, collect : BOOLEAN, deleting : BOOLEAN,
               finalizer : BOOLEAN, observed : Nat, reported : BOOLEAN, collected : BOOLEAN]
Absent == [uid |-> 0, gen |-> 0, enabled |-> FALSE, collect |-> FALSE, deleting |-> FALSE,
           finalizer |-> FALSE, observed |-> 0, reported |-> FALSE, collected |-> FALSE]
Exists(o) == o.uid # 0

Created(uid, e) ==
  [Absent EXCEPT !.uid = uid, !.gen = 1, !.enabled = e, !.collect = TRUE]

\* What a sync controller was started with; a holder channel stands for none.
NotRunning == [uid |-> 0, gen |-> 0]
Holder == [uid |-> 0, gen |-> 1]
Config(o) == [uid |-> o.uid, gen |-> o.gen]
Syncs(t) == sync[t] \notin {NotRunning, Holder}

TypeOK ==
  /\ limited \in BOOLEAN
  /\ api \in [Types -> TypeConfig] /\ store \in [Types -> TypeConfig]
  /\ pending \subseteq Types /\ status \subseteq StatusTypes
  /\ sync \in [Types -> [uid : Nat, gen : Nat]]
  /\ used \in [edits : 0 .. MaxEdits, faults : 0 .. MaxFaults]

\* Some types were enabled, with propagation or without, before the manager starts.
Init ==
  /\ limited \in BOOLEAN
  /\ \E some \in SUBSET Edited, e \in BOOLEAN :
       api = [t \in Types |-> IF t \in some THEN Created(1, e) ELSE Absent]
  /\ store = [t \in Types |-> Absent]
  /\ pending = {}
  /\ sync = [t \in Types |-> NotRunning]
  /\ status = {}
  /\ used = [edits |-> 0, faults |-> 0]
-----------------------------------------------------------------------------
(* Users and the API server                                                *)

Edit(t, o) ==
  /\ used.edits < MaxEdits
  /\ used' = [used EXCEPT !.edits = @ + 1]
  /\ api' = [api EXCEPT ![t] = o]
  /\ UNCHANGED <<limited, ctlVars>>

UserCreates(t) ==
  /\ t \in Edited /\ ~Exists(api[t])
  /\ \E e \in BOOLEAN : Edit(t, Created(used.edits + 2, e))

\* Propagation, status collection or something else in the spec is changed.
UserEdits(t) ==
  /\ Exists(api[t])
  /\ \E e \in BOOLEAN, c \in (IF t \in StatusTypes THEN BOOLEAN ELSE {TRUE}) :
       Edit(t, [api[t] EXCEPT !.gen = @ + 1, !.enabled = e, !.collect = c])

UserDeletes(t) ==
  /\ Exists(api[t]) /\ ~api[t].deleting
  /\ Edit(t, IF api[t].finalizer THEN [api[t] EXCEPT !.deleting = TRUE, !.gen = @ + 1]
                                 ELSE Absent)

\* The informer of the controller: EnqueueObject after each change.
Informed(t) ==
  /\ store[t] # api[t]
  /\ store' = [store EXCEPT ![t] = api[t]]
  /\ pending' = pending \cup {t}
  /\ UNCHANGED <<limited, api, sync, status, used>>
-----------------------------------------------------------------------------
(* reconcile                                                               *)

ClusterScoped(t) == t \notin NamespacedTypes
namespaceFTCExists == Exists(store[NamespaceType])
reconcileOnNamespaceFTCUpdate == {t \in NamespacedTypes : Exists(store[t])}

\* What may fail in one reconciliation; everything but "nothing" is charged.
Charge(f) ==
  /\ f # "nothing" => used.faults < MaxFaults
  /\ used' = [used EXCEPT !.faults = IF f = "nothing" THEN @ ELSE @ + 1]

\* The cached object is gone: there is nothing to do.
reconcileAbsent(t) ==
  /\ ~Exists(store[t])
  /\ pending' = pending \ {t}
  /\ UNCHANGED <<limited, api, store, sync, status, used>>

OutOfScope(t) == limited /\ store[t].enabled /\ ClusterScoped(t)

Current(t, f) == store[t] = api[t] /\ f # "write"

\* A namespaced control plane does not propagate cluster-scoped types: a channel
\* that belongs to no controller is kept, and the status says so.
reconcileOutOfScope(t) ==
  /\ Exists(store[t]) /\ OutOfScope(t)
  /\ \E f \in {"nothing", "write"} :
       /\ Charge(f)
       /\ sync' = [sync EXCEPT ![t] = IF @ = NotRunning THEN Holder ELSE @]
       /\ IF Current(t, f)
          THEN /\ api' = [api EXCEPT ![t].observed = store[t].gen, ![t].reported = FALSE,
                                     ![t].collected = FALSE]
               /\ pending' = pending \ {t}
          ELSE UNCHANGED <<api, pending>>
  /\ UNCHANGED <<limited, store, status>>

\* mutant: the finalizer is removed and the sync controller forgotten
reconcileDeletedRunning(t) ==
  /\ Exists(store[t]) /\ ~OutOfScope(t) /\ store[t].deleting
  /\ api' = [api EXCEPT ![t] = IF store[t] = api[t] THEN Absent ELSE @]
  /\ pending' = IF store[t] = api[t] THEN pending \ {t} ELSE pending
  /\ status' = status \ {t}
  /\ UNCHANGED <<limited, store, sync, used>>
\* mutant: a finalizer that could not be removed is not tried again
reconcileDeletedOnce(t) ==
  /\ Exists(store[t]) /\ ~OutOfScope(t) /\ store[t].deleting
  /\ sync' = [sync EXCEPT ![t] = NotRunning]
  /\ status' = status \ {t}
  /\ \E f \in {"nothing", "write"} :
       /\ Charge(f)
       /\ api' = [api EXCEPT ![t] = IF Current(t, f) THEN Absent ELSE @]
       /\ pending' = pending \ {t}
  /\ UNCHANGED <<limited, store>>
\* Both controllers are stopped, the namespaced types enqueued, and the finalizer
\* is removed, with which the object goes.
reconcileDeleted(t) ==
  /\ Exists(store[t]) /\ ~OutOfScope(t) /\ store[t].deleting
  /\ sync' = [sync EXCEPT ![t] = NotRunning]
  /\ status' = status \ {t}
  /\ \E f \in {"nothing", "write"} :
       /\ Charge(f)
       /\ api' = [api EXCEPT ![t] = IF Current(t, f) THEN Absent ELSE @]
       /\ pending' = (IF Current(t, f) THEN pending \ {t} ELSE pending)
                       \cup (IF t = NamespaceType THEN reconcileOnNamespaceFTCUpdate ELSE {})
  /\ UNCHANGED <<limited, store>>

startSyncController(t) == t \in NamespacedTypes => namespaceFTCExists
StartNewSync(t) == sync[t] = NotRunning /\ store[t].enabled
StopSync(t) == /\ sync[t] # NotRunning
               /\ ~store[t].enabled \/ (t \in NamespacedTypes /\ ~namespaceFTCExists)
\* mutant: a changed spec is not brought to the sync controller that runs
RefreshNothing(t) == FALSE
RefreshSync(t) ==
  /\ ~StartNewSync(t) /\ ~StopSync(t)
  /\ store[t].observed # store[t].gen
StatusEnabled(t) == t \in StatusTypes /\ store[t].collect

\* The sync controller after the first two decisions, then after the refresh.
SyncAfter(t) ==
  IF StartNewSync(t) THEN Config(store[t]) ELSE IF StopSync(t) THEN NotRunning ELSE sync[t]
Refreshed(t, ok) == IF ok THEN Config(store[t]) ELSE NotRunning

Fails(t) ==
  {"nothing", "write"} \cup (IF store[t].finalizer THEN {} ELSE {"finalizer"})
    \cup (IF StartNewSync(t) THEN {"sync"} ELSE {}) \cup (IF RefreshSync(t) THEN {"refresh"} ELSE {})
    \cup (IF StatusEnabled(t) /\ t \notin status THEN {"status"} ELSE {})

ensureFinalizer(t) == [store[t] EXCEPT !.finalizer = TRUE]

\* mutant: the generation that was reconciled is not recorded
WithStatusUnobserved(t, o) ==
  [o EXCEPT !.reported = StartNewSync(t) \/ (sync[t] # NotRunning /\ ~StopSync(t)),
            !.collected = StatusEnabled(t)]
\* The status that is written says what the decisions were, not what the refresh did.
WithStatus(t, o) ==
  [o EXCEPT !.observed = o.gen,
            !.reported = StartNewSync(t) \/ (sync[t] # NotRunning /\ ~StopSync(t)),
            !.collected = StatusEnabled(t)]

\* A configuration that is not being deleted.  Each of the writes and starts may
\* fail, and what came before it stays done.
reconcilePresent(t) ==
  /\ Exists(store[t]) /\ ~OutOfScope(t) /\ ~store[t].deleting
  /\ \E f \in Fails(t) :
       LET adds == ~store[t].finalizer
           finalized == adds => store[t] = api[t] /\ f # "finalizer"
           started == finalized /\ (StartNewSync(t) => startSyncController(t) /\ f # "sync")
           collected == started /\ (StatusEnabled(t) /\ t \notin status => f # "status")
           refreshed == collected /\ (RefreshSync(t) => startSyncController(t) /\ f # "refresh")
           done == refreshed /\ Current(t, f)
       IN  /\ Charge(f)
           /\ sync' = [sync EXCEPT ![t] =
                CASE ~started -> @
                  [] collected /\ RefreshSync(t) -> Refreshed(t, refreshed)
                  [] OTHER -> SyncAfter(t)]
           /\ status' = CASE started /\ ~StatusEnabled(t) -> status \ {t}
                          [] collected /\ StatusEnabled(t) -> status \cup {t}
                          [] OTHER -> status
           /\ api' = [api EXCEPT ![t] =
                IF done THEN WithStatus(t, ensureFinalizer(t))
                ELSE IF finalized /\ adds THEN ensureFinalizer(t) ELSE @]
           /\ pending' = (IF done THEN pending \ {t} ELSE pending)
                \cup (IF finalized /\ adds /\ t = NamespaceType
                      THEN reconcileOnNamespaceFTCUpdate ELSE {})
  /\ UNCHANGED <<limited, store>>

reconcile(t) ==
  /\ t \in pending
  /\ \/ reconcileAbsent(t)
     \/ reconcileOutOfScope(t)
     \/ reconcileDeleted(t)
     \/ reconcilePresent(t)

\* The controller manager ends and another one leads: the channels are gone with
\* it, the informer lists, and Run starts the worker when it has.
Restart ==
  /\ used.faults < MaxFaults
  /\ used' = [used EXCEPT !.faults = @ + 1]
  /\ store' = api
  /\ pending' = {t \in Types : Exists(api[t])}
  /\ sync' = [t \in Types |-> NotRunning]
  /\ status' = {}
  /\ UNCHANGED <<limited, api>>
-----------------------------------------------------------------------------
Next ==
  \/ \E t \in Types :
       \/ UserCreates(t)
       \/ UserEdits(t)
       \/ UserDeletes(t)
       \/ Informed(t)
       \/ reconcile(t)
  \/ Restart

Spec == Init /\ [][Next]_vars

\* The informer delivers and the worker reconciles what is pending; users, faults
\* and restarts are not obliged to happen and are bounded.
Fairness == \A t \in Types : WF_vars(Informed(t)) /\ WF_vars(reconcile(t))

FairSpec == Spec /\ Fairness
-----------------------------------------------------------------------------
(* Properties                                                              *)

\* The finalizer holds a FederatedTypeConfig back until its controllers are
\* stopped: no sync or status controller outlives the configuration it serves,
\* whatever cache the reconciliation was based on.
NoOrphanController ==
  \A t \in Types : Syncs(t) \/ t \in status => Exists(api[t]) /\ api[t].finalizer

\* What should run for a type: nothing in a namespaced control plane for a
\* cluster-scoped type, and a namespaced type needs namespaces.
Wanted(o) == Exists(o) /\ o.enabled /\ ~o.deleting
Propagated(t) ==
  /\ Wanted(api[t])
  /\ ~(limited /\ ClusterScoped(t))
  /\ t \in NamespacedTypes => Exists(api[NamespaceType])

\* A namespaced type that was stopped for the lack of namespaces, when its status said so
\* already, waits to be told of them.  That is done when they get their finalizer, which
\* they do not in a namespaced control plane (federatedtypeconfig/controller.go:154, 204).
Forgotten(t) ==
  /\ limited /\ t \in NamespacedTypes /\ ~api[NamespaceType].finalizer
  /\ sync[t] = NotRunning /\ api[t].observed = api[t].gen /\ ~api[t].reported

Converged(t) ==
  /\ Propagated(t) /\ ~Forgotten(t) => sync[t] = Config(api[t])
  /\ ~api[t].enabled => ~Syncs(t)

\* When the configurations stay as they are, every type that is enabled has a
\* sync controller that was started with the configuration as it is, and every
\* type that is disabled or deleted has none, although edits, failed starts and
\* writes, stale caches and restarts come in any order.
Converges == <>[](\A t \in Types : Converged(t))

Told(t) ==
  Propagated(t) /\ ~Forgotten(t) =>
    api[t].observed = api[t].gen /\ api[t].reported /\ (t \in status <=> api[t].collected)

\* The status of a type tells in the end what the decisions came to.
StatusSettles == <>[](\A t \in Types : Told(t))

\* A deletion ends: the finalizer is removed, but for the types a namespaced
\* control plane leaves aside before it looks at the deletion.
DeletionEnds ==
  \A t \in Types : api[t].deleting ~> ~api[t].deleting \/ (limited /\ ClusterScoped(t))
=============================================================================
