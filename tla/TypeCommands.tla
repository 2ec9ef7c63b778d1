---------------------------- MODULE TypeCommands ----------------------------
(***************************************************************************)
(* kubefedctl enable and disable (pkg/kubefedctl/enable/enable.go and       *)
(* disable.go) beside the FederatedTypeConfig controller.  Both write the   *)
(* FederatedTypeConfig of a type and the CRD of its federated type, and     *)
(* disable waits for what the controller reports.  A command may be         *)
(* interrupted at any call and another one given then; one runs at a time.  *)
(* A dry run ends before its first write and is left out.                   *)
(***************************************************************************)
EXTENDS TypeConfigs

CONSTANTS
  CRD,           \* the CRD of the federated type of a type; equivalent types share one
  MaxCommands    \* bound: commands given

\* The API server would let users write two equivalent types themselves.
ASSUME CommandsAssumption ==
  /\ \A t, u \in Edited : CRD[t] = CRD[u] => t = u
  /\ MaxCommands \in Nat

VARIABLES
  crds,          \* the CRDs that exist
  instances,     \* those with federated resources
  cmd,           \* the last command
  commands,      \* how many more are given
  dropped        \* history: the CRDs that were deleted

cmdVars == <<crds, instances, cmd, commands, dropped>>
allVars == <<vars, cmdVars>>

NoCommand == [op |-> "none", type |-> NamespaceType, deleteCRD |-> FALSE, step |-> "ended",
              ok |-> TRUE, read |-> Absent]

CommandsTypeOK ==
  /\ TypeOK
  /\ crds \subseteq {CRD[t] : t \in Types} /\ instances \subseteq {CRD[t] : t \in Types}
  /\ dropped \subseteq {CRD[t] : t \in Types}
  /\ cmd \in [op : {"none", "enable", "disable"}, type : Types, deleteCRD : BOOLEAN,
              step : {"get", "propagation", "verify", "crd", "config", "ended"},
              ok : BOOLEAN, read : TypeConfig]
  /\ commands \in 0 .. MaxCommands

Equivalent(t) == {u \in Types \ {t} : CRD[u] = CRD[t]}

\* Where the controller has come to rest with a type, enabled or disabled before.
Steady(t, e) ==
  LET o == [Created(1, e) EXCEPT !.observed = 1]
  IN  IF e /\ limited /\ ClusterScoped(t) THEN o
      ELSE [o EXCEPT !.finalizer = TRUE, !.reported = e, !.collected = t \in StatusTypes]

SteadyInit ==
  /\ limited \in BOOLEAN
  /\ \E some \in {Edited, {NamespaceType}}, e \in BOOLEAN :
       /\ api = [t \in Types |-> IF t \in some THEN Steady(t, e) ELSE Absent]
       /\ status = {t \in some \cap StatusTypes : api[t].finalizer}
       /\ sync = [t \in Types |-> IF t \notin some \/ ~e THEN NotRunning
                                 ELSE IF api[t].finalizer THEN Config(api[t]) ELSE Holder]
  /\ store = api
  /\ pending = {}
  /\ used = [edits |-> MaxEdits, faults |-> MaxFaults]

\* Users either edit FederatedTypeConfigs themselves or give commands, which may fail.
CommandsInit ==
  /\ \/ Init /\ commands = 0
     \/ SteadyInit /\ commands = MaxCommands
  /\ crds = {CRD[t] : t \in {u \in Types : Exists(api[u])}}
  /\ instances \in IF commands = 0 THEN {{}} ELSE {{}, crds}
  /\ cmd = NoCommand
  /\ dropped = {}
-----------------------------------------------------------------------------
Ends(ok) == cmd' = [cmd EXCEPT !.step = "ended", !.ok = ok, !.read = Absent]
Goes(step) == cmd' = [cmd EXCEPT !.step = step]
At(op, step) == cmd.op = op /\ cmd.step = step

Give(op, t, d) ==
  /\ cmd.step = "ended" /\ commands > 0
  /\ commands' = commands - 1
  /\ cmd' = [op |-> op, type |-> t, deleteCRD |-> d, step |-> IF op = "enable" THEN "crd" ELSE "get",
             ok |-> FALSE, read |-> Absent]
  /\ UNCHANGED <<vars, crds, instances, dropped>>

Enable(t) == Give("enable", t, FALSE)
Disable(t) == \E d \in BOOLEAN : Give("disable", t, d)

\* A call fails, the controller is not seen to stop in time, or the command is killed.
Interrupted ==
  /\ cmd.step # "ended"
  /\ Ends(FALSE)
  /\ UNCHANGED <<vars, crds, instances, commands, dropped>>
-----------------------------------------------------------------------------
(* enable: CreateResources                                                 *)

\* mutant: a CRD that exists is taken without a look at the types it serves
CreateCRDUnchecked(t) ==
  /\ Goes("config")
  /\ crds' = crds \cup {CRD[t]}
\* An existing CRD is updated, unless it serves, or an equivalent API belongs to, the
\* FederatedTypeConfig of another type.  Without the CRD these are not looked at.
CreateCRD(t) ==
  IF CRD[t] \in crds /\ \E u \in Equivalent(t) : Exists(api[u])
  THEN Ends(FALSE) /\ UNCHANGED crds
  ELSE Goes("config") /\ crds' = crds \cup {CRD[t]}

\* The FederatedTypeConfig is created, or gets the generated spec, even while it is
\* being deleted.  The generated spec does not ask for the collection of status.
Generated(t) ==
  IF ~Exists(api[t]) THEN [Created(commands + MaxEdits + 2, TRUE) EXCEPT !.collect = FALSE]
  ELSE IF api[t].enabled /\ ~api[t].collect THEN api[t]
  ELSE [api[t] EXCEPT !.enabled = TRUE, !.collect = FALSE, !.gen = @ + 1]

CreateResources ==
  \/ /\ At("enable", "crd")
     /\ CreateCRD(cmd.type)
     /\ UNCHANGED <<vars, instances, commands, dropped>>
  \/ /\ At("enable", "config")
     /\ api' = [api EXCEPT ![cmd.type] = Generated(cmd.type)]
     /\ Ends(TRUE)
     /\ UNCHANGED <<limited, ctlVars, used, crds, instances, commands, dropped>>
-----------------------------------------------------------------------------
(* disable: DisableFederation                                              *)

\* checkFederatedTypeCustomResourcesExist, before anything else and again before the
\* CRD is deleted.
Occupied(t) == CRD[t] \in instances

checkFederatedTypeConfigExists(t) ==
  /\ At("disable", "get")
  /\ IF Exists(api[t])
     THEN IF cmd.deleteCRD /\ Occupied(t) THEN Ends(FALSE)
          ELSE cmd' = [cmd EXCEPT !.step = "propagation", !.read = api[t]]
     ELSE IF cmd.deleteCRD THEN Goes("crd") ELSE Ends(TRUE)
  /\ UNCHANGED <<vars, crds, instances, commands, dropped>>

\* mutant: propagation is left as it is
disablePropagationNot(t) ==
  /\ At("disable", "propagation")
  /\ Goes(IF cmd.deleteCRD THEN "crd" ELSE "config")
  /\ UNCHANGED <<vars, crds, instances, commands, dropped>>
\* The update must find the object as it was read.
disablePropagation(t) ==
  /\ At("disable", "propagation")
  /\ IF ~cmd.read.enabled THEN Goes("verify") /\ UNCHANGED api
     ELSE IF api[t] # cmd.read THEN Ends(FALSE) /\ UNCHANGED api
     ELSE Goes("verify") /\ api' = [api EXCEPT ![t].enabled = FALSE, ![t].gen = @ + 1]
  /\ UNCHANGED <<limited, ctlVars, used, crds, instances, commands, dropped>>

\* The status need not be that of the configuration as it is now.
verifyPropagationControllerStopped(t) ==
  /\ At("disable", "verify")
  /\ Exists(api[t]) /\ api[t].observed # 0 /\ ~api[t].reported
  /\ Goes(IF cmd.deleteCRD THEN "crd" ELSE "config")
  /\ UNCHANGED <<vars, crds, instances, commands, dropped>>

deleteFederatedType(t) ==
  /\ At("disable", "crd")
  /\ IF Occupied(t) THEN Ends(FALSE) /\ UNCHANGED <<crds, dropped>>
     ELSE /\ crds' = crds \ {CRD[t]}
          /\ dropped' = dropped \cup {CRD[t]}
          /\ IF Exists(cmd.read) THEN Goes("config") ELSE Ends(TRUE)
  /\ UNCHANGED <<vars, instances, commands>>

deleteFederatedTypeConfig(t) ==
  /\ At("disable", "config")
  /\ Ends(Exists(api[t]))
  /\ api' = [api EXCEPT ![t] =
       IF ~api[t].finalizer THEN Absent
       ELSE IF api[t].deleting THEN @ ELSE [api[t] EXCEPT !.deleting = TRUE, !.gen = @ + 1]]
  /\ UNCHANGED <<limited, ctlVars, used, crds, instances, commands, dropped>>

DisableFederation ==
  \/ checkFederatedTypeConfigExists(cmd.type)
  \/ disablePropagation(cmd.type)
  \/ verifyPropagationControllerStopped(cmd.type)
  \/ deleteFederatedType(cmd.type)
  \/ deleteFederatedTypeConfig(cmd.type)
-----------------------------------------------------------------------------
CommandsNext ==
  \/ Next /\ UNCHANGED cmdVars
  \/ \E t \in Types : Enable(t) \/ Disable(t)
  \/ CreateResources
  \/ DisableFederation
  \/ Interrupted

\* Commands are not obliged to go on: one that stops was interrupted.
CommandsSpec == CommandsInit /\ [][CommandsNext]_allVars /\ Fairness
-----------------------------------------------------------------------------
(* Properties                                                              *)

\* "Only allow one of the equivalent APIs for federation to avoid the possibility of
\* multiple sync controllers fighting" (enable/deprecatedapis.go:28): of the types that
\* share a CRD only one is enabled, however many commands were interrupted, unless a
\* disable has deleted the CRD, by which enable finds the other types.
OneOfEquivalent ==
  /\ CommandsTypeOK
  /\ \A t \in Types : Wanted(api[t]) =>
       \A u \in Equivalent(t) : Wanted(api[u]) => CRD[t] \in dropped

\* A disable that succeeded has its effect in the end: the FederatedTypeConfig is gone
\* and its controllers have stopped, also where a namespaced control plane would not
\* finish the deletion of a type that is enabled, and whatever status was waited for.
DisableEnds ==
  <>[](cmd.op = "disable" /\ cmd.step = "ended" /\ cmd.ok =>
         /\ ~Exists(api[cmd.type]) /\ ~Syncs(cmd.type) /\ cmd.type \notin status
         /\ cmd.deleteCRD => CRD[cmd.type] \notin crds)
=============================================================================
