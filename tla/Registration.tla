---------------------------- MODULE Registration ----------------------------
(***************************************************************************)
(* Registering clusters: kubefedctl join and unjoin (pkg/kubefedctl/join.go *)
(* and unjoin.go).  A command is a sequence of API calls to the member and  *)
(* to the host.  It keeps no record of its own, so that whatever an         *)
(* interrupted command has left is what the next one starts from.           *)
(*                                                                         *)
(* One command runs at a time.  The kubefed namespace of the host cluster,  *)
(* which may be a member itself, holds the secrets and the KubeFedClusters. *)
(***************************************************************************)
EXTENDS Integers, Sequences, FiniteSets, SequencesExt

CONSTANTS
  Clusters, HostCluster,
  JoinOptions, UnjoinOptions,    \* the flags that users give
  Leftovers,                     \* roles and bindings that a member may begin with
  MaxCommands                    \* how many commands are given

VARIABLES
  scope,       \* of the control plane, from its KubeFedConfig
  ns,          \* the kubefed namespace of a cluster
  sa, token,   \* UID of the service account of a registration, and the one its token is for
  rbac,        \* its roles and bindings, which may be those of an earlier release
  secrets,     \* the secrets in the host
  kfc,         \* the secret a KubeFedCluster refers to
  cmd,         \* the last command and the steps it still has to do
  number,      \* of commands given
  joined       \* history: joined, and no unjoin since

member == <<ns, sa, token, rbac>>
host == <<secrets, kfc>>
vars == <<scope, member, host, cmd, number, joined>>

ASSUME RegistrationAssumption ==
  /\ HostCluster \in Clusters
  /\ JoinOptions \subseteq [errorOnExisting : BOOLEAN, named : BOOLEAN, dryRun : BOOLEAN]
  /\ UnjoinOptions \subseteq [force : BOOLEAN, dryRun : BOOLEAN, configured : BOOLEAN]
  /\ MaxCommands \in Nat

InNamespace == {"Role", "RoleBinding"}
Kinds == InNamespace \cup {"ClusterRole", "ClusterRoleBinding", "HealthRole", "HealthBinding"}
None == << >>
Names == Clusters \X (0 .. MaxCommands)    \* 0 for the name a user gives

TypeOK ==
  /\ scope \in {"Cluster", "Namespaced"}
  /\ ns \in [Clusters -> {"absent", "active", "terminating"}]
  /\ sa \in [Clusters -> 0 .. MaxCommands] /\ token \in [Clusters -> 0 .. MaxCommands]
  /\ rbac \in [Clusters -> [Kinds -> {"absent", "stale", "current"}]]
  /\ secrets \subseteq [name : Names, uid : 1 .. MaxCommands]
  /\ \A s, t \in secrets : s.name = t.name => s = t
  /\ kfc \in [Clusters -> Names \cup {None}]
  /\ cmd.op \in {"join", "unjoin", "none"} /\ cmd.cluster \in Clusters
  /\ {cmd.ok, cmd.faulted} \subseteq BOOLEAN
  /\ cmd.uid \in 0 .. MaxCommands /\ cmd.secret \in Names \cup {None}
  /\ joined \subseteq Clusters /\ number \in 0 .. MaxCommands
  /\ \A c \in Clusters : ns[c] = "absent" => sa[c] = 0 /\ \A k \in InNamespace : rbac[c][k] = "absent"

Idle == [op |-> "none", cluster |-> HostCluster, todo |-> << >>, ok |-> TRUE, faulted |-> FALSE,
         uid |-> 0, secret |-> None]

Init ==
  /\ scope \in {"Cluster", "Namespaced"}
  /\ ns = [c \in Clusters |-> IF c = HostCluster THEN "active" ELSE "absent"]
  /\ sa = [c \in Clusters |-> 0] /\ token = sa
  /\ \E l \in Leftovers :
       rbac = [c \in Clusters |->
                 LET there == IF ns[c] = "active" THEN l ELSE l \ InNamespace
                 IN  [k \in Kinds |-> IF k \in there THEN "stale" ELSE "absent"]]
  /\ secrets = {} /\ kfc = [c \in Clusters |-> None]
  /\ cmd = Idle /\ number = 0 /\ joined = {}
-----------------------------------------------------------------------------
(* The steps of a command                                                  *)

Running == cmd.todo # << >>
At(op, step) == Running /\ cmd.op = op /\ Head(cmd.todo) = step
Done == cmd' = [cmd EXCEPT !.todo = Tail(@)]
Error == cmd' = [cmd EXCEPT !.todo = << >>, !.ok = FALSE]
Rejected == cmd' = [cmd EXCEPT !.todo = << >>, !.ok = FALSE, !.faulted = TRUE]

\* An API call fails, the token does not come in time, or the command is killed.  What
\* a call that seemed to fail has done is the state after its step.
Interrupted ==
  /\ Running
  /\ Rejected
  /\ UNCHANGED <<scope, member, host, number, joined>>

\* The token controller of a member.
TokenIssued(c) ==
  /\ sa[c] # token[c]
  /\ token' = [token EXCEPT ![c] = sa[c]]
  /\ UNCHANGED <<scope, ns, sa, rbac, host, cmd, number, joined>>

\* A namespace that is being deleted goes with all that is in it.
NamespaceGone(c) ==
  /\ ns[c] = "terminating"
  /\ ns' = [ns EXCEPT ![c] = "absent"]
  /\ sa' = [sa EXCEPT ![c] = 0]
  /\ token' = [token EXCEPT ![c] = 0]
  /\ rbac' = [rbac EXCEPT ![c] = [k \in Kinds |-> IF k \in InNamespace THEN "absent" ELSE @[k]]]
  /\ IF c = HostCluster
     THEN secrets' = {} /\ kfc' = [d \in Clusters |-> None]
     ELSE UNCHANGED host
  /\ UNCHANGED <<scope, cmd, number, joined>>
-----------------------------------------------------------------------------
(* join                                                                    *)

\* createAuthorizedServiceAccount
Authorize ==
  <<"ServiceAccount">> \o IF scope = "Namespaced"
                          THEN <<"Role", "RoleBinding", "HealthRole", "HealthBinding">>
                          ELSE <<"ClusterRole", "ClusterRoleBinding">>

\* joinClusterForNamespace
JoinSteps == <<"preflight", "namespace">> \o Authorize \o <<"token", "secret", "KubeFedCluster">>

Give(op, c, options, steps) ==
  /\ ~Running /\ number < MaxCommands
  /\ number' = number + 1
  /\ cmd' = [op |-> op, cluster |-> c, options |-> options, todo |-> steps, ok |-> TRUE,
             faulted |-> FALSE, uid |-> 0, secret |-> None]
  /\ UNCHANGED <<scope, member, host>>

Join(c) ==
  \E o \in JoinOptions :
    /\ Give("join", c, o, JoinSteps)
    /\ UNCHANGED joined

\* An object that must not exist is an error unless errorOnExisting is off.
Existing(exists, do) == IF exists /\ cmd.options.errorOnExisting THEN Error ELSE do

performPreflightChecks(c) ==
  /\ At("join", "preflight")
  /\ Existing(sa[c] # 0, Done)
  /\ UNCHANGED <<scope, member, host, number, joined>>

\* With dryRun all that follows returns at once.
DryRun(op) ==
  /\ Running /\ cmd.op = op /\ cmd.options.dryRun /\ Head(cmd.todo) # "preflight"
  /\ Done
  /\ UNCHANGED <<scope, member, host, number, joined>>

Writes(op, step) == At(op, step) /\ ~cmd.options.dryRun

\* A namespace that is there is taken, even when it is being deleted.
createKubeFedNamespace(c) ==
  /\ Writes("join", "namespace")
  /\ Done
  /\ ns' = [ns EXCEPT ![c] = IF @ = "absent" THEN "active" ELSE @]
  /\ UNCHANGED <<scope, sa, token, rbac, host, number, joined>>

\* mutant: an account that exists is taken without asking the API server to create it
createServiceAccountKnown(c) ==
  /\ Writes("join", "ServiceAccount")
  /\ \/ sa[c] # 0 /\ Existing(TRUE, Done) /\ UNCHANGED sa
     \/ sa[c] = 0 /\ ns[c] # "active" /\ Rejected /\ UNCHANGED sa
     \/ sa[c] = 0 /\ ns[c] = "active" /\ Done /\ sa' = [sa EXCEPT ![c] = number]
  /\ UNCHANGED <<scope, ns, token, rbac, host, number, joined>>
\* Nothing is created in a namespace that is being deleted, whether it exists or not.
createServiceAccount(c) ==
  /\ Writes("join", "ServiceAccount")
  /\ \/ ns[c] # "active" /\ Rejected /\ UNCHANGED sa
     \/ ns[c] = "active" /\ sa[c] # 0 /\ Existing(TRUE, Done) /\ UNCHANGED sa
     \/ ns[c] = "active" /\ sa[c] = 0 /\ Done /\ sa' = [sa EXCEPT ![c] = number]
  /\ UNCHANGED <<scope, ns, token, rbac, host, number, joined>>

\* A role or binding k of cluster c becomes v; creating it needs its namespace.
Put(c, k, v) ==
  IF v = "current" /\ rbac[c][k] = "absent" /\ k \in InNamespace /\ ns[c] # "active"
  THEN Rejected /\ UNCHANGED rbac
  ELSE /\ rbac' = [rbac EXCEPT ![c][k] = v]
       /\ IF v = "current" THEN Done ELSE UNCHANGED cmd

\* A role is created or gets the rules of this release.
PutRole(c, k) ==
  /\ Writes("join", k)
  /\ IF rbac[c][k] # "absent" /\ cmd.options.errorOnExisting
     THEN Error /\ UNCHANGED rbac
     ELSE Put(c, k, "current")
  /\ UNCHANGED <<scope, ns, sa, token, host, number, joined>>

\* A binding to another role cannot be updated: it is deleted and then created.
PutBinding(c, k) ==
  /\ Writes("join", k)
  /\ IF rbac[c][k] # "absent" /\ cmd.options.errorOnExisting
     THEN Error /\ UNCHANGED rbac
     ELSE Put(c, k, IF rbac[c][k] = "stale" THEN "absent" ELSE "current")
  /\ UNCHANGED <<scope, ns, sa, token, host, number, joined>>

createClusterRoleAndBinding(c) == PutRole(c, "ClusterRole") \/ PutBinding(c, "ClusterRoleBinding")
createRoleAndBinding(c) == PutRole(c, "Role") \/ PutBinding(c, "RoleBinding")
createHealthCheckClusterRoleAndBinding(c) == PutRole(c, "HealthRole") \/ PutBinding(c, "HealthBinding")

CreateSecret(c, name) ==
  IF \E s \in secrets : s.name = name THEN Error /\ UNCHANGED secrets
  ELSE /\ secrets' = secrets \cup {[name |-> name, uid |-> cmd.uid]}
       /\ cmd' = [cmd EXCEPT !.todo = Tail(@), !.secret = name]

\* The token is awaited, then copied into a secret that gets the name given, even if
\* errorOnExisting is off, or a new one.
populateSecretInHostCluster(c) ==
  /\ \/ /\ Writes("join", "token")
        /\ sa[c] # 0 /\ token[c] = sa[c]
        /\ cmd' = [cmd EXCEPT !.todo = Tail(@), !.uid = token[c]]
        /\ UNCHANGED secrets
     \/ /\ Writes("join", "secret")
        /\ CreateSecret(c, <<c, IF cmd.options.named THEN 0 ELSE number>>)
  /\ UNCHANGED <<scope, member, kfc, number, joined>>

\* mutant: an existing KubeFedCluster is always an error
createKubeFedClusterOnce(c) ==
  /\ Writes("join", "KubeFedCluster")
  /\ IF kfc[c] # None
     THEN Error /\ UNCHANGED <<kfc, joined>>
     ELSE Done /\ kfc' = [kfc EXCEPT ![c] = cmd.secret] /\ joined' = joined \cup {c}
  /\ UNCHANGED <<scope, member, secrets, number>>
createKubeFedCluster(c) ==
  /\ Writes("join", "KubeFedCluster")
  /\ IF kfc[c] # None /\ cmd.options.errorOnExisting
     THEN Error /\ UNCHANGED <<kfc, joined>>
     ELSE Done /\ kfc' = [kfc EXCEPT ![c] = cmd.secret] /\ joined' = joined \cup {c}
  /\ UNCHANGED <<scope, member, secrets, number>>
-----------------------------------------------------------------------------
(* unjoin                                                                  *)

\* mutant: what a namespaced control plane has for health checks is forgotten
RolesDeletedCluster == <<"ClusterRoleBinding", "ClusterRole", "RoleBinding", "Role">>
\* deleteClusterRoleAndBinding; the scope does not matter.
RolesDeleted ==
  <<"ClusterRoleBinding", "ClusterRole", "HealthBinding", "HealthRole", "RoleBinding", "Role">>

\* deleteRBACResources
MemberSteps == RolesDeleted \o <<"ServiceAccount", "namespace">>

\* UnjoinCluster; without the configuration of the member only the host is looked at.
UnjoinSteps(o) ==
  (IF o.configured THEN MemberSteps ELSE << >>) \o <<"get", "secret", "KubeFedCluster">>

Unjoin(c) ==
  \E o \in UnjoinOptions :
    /\ o.configured \/ o.force
    /\ Give("unjoin", c, o, UnjoinSteps(o))
    /\ joined' = IF o.dryRun THEN joined ELSE joined \ {c}

\* An error ends an unjoin unless force is given.
OrForced == IF cmd.options.force THEN Done ELSE Error

\* With force a call that failed is passed over, but the KubeFedCluster must be read.
ForcedOn ==
  /\ Running /\ cmd.op = "unjoin" /\ cmd.options.force /\ ~cmd.options.dryRun
  /\ Head(cmd.todo) # "get"
  /\ cmd' = [cmd EXCEPT !.todo = Tail(@), !.faulted = TRUE]
  /\ UNCHANGED <<scope, member, host, number, joined>>

deleteClusterRoleAndBinding(c) ==
  \E k \in Kinds :
    /\ Writes("unjoin", k)
    /\ Done
    /\ rbac' = [rbac EXCEPT ![c][k] = "absent"]
    /\ UNCHANGED <<scope, ns, sa, token, host, number, joined>>

deleteServiceAccount(c) ==
  /\ Writes("unjoin", "ServiceAccount")
  /\ Done
  /\ sa' = [sa EXCEPT ![c] = 0]
  /\ UNCHANGED <<scope, ns, token, rbac, host, number, joined>>

\* The namespace of the host stays.  One that is gone, or going, is an error.
deleteFedNSFromUnjoinCluster(c) ==
  /\ Writes("unjoin", "namespace")
  /\ \/ c = HostCluster /\ Done /\ UNCHANGED ns
     \/ c # HostCluster /\ ns[c] = "active" /\ Done /\ ns' = [ns EXCEPT ![c] = "terminating"]
     \/ c # HostCluster /\ ns[c] # "active" /\ OrForced /\ UNCHANGED ns
  /\ UNCHANGED <<scope, sa, token, rbac, host, number, joined>>

\* The secret goes before the KubeFedCluster that knows its name.
deleteFederatedClusterAndSecret(c) ==
  /\ \/ /\ Writes("unjoin", "get")
        /\ IF kfc[c] = None THEN Error ELSE cmd' = [cmd EXCEPT !.todo = Tail(@), !.secret = kfc[c]]
        /\ UNCHANGED host
     \/ /\ Writes("unjoin", "secret")
        /\ secrets' = {s \in secrets : s.name # cmd.secret}
        /\ Done
        /\ UNCHANGED kfc
     \/ /\ Writes("unjoin", "KubeFedCluster")
        /\ kfc' = [kfc EXCEPT ![c] = None]
        /\ Done
        /\ UNCHANGED secrets
  /\ UNCHANGED <<scope, member, number, joined>>
-----------------------------------------------------------------------------
Step(c) ==
  \/ performPreflightChecks(c)
  \/ createKubeFedNamespace(c)
  \/ createServiceAccount(c)
  \/ createClusterRoleAndBinding(c)
  \/ createRoleAndBinding(c)
  \/ createHealthCheckClusterRoleAndBinding(c)
  \/ populateSecretInHostCluster(c)
  \/ createKubeFedCluster(c)
  \/ deleteClusterRoleAndBinding(c)
  \/ deleteServiceAccount(c)
  \/ deleteFedNSFromUnjoinCluster(c)
  \/ deleteFederatedClusterAndSecret(c)

Next ==
  \/ \E c \in Clusters : Join(c) \/ Unjoin(c) \/ TokenIssued(c) \/ NamespaceGone(c)
  \/ Step(cmd.cluster)
  \/ DryRun("join") \/ DryRun("unjoin")
  \/ ForcedOn
  \/ Interrupted

Spec == Init /\ [][Next]_vars
-----------------------------------------------------------------------------
(* Properties                                                              *)

Rights == IF scope = "Cluster" THEN {"ClusterRole", "ClusterRoleBinding"}
          ELSE {"Role", "RoleBinding", "HealthRole", "HealthBinding"}

\* The control plane can work with a cluster: the secret is there, its token is that of
\* the service account there is, and the account has the rights of the scope.
Usable(c) ==
  /\ ns[c] = "active" /\ sa[c] # 0
  /\ [name |-> kfc[c], uid |-> sa[c]] \in secrets
  /\ \A k \in Rights : rbac[c][k] = "current"

\* A cluster that was joined stays usable until it is unjoined: neither joins that were
\* interrupted or repeated with other options, nor the unjoin of another cluster, nor a
\* namespace that was still being deleted when it was joined, take anything away.
\* Secrets have different names (TypeOK).
JoinedUsable ==
  /\ TypeOK
  /\ \A c \in joined : Usable(c)

Ended(op) == ~Running /\ cmd.op = op /\ ~cmd.options.dryRun

\* An unjoin that reported success, and did not pass over an error, has left no account,
\* role or binding of any scope, no KubeFedCluster and no secret it referred to; a secret
\* that an earlier join has lost holds the token of no account.
UnjoinLeavesNothing ==
  Ended("unjoin") /\ cmd.ok /\ ~cmd.faulted /\ cmd.options.configured =>
    LET c == cmd.cluster
    IN  /\ sa[c] = 0 /\ \A k \in Kinds : rbac[c][k] = "absent"
        /\ c # HostCluster => ns[c] # "active"
        /\ kfc[c] = None
        /\ \A s \in secrets : s.name # cmd.secret

\* Whatever interrupted commands have left behind, a join that takes what exists and
\* makes up the name of its secret, and a forced unjoin of a cluster that is registered,
\* come to their end when no call fails.
RerunCompletes ==
  /\ Ended("join") /\ ~cmd.faulted /\ ~cmd.options.errorOnExisting /\ ~cmd.options.named => cmd.ok
  /\ Ended("unjoin") /\ ~cmd.faulted /\ cmd.options.force /\ ~cmd.ok => kfc[cmd.cluster] = None
=============================================================================
