------------------------- MODULE RegistrationProofs -------------------------
(***************************************************************************)
(* Joins and unjoins that are interrupted anywhere and given again: for any *)
(* number of clusters and commands, a cluster that was joined is usable, an *)
(* unjoin that succeeds leaves nothing and a repeated command completes.    *)
(***************************************************************************)
EXTENDS Registration, TLAPS

-----------------------------------------------------------------------------
(* The inductive invariant                                                 *)

StepNames == Kinds \cup {"preflight", "namespace", "ServiceAccount", "token", "secret",
                         "KubeFedCluster", "get"}

Command == [op : {"join", "unjoin"}, cluster : Clusters, options : JoinOptions \cup UnjoinOptions,
            todo : Seq(StepNames), ok : BOOLEAN, faulted : BOOLEAN, uid : 0 .. MaxCommands,
            secret : Names \cup {None}]

\* All the steps of the command, of which the last ones are still to do.
Steps == IF cmd.op = "join" THEN JoinSteps ELSE UnjoinSteps(cmd.options)
Passed == Len(Steps) - Len(cmd.todo)
Suffix(s, t) == Len(s) <= Len(t) /\ \A i \in 1 .. Len(s) : s[i] = t[Len(t) - Len(s) + i]

Given ==
  /\ cmd \in Command /\ number >= 1
  /\ cmd.op = "join" => cmd.options \in JoinOptions
  /\ cmd.op = "unjoin" => cmd.options \in UnjoinOptions
  /\ Suffix(cmd.todo, Steps)

\* Names tell whose a secret is, and the number in them when it was made.  The namespace
\* of the host is never deleted.
NameOf(c) == {None} \cup ({c} \X (0 .. MaxCommands))
NamesKept ==
  /\ ns[HostCluster] = "active"
  /\ \A c \in Clusters : kfc[c] \in NameOf(c)
  /\ cmd.secret \in NameOf(cmd.cluster)
  /\ \A s \in secrets : s.name[2] <= number
  /\ Running /\ cmd.op = "join" /\ (\A i \in 1 .. Passed : Steps[i] # "secret") =>
       \A s \in secrets : s.name[2] # number

\* What a step of a join has brought about, and a step of an unjoin.
Did(x) ==
  LET c == cmd.cluster
  IN  /\ x \in Kinds => rbac[c][x] = "current"
      /\ x = "ServiceAccount" => ns[c] = "active" /\ sa[c] # 0
      /\ x = "token" => cmd.uid # 0 /\ cmd.uid = sa[c]
      /\ x = "secret" => sa[c] # 0 /\ [name |-> cmd.secret, uid |-> sa[c]] \in secrets
Undid(x) ==
  LET c == cmd.cluster
  IN  /\ x \in Kinds => rbac[c][x] = "absent"
      /\ x = "ServiceAccount" => sa[c] = 0
      /\ x = "namespace" => c = HostCluster \/ ns[c] # "active"
      /\ x = "secret" => \A s \in secrets : s.name # cmd.secret
      /\ x = "KubeFedCluster" => kfc[c] = None

\* A step that was passed stays done while the command runs.
JoinKept ==
  Running /\ cmd.op = "join" /\ ~cmd.options.dryRun => \A i \in 1 .. Passed : Did(Steps[i])
UnjoinKept ==
  cmd.op = "unjoin" /\ ~cmd.options.dryRun =>
    /\ cmd.cluster \notin joined
    /\ cmd.ok /\ ~cmd.faulted => \A i \in 1 .. Passed : Undid(Steps[i])

\* What ends a command that takes what exists, and a forced one.
Completes ==
  /\ cmd.op = "join" /\ ~cmd.options.dryRun /\ ~cmd.faulted
       /\ ~cmd.options.errorOnExisting /\ ~cmd.options.named => cmd.ok
  /\ cmd.op = "unjoin" /\ ~cmd.options.dryRun /\ ~cmd.faulted /\ cmd.options.force /\ ~cmd.ok =>
       kfc[cmd.cluster] = None

Inv ==
  /\ TypeOK
  /\ cmd = Idle \/ Given
  /\ NamesKept
  /\ \A c \in joined : Usable(c)
  /\ JoinKept
  /\ UnjoinKept
  /\ Completes

-----------------------------------------------------------------------------
(* The steps of the commands                                               *)

LEMMA SuffixTail ==
  ASSUME NEW S, NEW s \in Seq(S), NEW t \in Seq(S), s # << >>, Suffix(s, t)
  PROVE  /\ Tail(s) \in Seq(S) /\ Suffix(Tail(s), t)
         /\ Len(t) - Len(s) \in 0 .. Len(t) - 1
         /\ Len(t) - Len(Tail(s)) = (Len(t) - Len(s)) + 1
         /\ Head(s) \in S /\ Head(s) = t[(Len(t) - Len(s)) + 1]
<1>1. /\ Head(s) \in S /\ Tail(s) \in Seq(S) /\ Len(s) >= 1 /\ Len(Tail(s)) = Len(s) - 1
      /\ Head(s) = s[1] /\ \A i \in 1 .. Len(s) - 1 : Tail(s)[i] = s[i + 1]
  OBVIOUS
<1>2. Len(s) \in Nat /\ Len(t) \in Nat /\ Len(s) <= Len(t)
  BY DEF Suffix
<1>3. \A i \in 1 .. Len(s) - 1 : Tail(s)[i] = t[Len(t) - Len(s) + (i + 1)]
  BY <1>1, <1>2 DEF Suffix
<1>4. \A i \in 1 .. Len(s) - 1 : Len(t) - Len(s) + (i + 1) = Len(t) - (Len(s) - 1) + i
  BY <1>2
<1>5. Suffix(Tail(s), t)
  BY <1>1, <1>2, <1>3, <1>4 DEF Suffix
<1>6. Head(s) = t[(Len(t) - Len(s)) + 1]
  BY <1>1, <1>2 DEF Suffix
<1> QED
  BY <1>1, <1>2, <1>5, <1>6

Concats(r, s, t, m, n) ==
  /\ Len(r) = m + n
  /\ \A i \in 1 .. m : r[i] = s[i]
  /\ \A i \in m + 1 .. m + n : r[i] = t[i - m]

LEMMA Concat ==
  ASSUME NEW S, NEW s \in Seq(S), NEW t \in Seq(S), NEW m, NEW n, Len(s) = m, Len(t) = n
  PROVE  s \o t \in Seq(S) /\ Concats(s \o t, s, t, m, n)
<1>1. s \o t \in Seq(S) /\ Concats(s \o t, s, t, Len(s), Len(t))
  BY DEF Concats
<1> QED
  BY <1>1, Zenon

\* The steps of a join in a namespaced control plane, one by one.
LEMMA NamespacedSteps ==
  ASSUME scope = "Namespaced"
  PROVE  /\ JoinSteps \in Seq(StepNames) /\ Len(JoinSteps) = 10
         /\ JoinSteps[1] = "preflight" /\ JoinSteps[2] = "namespace" /\ JoinSteps[3] = "ServiceAccount"
         /\ JoinSteps[4] = "Role" /\ JoinSteps[5] = "RoleBinding"
         /\ JoinSteps[6] = "HealthRole" /\ JoinSteps[7] = "HealthBinding"
         /\ JoinSteps[8] = "token" /\ JoinSteps[9] = "secret" /\ JoinSteps[10] = "KubeFedCluster"
<1> DEFINE a == <<"preflight", "namespace">>
           b == <<"ServiceAccount">>
           c == <<"Role", "RoleBinding", "HealthRole", "HealthBinding">>
           d == <<"token", "secret", "KubeFedCluster">>
           e == b \o c
           f == a \o e
<1>1. /\ a \in Seq(StepNames) /\ b \in Seq(StepNames) /\ c \in Seq(StepNames) /\ d \in Seq(StepNames)
      /\ Len(a) = 2 /\ Len(b) = 1 /\ Len(c) = 4 /\ Len(d) = 3
  BY DEF StepNames, Kinds, InNamespace
<1>2. /\ a[1] = "preflight" /\ a[2] = "namespace" /\ b[1] = "ServiceAccount"
      /\ c[1] = "Role" /\ c[2] = "RoleBinding" /\ c[3] = "HealthRole" /\ c[4] = "HealthBinding"
      /\ d[1] = "token" /\ d[2] = "secret" /\ d[3] = "KubeFedCluster"
  OBVIOUS
<1>3. JoinSteps = f \o d
  BY DEF JoinSteps, Authorize
<1> HIDE DEF a, b, c, d
<1>4. e \in Seq(StepNames) /\ Concats(e, b, c, 1, 4)
  BY <1>1, Concat, Zenon
<1> HIDE DEF e
<1>5. Len(e) = 5 /\ e[1] = b[1] /\ e[2] = c[1] /\ e[3] = c[2] /\ e[4] = c[3] /\ e[5] = c[4]
  BY <1>4 DEF Concats
<1>6. f \in Seq(StepNames) /\ Concats(f, a, e, 2, 5)
  BY <1>1, <1>4, <1>5, Concat, Zenon
<1> HIDE DEF f
<1>7. Len(f) = 7 /\ f[1] = a[1] /\ f[2] = a[2] /\ f[3] = e[1] /\ f[4] = e[2] /\ f[5] = e[3]
      /\ f[6] = e[4] /\ f[7] = e[5]
  BY <1>6 DEF Concats
<1>8. JoinSteps \in Seq(StepNames) /\ Concats(JoinSteps, f, d, 7, 3)
  BY <1>1, <1>3, <1>6, <1>7, Concat, Zenon
<1> QED
  BY <1>2, <1>5, <1>7, <1>8 DEF Concats

\* And in one that has the whole cluster.
LEMMA ClusterSteps ==
  ASSUME scope # "Namespaced"
  PROVE  /\ JoinSteps \in Seq(StepNames) /\ Len(JoinSteps) = 8
         /\ JoinSteps[1] = "preflight" /\ JoinSteps[2] = "namespace" /\ JoinSteps[3] = "ServiceAccount"
         /\ JoinSteps[4] = "ClusterRole" /\ JoinSteps[5] = "ClusterRoleBinding"
         /\ JoinSteps[6] = "token" /\ JoinSteps[7] = "secret" /\ JoinSteps[8] = "KubeFedCluster"
<1> DEFINE a == <<"preflight", "namespace">>
           b == <<"ServiceAccount">>
           c == <<"ClusterRole", "ClusterRoleBinding">>
           d == <<"token", "secret", "KubeFedCluster">>
           e == b \o c
           f == a \o e
<1>1. /\ a \in Seq(StepNames) /\ b \in Seq(StepNames) /\ c \in Seq(StepNames) /\ d \in Seq(StepNames)
      /\ Len(a) = 2 /\ Len(b) = 1 /\ Len(c) = 2 /\ Len(d) = 3
  BY DEF StepNames, Kinds, InNamespace
<1>2. /\ a[1] = "preflight" /\ a[2] = "namespace" /\ b[1] = "ServiceAccount"
      /\ c[1] = "ClusterRole" /\ c[2] = "ClusterRoleBinding"
      /\ d[1] = "token" /\ d[2] = "secret" /\ d[3] = "KubeFedCluster"
  OBVIOUS
<1>3. JoinSteps = f \o d
  BY DEF JoinSteps, Authorize
<1> HIDE DEF a, b, c, d
<1>4. e \in Seq(StepNames) /\ Concats(e, b, c, 1, 2)
  BY <1>1, Concat, Zenon
<1> HIDE DEF e
<1>5. Len(e) = 3 /\ e[1] = b[1] /\ e[2] = c[1] /\ e[3] = c[2]
  BY <1>4 DEF Concats
<1>6. f \in Seq(StepNames) /\ Concats(f, a, e, 2, 3)
  BY <1>1, <1>4, <1>5, Concat, Zenon
<1> HIDE DEF f
<1>7. Len(f) = 5 /\ f[1] = a[1] /\ f[2] = a[2] /\ f[3] = e[1] /\ f[4] = e[2] /\ f[5] = e[3]
  BY <1>6 DEF Concats
<1>8. JoinSteps \in Seq(StepNames) /\ Concats(JoinSteps, f, d, 5, 3)
  BY <1>1, <1>3, <1>6, <1>7, Concat, Zenon
<1> QED
  BY <1>2, <1>5, <1>7, <1>8 DEF Concats

\* What matters of the order: the token is copied after it came, and the KubeFedCluster
\* is written last, when the account and its rights are there.
LEMMA JoinOrder ==
  ASSUME TypeOK
  PROVE  /\ JoinSteps \in Seq(StepNames) /\ Len(JoinSteps) \in Nat
         /\ \A i \in 1 .. Len(JoinSteps) : JoinSteps[i] = "KubeFedCluster" => i = Len(JoinSteps)
         /\ \A i \in 1 .. Len(JoinSteps) : JoinSteps[i] = "secret" =>
              \E j \in 1 .. i - 1 : JoinSteps[j] = "token"
         /\ \A i, j \in 1 .. Len(JoinSteps) : JoinSteps[i] = "secret" /\ JoinSteps[j] = "secret" => i = j
         /\ \A k \in Rights \cup {"ServiceAccount", "token", "secret"} :
              \E i \in 1 .. Len(JoinSteps) - 1 : JoinSteps[i] = k
         /\ \A i \in 1 .. Len(JoinSteps) :
              JoinSteps[i] \in Kinds \cup {"ServiceAccount", "token", "secret"} =>
                \E j \in 1 .. i : JoinSteps[j] = "ServiceAccount"
<1>1. CASE scope = "Namespaced"
  <2> DEFINE J == JoinSteps
  <2>1. /\ J \in Seq(StepNames) /\ Len(J) = 10
        /\ J[1] = "preflight" /\ J[2] = "namespace" /\ J[3] = "ServiceAccount"
        /\ J[4] = "Role" /\ J[5] = "RoleBinding" /\ J[6] = "HealthRole" /\ J[7] = "HealthBinding"
        /\ J[8] = "token" /\ J[9] = "secret" /\ J[10] = "KubeFedCluster"
    BY <1>1, NamespacedSteps
  <2>2. Rights = {"Role", "RoleBinding", "HealthRole", "HealthBinding"}
    BY <1>1 DEF Rights
  <2> HIDE DEF J
  <2>3. \A i \in 1 .. 10 : i \in {1, 2, 3, 4, 5, 6, 7, 8, 9, 10}
    OBVIOUS
  <2>4. \A i \in 1 .. 10 : (J[i] = "KubeFedCluster" => i = 10) /\ (J[i] = "secret" => i = 9)
    BY <2>1, <2>3
  <2>5. \A k \in Rights \cup {"ServiceAccount", "token", "secret"} : \E i \in 1 .. 9 : J[i] = k
    BY <2>1, <2>2
  <2>6. 8 \in 1 .. 9 - 1 /\ 10 - 1 = 9
    OBVIOUS
  <2>7. \A i \in 1 .. 10 : J[i] \in Kinds \cup {"ServiceAccount", "token", "secret"} => i >= 3
    BY <2>1, <2>3 DEF Kinds, InNamespace
  <2>8. \A i \in 1 .. 10 : i >= 3 => 3 \in 1 .. i
    OBVIOUS
  <2> QED
    BY <2>1, <2>4, <2>5, <2>6, <2>7, <2>8 DEF J
<1>2. CASE scope = "Cluster"
  <2> DEFINE J == JoinSteps
  <2>1. /\ J \in Seq(StepNames) /\ Len(J) = 8
        /\ J[1] = "preflight" /\ J[2] = "namespace" /\ J[3] = "ServiceAccount"
        /\ J[4] = "ClusterRole" /\ J[5] = "ClusterRoleBinding"
        /\ J[6] = "token" /\ J[7] = "secret" /\ J[8] = "KubeFedCluster"
    BY <1>2, ClusterSteps
  <2>2. Rights = {"ClusterRole", "ClusterRoleBinding"}
    BY <1>2 DEF Rights
  <2> HIDE DEF J
  <2>3. \A i \in 1 .. 8 : i \in {1, 2, 3, 4, 5, 6, 7, 8}
    OBVIOUS
  <2>4. \A i \in 1 .. 8 : (J[i] = "KubeFedCluster" => i = 8) /\ (J[i] = "secret" => i = 7)
    BY <2>1, <2>3
  <2>5. \A k \in Rights \cup {"ServiceAccount", "token", "secret"} : \E i \in 1 .. 7 : J[i] = k
    BY <2>1, <2>2
  <2>6. 6 \in 1 .. 7 - 1 /\ 8 - 1 = 7
    OBVIOUS
  <2>7. \A i \in 1 .. 8 : J[i] \in Kinds \cup {"ServiceAccount", "token", "secret"} => i >= 3
    BY <2>1, <2>3 DEF Kinds, InNamespace
  <2>8. \A i \in 1 .. 8 : i >= 3 => 3 \in 1 .. i
    OBVIOUS
  <2> QED
    BY <2>1, <2>4, <2>5, <2>6, <2>7, <2>8 DEF J
<1> QED
  BY <1>1, <1>2 DEF TypeOK

\* An unjoin reads the name of the secret before it deletes that secret, and with the
\* configuration of the member it looks at everything a join makes there.
LEMMA UnjoinOrder ==
  ASSUME NEW o \in UnjoinOptions
  PROVE  /\ UnjoinSteps(o) \in Seq(StepNames) /\ Len(UnjoinSteps(o)) \in Nat
         /\ \A i, j \in 1 .. Len(UnjoinSteps(o)) :
              UnjoinSteps(o)[i] = "get" /\ UnjoinSteps(o)[j] = "secret" => i < j
         /\ o.configured =>
              \A k \in Kinds \cup {"ServiceAccount", "namespace", "secret", "KubeFedCluster"} :
                \E i \in 1 .. Len(UnjoinSteps(o)) : UnjoinSteps(o)[i] = k
<1> DEFINE a == RolesDeleted
           b == <<"ServiceAccount", "namespace">>
           c == <<"get", "secret", "KubeFedCluster">>
           d == a \o b
           U == UnjoinSteps(o)
<1>1. /\ a \in Seq(StepNames) /\ b \in Seq(StepNames) /\ c \in Seq(StepNames)
      /\ Len(a) = 6 /\ Len(b) = 2 /\ Len(c) = 3
  BY DEF RolesDeleted, StepNames, Kinds, InNamespace
<1>2. /\ a[1] = "ClusterRoleBinding" /\ a[2] = "ClusterRole" /\ a[3] = "HealthBinding"
      /\ a[4] = "HealthRole" /\ a[5] = "RoleBinding" /\ a[6] = "Role"
      /\ b[1] = "ServiceAccount" /\ b[2] = "namespace"
      /\ c[1] = "get" /\ c[2] = "secret" /\ c[3] = "KubeFedCluster"
  BY DEF RolesDeleted
<1>3. o.configured => U = d \o c
  BY DEF UnjoinSteps, MemberSteps
<1>4. ~o.configured => U = << >> \o c
  BY DEF UnjoinSteps
<1>e. << >> \in Seq(StepNames) /\ Len(<< >>) = 0
  OBVIOUS
<1> HIDE DEF a, b, c
<1>5. d \in Seq(StepNames) /\ Concats(d, a, b, 6, 2)
  BY <1>1, Concat, Zenon
<1> HIDE DEF d
<1>6. /\ Len(d) = 8 /\ d[1] = a[1] /\ d[2] = a[2] /\ d[3] = a[3] /\ d[4] = a[4] /\ d[5] = a[5]
      /\ d[6] = a[6] /\ d[7] = b[1] /\ d[8] = b[2]
  BY <1>5 DEF Concats
<1>7. CASE o.configured
  <2>1. U \in Seq(StepNames) /\ Concats(U, d, c, 8, 3)
    <3>1. U = d \o c
      BY <1>3, <1>7
    <3>2. d \o c \in Seq(StepNames) /\ Concats(d \o c, d, c, 8, 3)
      BY <1>1, <1>5, <1>6, Concat, Zenon
    <3> QED
      BY <3>1, <3>2, Zenon
  <2> HIDE DEF U
  <2>2. /\ Len(U) = 11 /\ U[1] = d[1] /\ U[2] = d[2] /\ U[3] = d[3] /\ U[4] = d[4] /\ U[5] = d[5]
        /\ U[6] = d[6] /\ U[7] = d[7] /\ U[8] = d[8] /\ U[9] = c[1] /\ U[10] = c[2] /\ U[11] = c[3]
    BY <2>1 DEF Concats
  <2>3. \A i \in 1 .. 11 : i \in {1, 2, 3, 4, 5, 6, 7, 8, 9, 10, 11}
    OBVIOUS
  <2>4. \A i \in 1 .. 11 : (U[i] = "get" => i = 9) /\ (U[i] = "secret" => i = 10)
    BY <1>2, <1>6, <2>2, <2>3
  <2>5. \A k \in Kinds \cup {"ServiceAccount", "namespace", "secret", "KubeFedCluster"} :
          \E i \in 1 .. 11 : U[i] = k
    BY <1>2, <1>6, <2>2 DEF Kinds, InNamespace
  <2> QED
    BY <2>1, <2>2, <2>4, <2>5 DEF U
<1>8. CASE ~o.configured
  <2>1. U \in Seq(StepNames) /\ Concats(U, << >>, c, 0, 3)
    <3>1. U = << >> \o c
      BY <1>4, <1>8
    <3>2. << >> \o c \in Seq(StepNames) /\ Concats(<< >> \o c, << >>, c, 0, 3)
      BY <1>1, <1>e, Concat, Zenon
    <3> QED
      BY <3>1, <3>2, Zenon
  <2> HIDE DEF U
  <2>2. Len(U) = 3 /\ U[1] = c[1] /\ U[2] = c[2] /\ U[3] = c[3]
    BY <2>1 DEF Concats
  <2>3. \A i \in 1 .. 3 : i \in {1, 2, 3}
    OBVIOUS
  <2>4. \A i \in 1 .. 3 : (U[i] = "get" => i = 1) /\ (U[i] = "secret" => i = 2)
    BY <1>2, <2>2, <2>3
  <2> QED
    BY <1>8, <2>1, <2>2, <2>4 DEF U
<1> QED
  BY <1>7, <1>8

LEMMA StepsTypes ==
  ASSUME TypeOK, Given
  PROVE  Steps \in Seq(StepNames) /\ Len(Steps) \in Nat /\ Passed \in 0 .. Len(Steps)
<1>1. Steps \in Seq(StepNames) /\ Len(Steps) \in Nat
  BY JoinOrder, UnjoinOrder DEF Steps, Given, Command
<1>2. cmd.todo \in Seq(StepNames) /\ Len(cmd.todo) \in Nat /\ Len(cmd.todo) <= Len(Steps)
  BY DEF Given, Command, Suffix
<1> QED
  BY <1>1, <1>2 DEF Passed

-----------------------------------------------------------------------------
(* How a command goes on                                                   *)

Same == cmd'.op = cmd.op /\ cmd'.cluster = cmd.cluster /\ cmd'.options = cmd.options
Advances == cmd' \in Command /\ Same /\ cmd'.ok = cmd.ok /\ cmd'.todo = Tail(cmd.todo)
Ends ==
  /\ cmd' \in Command /\ Same /\ cmd'.uid = cmd.uid /\ cmd'.secret = cmd.secret
  /\ cmd'.todo = << >> /\ cmd'.ok = FALSE

LEMMA Moves ==
  ASSUME Given, Running
  PROVE  /\ Done => /\ Advances /\ cmd'.faulted = cmd.faulted
                    /\ cmd'.uid = cmd.uid /\ cmd'.secret = cmd.secret
         /\ Error => Ends /\ cmd'.faulted = cmd.faulted
         /\ Rejected => Ends /\ cmd'.faulted = TRUE
         /\ \A u \in 0 .. MaxCommands :
              cmd' = [cmd EXCEPT !.todo = Tail(@), !.uid = u] =>
                Advances /\ cmd'.faulted = cmd.faulted /\ cmd'.uid = u /\ cmd'.secret = cmd.secret
         /\ \A n \in Names \cup {None} :
              cmd' = [cmd EXCEPT !.todo = Tail(@), !.secret = n] =>
                Advances /\ cmd'.faulted = cmd.faulted /\ cmd'.uid = cmd.uid /\ cmd'.secret = n
         /\ cmd' = [cmd EXCEPT !.todo = Tail(@), !.faulted = TRUE] =>
              Advances /\ cmd'.faulted = TRUE /\ cmd'.uid = cmd.uid /\ cmd'.secret = cmd.secret
<1>1. cmd \in Command /\ cmd.todo # << >>
  BY DEF Given, Running
<1>2. Tail(cmd.todo) \in Seq(StepNames) /\ << >> \in Seq(StepNames)
  BY <1>1 DEF Command
<1> DEFINE t == Tail(cmd.todo)
<1> HIDE DEF t
<1>3. t \in Seq(StepNames)
  BY <1>2 DEF t
<1>4. Done => cmd' = [cmd EXCEPT !.todo = t]
  BY DEF Done, t
<1>5. Done => /\ Advances /\ cmd'.faulted = cmd.faulted
              /\ cmd'.uid = cmd.uid /\ cmd'.secret = cmd.secret
  BY <1>1, <1>3, <1>4 DEF Command, Advances, Same, t
<1>6. Error => Ends /\ cmd'.faulted = cmd.faulted
  BY <1>1, <1>2 DEF Error, Command, Ends, Same
<1>7. Rejected => Ends /\ cmd'.faulted = TRUE
  BY <1>1, <1>2 DEF Rejected, Command, Ends, Same
<1>8. \A u \in 0 .. MaxCommands :
        cmd' = [cmd EXCEPT !.todo = t, !.uid = u] =>
          Advances /\ cmd'.faulted = cmd.faulted /\ cmd'.uid = u /\ cmd'.secret = cmd.secret
  BY <1>1, <1>3 DEF Command, Advances, Same, t
<1>9. \A n \in Names \cup {None} :
        cmd' = [cmd EXCEPT !.todo = t, !.secret = n] =>
          Advances /\ cmd'.faulted = cmd.faulted /\ cmd'.uid = cmd.uid /\ cmd'.secret = n
  BY <1>1, <1>3 DEF Command, Advances, Same, t
<1>10. cmd' = [cmd EXCEPT !.todo = t, !.faulted = TRUE] =>
         Advances /\ cmd'.faulted = TRUE /\ cmd'.uid = cmd.uid /\ cmd'.secret = cmd.secret
  BY <1>1, <1>3 DEF Command, Advances, Same, t
<1> QED
  BY <1>5, <1>6, <1>7, <1>8, <1>9, <1>10 DEF t

LEMMA SameSteps ==
  ASSUME Same, UNCHANGED scope
  PROVE  Steps' = Steps
BY DEF Same, Steps, JoinSteps, Authorize

LEMMA Advanced ==
  ASSUME TypeOK, Given, Running, Advances, UNCHANGED <<scope, number>>
  PROVE  /\ Given' /\ Steps' = Steps
         /\ Passed \in 0 .. Len(Steps) - 1 /\ Passed' = Passed + 1
         /\ Head(cmd.todo) \in StepNames /\ Head(cmd.todo) = Steps[Passed + 1]
<1>1. Steps' = Steps /\ Steps \in Seq(StepNames)
  BY StepsTypes, SameSteps DEF Advances
<1>2. cmd.todo \in Seq(StepNames) /\ cmd.todo # << >> /\ Suffix(cmd.todo, Steps)
  BY DEF Given, Command, Running
<1>3. /\ Suffix(Tail(cmd.todo), Steps)
      /\ Len(Steps) - Len(cmd.todo) \in 0 .. Len(Steps) - 1
      /\ Len(Steps) - Len(Tail(cmd.todo)) = (Len(Steps) - Len(cmd.todo)) + 1
      /\ Head(cmd.todo) \in StepNames /\ Head(cmd.todo) = Steps[(Len(Steps) - Len(cmd.todo)) + 1]
  BY <1>1, <1>2, SuffixTail
<1>4. Given'
  BY <1>1, <1>3 DEF Given, Advances, Same
<1> QED
  BY <1>1, <1>3, <1>4 DEF Passed, Advances

LEMMA EndsGiven ==
  ASSUME TypeOK, Given, Ends, UNCHANGED <<scope, number>>
  PROVE  Given' /\ ~Running'
<1>1. Steps' = Steps /\ Steps \in Seq(StepNames)
  BY StepsTypes, SameSteps DEF Ends
<1>2. Suffix(<< >>, Steps)
  BY <1>1 DEF Suffix
<1> QED
  BY <1>1, <1>2 DEF Given, Ends, Same, Running

\* Of the steps that were passed, the new one included, each stays done.
LEMMA JoinAdvances ==
  ASSUME TypeOK, Given, JoinKept, Running, Advances, UNCHANGED <<scope, number>>, cmd.op = "join",
         ~cmd.options.dryRun => \A x \in StepNames : Did(x) \/ x = Head(cmd.todo) => Did(x)'
  PROVE  JoinKept' /\ UnjoinKept'
<1>1. /\ Steps' = Steps /\ Passed \in 0 .. Len(Steps) - 1 /\ Passed' = Passed + 1
      /\ Head(cmd.todo) = Steps[Passed + 1]
  BY Advanced
<1>2. Steps \in Seq(StepNames) /\ Len(Steps) \in Nat
  BY StepsTypes
<1>3. \A i \in 1 .. Len(Steps) : Steps[i] \in StepNames
  BY <1>2
<1>4. ASSUME ~cmd.options.dryRun, NEW i \in 1 .. Passed'
      PROVE  Did(Steps[i])'
  <2>1. i \in 1 .. Len(Steps) /\ (i = Passed + 1 \/ i \in 1 .. Passed)
    BY <1>1, <1>2
  <2>2. PICK x \in StepNames : x = Steps[i]
    BY <1>3, <2>1
  <2>3. Did(x) \/ x = Head(cmd.todo)
    BY <1>1, <1>4, <2>1, <2>2 DEF JoinKept
  <2>4. Did(x)' /\ x = Steps'[i]
    BY <1>1, <1>4, <2>2, <2>3
  <2> QED
    BY <2>4 DEF Did
<1>5. cmd'.op = "join" /\ cmd'.options = cmd.options
  BY DEF Advances, Same
<1>6. JoinKept'
  BY <1>4, <1>5 DEF JoinKept
<1>7. UnjoinKept'
  BY <1>5 DEF UnjoinKept
<1> QED
  BY <1>6, <1>7

LEMMA UnjoinAdvances ==
  ASSUME TypeOK, Given, UnjoinKept, Running, Advances, UNCHANGED <<scope, number, joined>>,
         cmd.op = "unjoin", cmd.faulted => cmd'.faulted,
         ~cmd.options.dryRun /\ ~cmd'.faulted =>
           \A x \in StepNames :
             ((\E i \in 1 .. Passed : x = Steps[i]) /\ Undid(x)) \/ x = Head(cmd.todo) => Undid(x)'
  PROVE  JoinKept' /\ UnjoinKept'
<1>1. /\ Steps' = Steps /\ Passed \in 0 .. Len(Steps) - 1 /\ Passed' = Passed + 1
      /\ Head(cmd.todo) = Steps[Passed + 1]
  BY Advanced
<1>2. Steps \in Seq(StepNames) /\ Len(Steps) \in Nat
  BY StepsTypes
<1>3. \A i \in 1 .. Len(Steps) : Steps[i] \in StepNames
  BY <1>2
<1>4. ASSUME ~cmd.options.dryRun, cmd.ok, ~cmd'.faulted, NEW i \in 1 .. Passed'
      PROVE  Undid(Steps[i])'
  <2>1. i \in 1 .. Len(Steps) /\ (i = Passed + 1 \/ i \in 1 .. Passed)
    BY <1>1, <1>2
  <2>2. PICK x \in StepNames : x = Steps[i]
    BY <1>3, <2>1
  <2>3. (i \in 1 .. Passed /\ Undid(x)) \/ x = Head(cmd.todo)
    BY <1>1, <1>4, <2>1, <2>2 DEF UnjoinKept
  <2>4. Undid(x)' /\ x = Steps'[i]
    BY <1>1, <1>4, <2>2, <2>3
  <2> QED
    BY <2>4 DEF Undid
<1>5. /\ cmd'.op = "unjoin" /\ cmd'.options = cmd.options /\ cmd'.cluster = cmd.cluster
      /\ cmd'.ok = cmd.ok
  BY DEF Advances, Same
<1>6. UnjoinKept'
  BY <1>4, <1>5 DEF UnjoinKept
<1>7. JoinKept'
  BY <1>5 DEF JoinKept
<1> QED
  BY <1>6, <1>7

\* A command that has ended with an error leaves nothing to be kept but that what an
\* unjoin has taken back is not joined.
LEMMA EndsKept ==
  ASSUME TypeOK, Given, UnjoinKept, Ends, UNCHANGED <<scope, number, joined>>
  PROVE  JoinKept' /\ UnjoinKept'
<1>1. ~Running' /\ ~cmd'.ok
  BY EndsGiven DEF Ends
<1> QED
  BY <1>1 DEF JoinKept, UnjoinKept, Ends, Same

-----------------------------------------------------------------------------
(* What every action keeps                                                 *)

LEMMA IsGiven ==
  ASSUME Inv, Running
  PROVE  Given
BY DEF Inv, Running, Idle

\* The type of the rest when only the command moves on.
LEMMA CommandTypes ==
  ASSUME TypeOK, cmd' \in Command, UNCHANGED <<scope, member, host, number, joined>>
  PROVE  TypeOK'
<1>1. /\ cmd'.op \in {"join", "unjoin", "none"} /\ cmd'.cluster \in Clusters
      /\ {cmd'.ok, cmd'.faulted} \subseteq BOOLEAN
      /\ cmd'.uid \in 0 .. MaxCommands /\ cmd'.secret \in Names \cup {None}
  BY DEF Command
<1>2. Names' = Names
  BY DEF Names
<1> QED
  BY <1>1, <1>2 DEF TypeOK, member, host

LEMMA UsableKept ==
  ASSUME NEW c, Usable(c), UNCHANGED scope,
         ns'[c] = "active", sa'[c] = sa[c], kfc'[c] = kfc[c],
         [name |-> kfc[c], uid |-> sa[c]] \in secrets',
         \A k \in Rights : rbac[c][k] = "current" => rbac'[c][k] = "current"
  PROVE  Usable(c)'
<1>1. Rights' = Rights
  BY DEF Rights
<1> QED
  BY <1>1 DEF Usable

\* The number of the command is not in use until its secret is made.
LEMMA NamesAdvance ==
  ASSUME TypeOK, Given, NamesKept, Running, Advances, UNCHANGED <<scope, number, kfc, secrets>>,
         ns'[HostCluster] = "active", cmd'.secret \in NameOf(cmd.cluster)
  PROVE  NamesKept'
<1>1. /\ Steps' = Steps /\ Passed \in 0 .. Len(Steps) - 1 /\ Passed' = Passed + 1
  BY Advanced
<1>2. Len(Steps) \in Nat
  BY StepsTypes
<1>3. \A i \in 1 .. Passed : i \in 1 .. Passed'
  BY <1>1, <1>2
<1>4. Running' /\ cmd'.op = "join" /\ (\A i \in 1 .. Passed' : Steps'[i] # "secret") =>
        \A s \in secrets : s.name[2] # number
  BY <1>1, <1>3 DEF NamesKept, Advances, Same
<1>5. cmd'.cluster = cmd.cluster
  BY DEF Advances, Same
<1>6. \A c : NameOf(c)' = NameOf(c)
  BY DEF NameOf
<1> QED
  BY <1>4, <1>5, <1>6 DEF NamesKept

LEMMA AdvancesInv ==
  ASSUME Inv, Running, Advances, UNCHANGED <<scope, number>>, cmd.faulted => cmd'.faulted,
         TypeOK', NamesKept', (\A c \in joined : Usable(c))',
         cmd.op = "join" /\ ~cmd.options.dryRun =>
           \A x \in StepNames : Did(x) \/ x = Head(cmd.todo) => Did(x)',
         cmd.op = "unjoin" =>
           /\ joined' = joined
           /\ kfc[cmd.cluster] = None => kfc'[cmd.cluster] = None
           /\ ~cmd.options.dryRun /\ ~cmd'.faulted =>
                \A x \in StepNames :
                  ((\E i \in 1 .. Passed : x = Steps[i]) /\ Undid(x)) \/ x = Head(cmd.todo) => Undid(x)'
  PROVE  Inv'
<1>1. Given /\ TypeOK /\ JoinKept /\ UnjoinKept /\ Completes
  BY IsGiven DEF Inv
<1>2. Given'
  BY <1>1, Advanced
<1>3. CASE cmd.op = "join"
  <2>1. JoinKept' /\ UnjoinKept'
    BY <1>1, <1>3, JoinAdvances
  <2>2. Completes'
    BY <1>1, <1>3 DEF Completes, Advances, Same
  <2> QED
    BY <1>2, <2>1, <2>2 DEF Inv
<1>4. CASE cmd.op = "unjoin"
  <2>1. JoinKept' /\ UnjoinKept'
    BY <1>1, <1>4, UnjoinAdvances
  <2>2. Completes'
    BY <1>1, <1>4 DEF Completes, Advances, Same
  <2> QED
    BY <1>2, <2>1, <2>2 DEF Inv
<1> QED
  BY <1>1, <1>3, <1>4 DEF Given, Command

\* A command that only ends changes nothing else.
LEMMA EndsInv ==
  ASSUME Inv, Running, Ends, UNCHANGED <<scope, member, host, number, joined>>,
         cmd.faulted => cmd'.faulted,
         \/ cmd'.faulted \/ cmd.options.dryRun
         \/ cmd.op = "join" /\ (cmd.options.errorOnExisting \/ cmd.options.named)
         \/ cmd.op = "unjoin" /\ (cmd.options.force => kfc[cmd.cluster] = None)
  PROVE  Inv'
<1>1. Given /\ TypeOK /\ NamesKept /\ UnjoinKept /\ Completes
  BY IsGiven DEF Inv
<1>2. Given' /\ ~Running'
  BY <1>1, EndsGiven
<1>3. TypeOK'
  BY <1>1, CommandTypes DEF Ends
<1>4. JoinKept' /\ UnjoinKept'
  BY <1>1, EndsKept
<1>5. NamesKept'
  <2>1. \A c : NameOf(c)' = NameOf(c)
    BY DEF NameOf
  <2> QED
    BY <1>1, <1>2, <2>1 DEF NamesKept, Ends, Same, member, host
<1>6. (\A c \in joined : Usable(c))'
  BY DEF Inv, Usable, Rights, member, host
<1>7. Completes'
  <2>1. cmd'.op = cmd.op /\ cmd'.cluster = cmd.cluster /\ cmd'.options = cmd.options
    BY DEF Ends, Same
  <2>2. kfc' = kfc
    BY DEF host
  <2>3. cmd.op \in {"join", "unjoin"}
    BY <1>1 DEF Given, Command
  <2> QED
    BY <2>1, <2>2, <2>3 DEF Completes
<1> QED
  BY <1>2, <1>3, <1>4, <1>5, <1>6, <1>7 DEF Inv

\* A step of the cluster, or of a command that stays where it is.
LEMMA StaysInv ==
  ASSUME Inv, UNCHANGED <<scope, cmd, number, joined>>, TypeOK', NamesKept',
         (\A c \in joined : Usable(c))',
         JoinKept', cmd.op = "unjoin" => \A x \in StepNames : Undid(x) => Undid(x)',
         kfc[cmd.cluster] = None => kfc'[cmd.cluster] = None
  PROVE  Inv'
<1>1. Steps' = Steps /\ Passed' = Passed /\ (Given => Given')
  BY DEF Steps, Passed, Given, JoinSteps, Authorize, Command
<1>2. cmd.op = "unjoin" => Given
  BY DEF Inv, Idle
<1>3. cmd.op = "unjoin" => \A i \in 1 .. Passed : Steps[i] \in StepNames
  BY <1>2, StepsTypes DEF Inv
<1>4. UnjoinKept'
  <2> SUFFICES ASSUME cmd.op = "unjoin", ~cmd.options.dryRun PROVE UnjoinKept'
    BY DEF UnjoinKept
  <2>1. cmd.cluster \notin joined
    BY DEF Inv, UnjoinKept
  <2>2. ASSUME cmd.ok, ~cmd.faulted, NEW i \in 1 .. Passed PROVE Undid(Steps[i])'
    <3>1. PICK x \in StepNames : x = Steps[i]
      BY <1>3
    <3>2. Undid(x)
      BY <2>2, <3>1 DEF Inv, UnjoinKept
    <3>3. Undid(x)' /\ x = Steps'[i]
      BY <1>1, <3>1, <3>2
    <3> QED
      BY <3>3 DEF Undid
  <2> QED
    BY <1>1, <2>1, <2>2 DEF UnjoinKept
<1>5. Completes'
  BY DEF Completes, Inv
<1> QED
  BY <1>1, <1>4, <1>5 DEF Inv

-----------------------------------------------------------------------------
(* The commands, and what happens beside them                              *)

LEMMA InitInv == Init => Inv
<1> SUFFICES ASSUME Init PROVE Inv
  OBVIOUS
<1>1. TypeOK
  <2>1. PICK l \in Leftovers :
          rbac = [c \in Clusters |->
                    LET there == IF ns[c] = "active" THEN l ELSE l \ InNamespace
                    IN  [k \in Kinds |-> IF k \in there THEN "stale" ELSE "absent"]]
    BY DEF Init
  <2>2. rbac \in [Clusters -> [Kinds -> {"absent", "stale", "current"}]]
    BY <2>1
  <2>3. \A c \in Clusters : ns[c] = "absent" => \A k \in InNamespace : rbac[c][k] = "absent"
    BY <2>1 DEF Kinds
  <2>4. /\ cmd.op \in {"join", "unjoin", "none"} /\ cmd.cluster \in Clusters
        /\ {cmd.ok, cmd.faulted} \subseteq BOOLEAN
        /\ cmd.uid \in 0 .. MaxCommands /\ cmd.secret \in Names \cup {None}
    BY RegistrationAssumption DEF Init, Idle
  <2>5. 0 \in 0 .. MaxCommands
    BY RegistrationAssumption
  <2> QED
    BY <2>2, <2>3, <2>4, <2>5 DEF Init, TypeOK
<1>2. NamesKept
  BY RegistrationAssumption DEF Init, NamesKept, NameOf, Idle, Running
<1> QED
  BY <1>1, <1>2 DEF Init, Inv, JoinKept, UnjoinKept, Completes, Idle

\* A command that is given has passed no step.
LEMMA GiveInv ==
  ASSUME Inv, NEW op \in {"join", "unjoin"}, NEW c \in Clusters, NEW o, NEW steps,
         op = "join" => o \in JoinOptions /\ steps = JoinSteps /\ joined' = joined,
         op = "unjoin" => /\ o \in UnjoinOptions /\ steps = UnjoinSteps(o)
                          /\ joined' = IF o.dryRun THEN joined ELSE joined \ {c},
         Give(op, c, o, steps)
  PROVE  Inv'
<1>1. TypeOK /\ NamesKept /\ \A d \in joined : Usable(d)
  BY DEF Inv
<1>2. steps \in Seq(StepNames) /\ Len(steps) \in Nat
  BY <1>1, JoinOrder, UnjoinOrder
<1>3. /\ cmd' = [op |-> op, cluster |-> c, options |-> o, todo |-> steps, ok |-> TRUE,
                 faulted |-> FALSE, uid |-> 0, secret |-> None]
      /\ number' = number + 1 /\ number < MaxCommands /\ UNCHANGED <<scope, ns, sa, token, rbac, secrets, kfc>>
  BY DEF Give, member, host
<1>4. number \in Nat /\ MaxCommands \in Nat
  BY <1>1, RegistrationAssumption DEF TypeOK
<1>5. /\ cmd'.op = op /\ cmd'.cluster = c /\ cmd'.options = o /\ cmd'.todo = steps /\ cmd'.ok = TRUE
      /\ cmd'.faulted = FALSE /\ cmd'.uid = 0 /\ cmd'.secret = None
  BY <1>3
<1>6. cmd' \in Command
  <2>1. o \in JoinOptions \cup UnjoinOptions /\ None \in Names \cup {None} /\ 0 \in 0 .. MaxCommands
    BY <1>4
  <2> QED
    BY <1>2, <1>3, <2>1 DEF Command
<1>7. Steps' = steps
  BY <1>3, <1>5 DEF Steps, JoinSteps, Authorize
<1>8. Passed' = 0
  BY <1>2, <1>5, <1>7 DEF Passed
<1>9. Given'
  <2>1. Suffix(steps, steps)
    BY <1>2 DEF Suffix
  <2>2. Command' = Command
    BY DEF Command
  <2> QED
    BY <1>3, <1>4, <1>5, <1>6, <1>7, <2>1 DEF Given
<1>10. TypeOK'
  <2>1. joined' \subseteq Clusters
    BY <1>1 DEF TypeOK
  <2>2. number' \in 0 .. MaxCommands
    BY <1>3, <1>4
  <2>3. cmd'.uid \in 0 .. MaxCommands /\ cmd'.secret \in Names \cup {None}
    BY <1>4, <1>5
  <2>4. Names' = Names
    BY DEF Names
  <2> QED
    BY <1>1, <1>3, <1>5, <2>1, <2>2, <2>3, <2>4 DEF TypeOK
<1>11. NamesKept'
  <2>1. \A d : NameOf(d)' = NameOf(d)
    BY DEF NameOf
  <2>2. \A s \in secrets : s.name[2] \in Int
    BY <1>1 DEF TypeOK, Names
  <2>3. \A s \in secrets : s.name[2] <= number' /\ s.name[2] # number'
    BY <1>1, <1>3, <1>4, <2>2 DEF NamesKept
  <2>4. cmd'.secret \in NameOf(cmd'.cluster)
    BY <1>5 DEF NameOf
  <2> QED
    BY <1>1, <1>3, <2>1, <2>3, <2>4 DEF NamesKept
<1>12. (\A d \in joined : Usable(d))'
  <2>1. joined' \subseteq joined
    OBVIOUS
  <2> QED
    BY <1>1, <1>3, <2>1 DEF Usable, Rights
<1>13. JoinKept'
  BY <1>8 DEF JoinKept
<1>14. UnjoinKept'
  BY <1>5, <1>8 DEF UnjoinKept
<1>15. Completes'
  BY <1>5 DEF Completes
<1> QED
  BY <1>9, <1>10, <1>11, <1>12, <1>13, <1>14, <1>15 DEF Inv

LEMMA JoinInv ==
  ASSUME Inv, NEW c \in Clusters, Join(c)
  PROVE  Inv'
<1>1. PICK o \in JoinOptions : Give("join", c, o, JoinSteps) /\ joined' = joined
  BY DEF Join
<1> QED
  BY <1>1, GiveInv

LEMMA UnjoinInv ==
  ASSUME Inv, NEW c \in Clusters, Unjoin(c)
  PROVE  Inv'
<1>1. PICK o \in UnjoinOptions :
        /\ Give("unjoin", c, o, UnjoinSteps(o))
        /\ joined' = IF o.dryRun THEN joined ELSE joined \ {c}
  BY DEF Unjoin
<1> QED
  BY <1>1, GiveInv

LEMMA TokenIssuedInv ==
  ASSUME Inv, NEW c \in Clusters, TokenIssued(c)
  PROVE  Inv'
<1>1. UNCHANGED <<scope, ns, sa, rbac, secrets, kfc, cmd, number, joined>>
  BY DEF TokenIssued, host
<1>2. TypeOK'
  BY <1>1 DEF TokenIssued, Inv, TypeOK, Names
<1>3. Steps' = Steps /\ Passed' = Passed
  BY <1>1 DEF Steps, Passed, JoinSteps, Authorize
<1>4. NamesKept'
  BY <1>1, <1>3 DEF Inv, NamesKept, NameOf, Running
<1>5. (\A d \in joined : Usable(d))'
  BY <1>1 DEF Inv, Usable, Rights
<1>6. JoinKept'
  BY <1>1, <1>3 DEF Inv, JoinKept, Running, Did
<1>7. \A x \in StepNames : Undid(x) => Undid(x)'
  BY <1>1 DEF Undid
<1> QED
  BY <1>1, <1>2, <1>4, <1>5, <1>6, <1>7, StaysInv

\* Neither the host's namespace goes, nor that of a join that has passed the account.
LEMMA NamespaceGoneInv ==
  ASSUME Inv, NEW c \in Clusters, NamespaceGone(c)
  PROVE  Inv'
<1>1. TypeOK /\ NamesKept /\ c # HostCluster
  BY DEF Inv, NamesKept, NamespaceGone
<1>2. /\ UNCHANGED <<scope, secrets, kfc, cmd, number, joined>> /\ ns[c] = "terminating"
      /\ ns' = [ns EXCEPT ![c] = "absent"] /\ sa' = [sa EXCEPT ![c] = 0]
      /\ token' = [token EXCEPT ![c] = 0]
      /\ rbac' = [rbac EXCEPT ![c] = [k \in Kinds |-> IF k \in InNamespace THEN "absent" ELSE rbac[c][k]]]
  BY <1>1 DEF NamespaceGone, host
<1>3. /\ ns'[c] = "absent" /\ sa'[c] = 0
      /\ \A k \in Kinds : rbac'[c][k] = IF k \in InNamespace THEN "absent" ELSE rbac[c][k]
      /\ \A d \in Clusters \ {c} : ns'[d] = ns[d] /\ sa'[d] = sa[d] /\ rbac'[d] = rbac[d]
  BY <1>1, <1>2 DEF TypeOK
<1>4. TypeOK'
  <2>1. 0 \in 0 .. MaxCommands
    BY RegistrationAssumption
  <2>2. /\ ns' \in [Clusters -> {"absent", "active", "terminating"}]
        /\ sa' \in [Clusters -> 0 .. MaxCommands] /\ token' \in [Clusters -> 0 .. MaxCommands]
    BY <1>1, <1>2, <2>1 DEF TypeOK
  <2>3. rbac[c] \in [Kinds -> {"absent", "stale", "current"}]
    BY <1>1 DEF TypeOK
  <2>4. rbac' \in [Clusters -> [Kinds -> {"absent", "stale", "current"}]]
    BY <1>1, <1>2, <2>3 DEF TypeOK
  <2>5. \A d \in Clusters : ns'[d] = "absent" => sa'[d] = 0 /\ \A k \in InNamespace : rbac'[d][k] = "absent"
    BY <1>1, <1>3 DEF TypeOK, Kinds
  <2> QED
    BY <1>1, <1>2, <2>2, <2>4, <2>5 DEF TypeOK, Names
<1>5. Steps' = Steps /\ Passed' = Passed
  BY <1>2 DEF Steps, Passed, JoinSteps, Authorize
<1>6. NamesKept'
  <2>1. ns'[HostCluster] = "active"
    BY <1>1, <1>3, RegistrationAssumption DEF NamesKept
  <2> QED
    BY <1>1, <1>2, <1>5, <2>1 DEF NamesKept, NameOf, Running
<1>7. (\A d \in joined : Usable(d))'
  <2>1. \A d \in joined : d \in Clusters \ {c} /\ Usable(d)
    BY <1>1, <1>2 DEF Inv, Usable, TypeOK
  <2>2. ASSUME NEW d \in joined PROVE Usable(d)'
    <3>1. d \in Clusters \ {c} /\ Usable(d)
      BY <2>1
    <3>2. ns'[d] = ns[d] /\ sa'[d] = sa[d] /\ rbac'[d] = rbac[d]
      BY <1>3, <3>1
    <3> QED
      BY <1>2, <3>1, <3>2 DEF Usable, Rights
  <2> QED
    BY <1>2, <2>2
<1>8. JoinKept'
  <2> SUFFICES ASSUME Running, cmd.op = "join", ~cmd.options.dryRun, NEW i \in 1 .. Passed
               PROVE  Did(Steps[i])'
    BY <1>2, <1>5 DEF JoinKept, Running
  <2>1. Given /\ Steps = JoinSteps /\ Passed \in 0 .. Len(Steps) /\ Len(Steps) \in Nat
    BY <1>1, IsGiven, StepsTypes DEF Steps
  <2>2. \A j \in 1 .. Passed : Did(Steps[j])
    BY DEF Inv, JoinKept
  <2>3. cmd.cluster \in Clusters
    BY <1>1 DEF TypeOK
  <2>4. CASE Steps[i] \in Kinds \cup {"ServiceAccount", "token", "secret"}
    <3>1. i \in 1 .. Len(JoinSteps)
      BY <2>1
    <3>2. PICK j \in 1 .. i : JoinSteps[j] = "ServiceAccount"
      BY <1>1, <2>1, <2>4, <3>1, JoinOrder
    <3>3. j \in 1 .. Passed
      BY <2>1
    <3>4. cmd.cluster # c
      BY <1>2, <2>1, <2>2, <3>2, <3>3 DEF Did
    <3>5. /\ ns'[cmd.cluster] = ns[cmd.cluster] /\ sa'[cmd.cluster] = sa[cmd.cluster]
          /\ rbac'[cmd.cluster] = rbac[cmd.cluster]
      BY <1>3, <2>3, <3>4
    <3> QED
      BY <1>2, <1>5, <2>2, <3>5 DEF Did
  <2>5. CASE Steps[i] \notin Kinds \cup {"ServiceAccount", "token", "secret"}
    BY <1>5, <2>5 DEF Did
  <2> QED
    BY <2>4, <2>5
<1>9. \A x \in StepNames : Undid(x) => Undid(x)'
  <2>1. cmd.cluster \in Clusters
    BY <1>1 DEF TypeOK
  <2> QED
    BY <1>2, <1>3, <2>1 DEF Undid
<1> QED
  BY <1>2, <1>4, <1>6, <1>7, <1>8, <1>9, StaysInv

LEMMA InterruptedInv ==
  ASSUME Inv, Interrupted
  PROVE  Inv'
<1>1. Running /\ Given /\ Rejected /\ UNCHANGED <<scope, member, host, number, joined>>
  BY IsGiven DEF Interrupted
<1>2. Ends /\ cmd'.faulted
  BY <1>1, Moves
<1> QED
  BY <1>1, <1>2, EndsInv

-----------------------------------------------------------------------------
(* Steps that find their work done                                         *)

LEMMA QuietInv ==
  ASSUME Inv, Running, Advances, UNCHANGED <<scope, member, host, number, joined>>,
         cmd'.uid = cmd.uid, cmd'.secret = cmd.secret, cmd.faulted => cmd'.faulted,
         cmd.op = "join" /\ ~cmd.options.dryRun => Did(Head(cmd.todo)),
         cmd.op = "unjoin" /\ ~cmd.options.dryRun /\ ~cmd'.faulted => Undid(Head(cmd.todo))
  PROVE  Inv'
<1>1. Given /\ TypeOK /\ NamesKept
  BY IsGiven DEF Inv
<1>2. UNCHANGED <<scope, ns, sa, token, rbac, secrets, kfc, number, joined>>
  BY DEF member, host
<1>3. TypeOK'
  BY <1>1, CommandTypes DEF Advances
<1>4. NamesKept'
  BY <1>1, <1>2, NamesAdvance DEF NamesKept
<1>5. (\A c \in joined : Usable(c))'
  BY <1>2 DEF Inv, Usable, Rights
<1>6. cmd'.cluster = cmd.cluster
  BY DEF Advances, Same
<1>7. \A x \in StepNames : (Did(x) => Did(x)') /\ (Undid(x) => Undid(x)')
  BY <1>2, <1>6 DEF Did, Undid
<1> QED
  BY <1>2, <1>3, <1>4, <1>5, <1>7, AdvancesInv

LEMMA DryRunInv ==
  ASSUME Inv, NEW op \in {"join", "unjoin"}, DryRun(op)
  PROVE  Inv'
<1>1. /\ Running /\ Given /\ Done /\ cmd.options.dryRun
      /\ UNCHANGED <<scope, member, host, number, joined>>
  BY IsGiven DEF DryRun
<1>2. Advances /\ cmd'.faulted = cmd.faulted /\ cmd'.uid = cmd.uid /\ cmd'.secret = cmd.secret
  BY <1>1, Moves
<1> QED
  BY <1>1, <1>2, QuietInv

LEMMA ForcedOnInv ==
  ASSUME Inv, ForcedOn
  PROVE  Inv'
<1>1. /\ Running /\ Given /\ cmd' = [cmd EXCEPT !.todo = Tail(@), !.faulted = TRUE]
      /\ UNCHANGED <<scope, member, host, number, joined>> /\ cmd.op = "unjoin"
  BY IsGiven DEF ForcedOn
<1>2. Advances /\ cmd'.faulted /\ cmd'.uid = cmd.uid /\ cmd'.secret = cmd.secret
  BY <1>1, Moves
<1> QED
  BY <1>1, <1>2, QuietInv

LEMMA PreflightInv ==
  ASSUME Inv, performPreflightChecks(cmd.cluster)
  PROVE  Inv'
<1>1. /\ Running /\ Given /\ cmd.op = "join" /\ Head(cmd.todo) = "preflight"
      /\ UNCHANGED <<scope, member, host, number, joined>>
  BY IsGiven DEF performPreflightChecks, At
<1>2. CASE Done
  <2>1. Advances /\ cmd'.faulted = cmd.faulted /\ cmd'.uid = cmd.uid /\ cmd'.secret = cmd.secret
    BY <1>1, <1>2, Moves
  <2>2. Did(Head(cmd.todo))
    BY <1>1 DEF Did, Kinds, InNamespace
  <2> QED
    BY <1>1, <2>1, <2>2, QuietInv
<1>3. CASE Error /\ cmd.options.errorOnExisting
  <2>1. Ends /\ cmd'.faulted = cmd.faulted
    BY <1>1, <1>3, Moves
  <2> QED
    BY <1>1, <1>3, <2>1, EndsInv
<1> QED
  BY <1>2, <1>3 DEF performPreflightChecks, Existing

-----------------------------------------------------------------------------
(* The steps of a join                                                     *)

LEMMA NamespaceInv ==
  ASSUME Inv, createKubeFedNamespace(cmd.cluster)
  PROVE  Inv'
<1> DEFINE c == cmd.cluster
<1>1. /\ Running /\ Given /\ cmd.op = "join" /\ Head(cmd.todo) = "namespace" /\ Done
      /\ UNCHANGED <<scope, sa, token, rbac, secrets, kfc, number, joined>>
      /\ ns' = [ns EXCEPT ![c] = IF ns[c] = "absent" THEN "active" ELSE ns[c]]
  BY IsGiven DEF createKubeFedNamespace, Writes, At, host
<1>2. Advances /\ cmd'.faulted = cmd.faulted /\ cmd'.uid = cmd.uid /\ cmd'.secret = cmd.secret
  BY <1>1, Moves
<1>3. TypeOK /\ NamesKept /\ c \in Clusters /\ cmd'.cluster = c
  BY <1>2 DEF Inv, TypeOK, Advances, Same
<1>4. \A d \in Clusters : /\ ns[d] # "absent" => ns'[d] = ns[d]
                          /\ ns'[d] # "absent" \/ ns[d] = "absent"
  BY <1>1, <1>3 DEF TypeOK
<1>5. TypeOK'
  <2>1. ns' \in [Clusters -> {"absent", "active", "terminating"}]
    BY <1>1, <1>3 DEF TypeOK
  <2>2. /\ cmd'.op \in {"join", "unjoin", "none"} /\ cmd'.cluster \in Clusters
        /\ {cmd'.ok, cmd'.faulted} \subseteq BOOLEAN
        /\ cmd'.uid \in 0 .. MaxCommands /\ cmd'.secret \in Names \cup {None}
    BY <1>2 DEF Advances, Command
  <2> QED
    BY <1>1, <1>3, <1>4, <2>1, <2>2 DEF TypeOK, Names
<1>6. ns'[HostCluster] = "active"
  BY <1>3, <1>4, RegistrationAssumption DEF NamesKept
<1>7. NamesKept'
  BY <1>1, <1>2, <1>3, <1>6, NamesAdvance DEF NamesKept
<1>8. (\A d \in joined : Usable(d))'
  <2>1. ASSUME NEW d \in joined PROVE Usable(d)'
    <3>1. Usable(d) /\ d \in Clusters
      BY <1>3 DEF Inv, TypeOK
    <3>2. ns'[d] = "active" /\ [name |-> kfc[d], uid |-> sa[d]] \in secrets
      BY <1>4, <3>1 DEF Usable
    <3> QED
      BY <1>1, <3>1, <3>2, UsableKept
  <2> QED
    BY <1>1, <2>1
<1>9. \A x \in StepNames : Did(x) \/ x = Head(cmd.todo) => Did(x)'
  BY <1>1, <1>2, <1>3, <1>4 DEF Did, Kinds, InNamespace
<1> QED
  BY <1>1, <1>2, <1>5, <1>7, <1>8, <1>9, AdvancesInv

LEMMA ServiceAccountInv ==
  ASSUME Inv, createServiceAccount(cmd.cluster)
  PROVE  Inv'
<1> DEFINE c == cmd.cluster
<1>1. /\ Running /\ Given /\ cmd.op = "join" /\ Head(cmd.todo) = "ServiceAccount"
      /\ UNCHANGED <<scope, ns, token, rbac, secrets, kfc, number, joined>>
  BY IsGiven DEF createServiceAccount, Writes, At, host
<1>2. CASE Rejected /\ UNCHANGED sa
  <2>1. Ends /\ cmd'.faulted
    BY <1>1, <1>2, Moves
  <2> QED
    BY <1>1, <1>2, <2>1, EndsInv DEF member, host
<1>3. CASE Error /\ cmd.options.errorOnExisting /\ UNCHANGED sa
  <2>1. Ends /\ cmd'.faulted = cmd.faulted
    BY <1>1, <1>3, Moves
  <2> QED
    BY <1>1, <1>3, <2>1, EndsInv DEF member, host
<1>4. CASE Done /\ ns[c] = "active" /\ sa[c] # 0 /\ UNCHANGED sa
  <2>1. Advances /\ cmd'.faulted = cmd.faulted /\ cmd'.uid = cmd.uid /\ cmd'.secret = cmd.secret
    BY <1>1, <1>4, Moves
  <2>2. Did(Head(cmd.todo))
    BY <1>1, <1>4 DEF Did, Kinds, InNamespace
  <2> QED
    BY <1>1, <1>4, <2>1, <2>2, QuietInv DEF member, host
<1>5. CASE ns[c] = "active" /\ sa[c] = 0 /\ Done /\ sa' = [sa EXCEPT ![c] = number]
  <2>1. Advances /\ cmd'.faulted = cmd.faulted /\ cmd'.uid = cmd.uid /\ cmd'.secret = cmd.secret
    BY <1>1, <1>5, Moves
  <2>2. TypeOK /\ NamesKept /\ c \in Clusters /\ cmd'.cluster = c
    BY <2>1 DEF Inv, TypeOK, Advances, Same
  <2>3. number \in 0 .. MaxCommands /\ number # 0
    BY <1>1, <2>2 DEF Given, TypeOK
  <2>4. sa'[c] = number /\ \A d \in Clusters : d # c => sa'[d] = sa[d]
    BY <1>5, <2>2 DEF TypeOK
  <2>5. TypeOK'
    <3>1. sa' \in [Clusters -> 0 .. MaxCommands]
      BY <1>5, <2>2, <2>3 DEF TypeOK
    <3>2. /\ cmd'.op \in {"join", "unjoin", "none"} /\ cmd'.cluster \in Clusters
          /\ {cmd'.ok, cmd'.faulted} \subseteq BOOLEAN
          /\ cmd'.uid \in 0 .. MaxCommands /\ cmd'.secret \in Names \cup {None}
      BY <2>1 DEF Advances, Command
    <3>3. \A d \in Clusters : ns[d] = "absent" => sa'[d] = 0
      BY <1>5, <2>2, <2>4 DEF TypeOK
    <3> QED
      BY <1>1, <2>2, <3>1, <3>2, <3>3 DEF TypeOK, Names
  <2>6. NamesKept'
    BY <1>1, <2>1, <2>2, NamesAdvance DEF NamesKept
  <2>7. (\A d \in joined : Usable(d))'
    <3>1. ASSUME NEW d \in joined PROVE Usable(d)'
      <4>1. Usable(d) /\ d \in Clusters
        BY <2>2 DEF Inv, TypeOK
      <4>2. ns[d] = "active" /\ [name |-> kfc[d], uid |-> sa[d]] \in secrets /\ sa'[d] = sa[d]
        BY <1>5, <2>4, <4>1 DEF Usable
      <4> QED
        BY <1>1, <4>1, <4>2, UsableKept
    <3> QED
      BY <1>1, <3>1
  <2>8. \A x \in StepNames : Did(x) \/ x = Head(cmd.todo) => Did(x)'
    BY <1>1, <1>5, <2>1, <2>2, <2>3, <2>4 DEF Did, Kinds, InNamespace
  <2> QED
    BY <1>1, <2>1, <2>5, <2>6, <2>7, <2>8, AdvancesInv
<1> QED
  BY <1>2, <1>3, <1>4, <1>5 DEF createServiceAccount, Existing

LEMMA PutInv ==
  ASSUME Inv, Running, Given, NEW k \in Kinds, NEW v \in {"absent", "current"},
         cmd.op = "join", Head(cmd.todo) = k,
         rbac[cmd.cluster][k] = "current" => v = "current",
         Put(cmd.cluster, k, v), UNCHANGED <<scope, ns, sa, token, secrets, kfc, number, joined>>
  PROVE  Inv'
<1> DEFINE c == cmd.cluster
<1>1. TypeOK /\ NamesKept /\ JoinKept /\ c \in Clusters
  BY DEF Inv, TypeOK
<1>2. CASE v = "current" /\ rbac[c][k] = "absent" /\ k \in InNamespace /\ ns[c] # "active"
  <2>1. Rejected /\ UNCHANGED rbac
    BY <1>2 DEF Put
  <2>2. Ends /\ cmd'.faulted
    BY <2>1, Moves
  <2> QED
    BY <2>1, <2>2, EndsInv DEF member, host
<1>3. CASE ~(v = "current" /\ rbac[c][k] = "absent" /\ k \in InNamespace /\ ns[c] # "active")
  <2>1. rbac' = [rbac EXCEPT ![c][k] = v] /\ IF v = "current" THEN Done ELSE UNCHANGED cmd
    BY <1>3 DEF Put
  <2>2. rbac[c] \in [Kinds -> {"absent", "stale", "current"}]
    BY <1>1 DEF TypeOK
  <2>3. /\ rbac'[c][k] = v /\ \A j \in Kinds : j # k => rbac'[c][j] = rbac[c][j]
        /\ \A d \in Clusters : d # c => rbac'[d] = rbac[d]
    BY <1>1, <2>1, <2>2 DEF TypeOK
  <2>4. rbac' \in [Clusters -> [Kinds -> {"absent", "stale", "current"}]]
    BY <1>1, <2>1, <2>2 DEF TypeOK
  <2>5. \A d \in Clusters : ns[d] = "absent" => \A j \in InNamespace : rbac'[d][j] = "absent"
    BY <1>1, <1>3, <2>3 DEF TypeOK, Kinds
  <2>6. \A d \in Clusters, j \in Kinds : rbac[d][j] = "current" => rbac'[d][j] = "current"
    BY <2>3
  <2>7. (\A d \in joined : Usable(d))'
    <3>1. ASSUME NEW d \in joined PROVE Usable(d)'
      <4>1. Usable(d) /\ d \in Clusters
        BY <1>1 DEF Inv, TypeOK
      <4>2. ns[d] = "active" /\ [name |-> kfc[d], uid |-> sa[d]] \in secrets
        BY <4>1 DEF Usable
      <4>3. \A j \in Rights : rbac[d][j] = "current" => rbac'[d][j] = "current"
        BY <2>6, <4>1 DEF Rights, Kinds, InNamespace
      <4> QED
        BY <4>1, <4>2, <4>3, UsableKept
    <3> QED
      BY <3>1
  <2>8. CASE v = "current"
    <3>1. Done
      BY <2>1, <2>8
    <3>2. Advances /\ cmd'.faulted = cmd.faulted /\ cmd'.uid = cmd.uid /\ cmd'.secret = cmd.secret
      BY <3>1, Moves
    <3>3. cmd'.cluster = c
      BY <3>2 DEF Advances, Same
    <3>4. TypeOK'
      <4>1. /\ cmd'.op \in {"join", "unjoin", "none"} /\ cmd'.cluster \in Clusters
            /\ {cmd'.ok, cmd'.faulted} \subseteq BOOLEAN
            /\ cmd'.uid \in 0 .. MaxCommands /\ cmd'.secret \in Names \cup {None}
        BY <3>2 DEF Advances, Command
      <4> QED
        BY <1>1, <2>4, <2>5, <4>1 DEF TypeOK, Names
    <3>5. NamesKept'
      BY <1>1, <3>2, NamesAdvance DEF NamesKept
    <3>6. \A x \in StepNames : Did(x) \/ x = Head(cmd.todo) => Did(x)'
      BY <1>1, <2>3, <2>6, <2>8, <3>2, <3>3 DEF Did, Kinds, InNamespace
    <3> QED
      BY <2>7, <3>2, <3>4, <3>5, <3>6, AdvancesInv
  <2>9. CASE v # "current"
    <3>1. UNCHANGED cmd
      BY <2>1, <2>9
    <3>2. TypeOK'
      BY <1>1, <2>4, <2>5, <3>1 DEF TypeOK, Names
    <3>3. Steps' = Steps /\ Passed' = Passed
      BY <3>1 DEF Steps, Passed, JoinSteps, Authorize
    <3>4. NamesKept'
      BY <1>1, <3>1, <3>3 DEF NamesKept, NameOf, Running
    <3>5. JoinKept'
      <4>1. \A x : Did(x) => Did(x)'
        BY <1>1, <2>6, <3>1 DEF Did
      <4> QED
        BY <1>1, <3>1, <3>3, <4>1 DEF JoinKept, Running, Did
    <3> QED
      BY <2>7, <3>1, <3>2, <3>4, <3>5, StaysInv
  <2> QED
    BY <2>8, <2>9
<1> QED
  BY <1>2, <1>3

\* An object that exists may end a join that is to find none.
LEMMA ExistingInv ==
  ASSUME Inv, Running, Given, cmd.op = "join", cmd.options.errorOnExisting, Error,
         UNCHANGED <<scope, member, host, number, joined>>
  PROVE  Inv'
<1>1. Ends /\ cmd'.faulted = cmd.faulted
  BY Moves
<1> QED
  BY <1>1, EndsInv

LEMMA PutRoleInv ==
  ASSUME Inv, NEW k \in Kinds, PutRole(cmd.cluster, k)
  PROVE  Inv'
<1>1. /\ Running /\ Given /\ cmd.op = "join" /\ Head(cmd.todo) = k
      /\ UNCHANGED <<scope, ns, sa, token, secrets, kfc, number, joined>>
  BY IsGiven DEF PutRole, Writes, At, host
<1>2. CASE Error /\ cmd.options.errorOnExisting /\ UNCHANGED rbac
  BY <1>1, <1>2, ExistingInv DEF member, host
<1>3. CASE Put(cmd.cluster, k, "current")
  BY <1>1, <1>3, PutInv
<1> QED
  BY <1>2, <1>3 DEF PutRole

LEMMA PutBindingInv ==
  ASSUME Inv, NEW k \in Kinds, PutBinding(cmd.cluster, k)
  PROVE  Inv'
<1>1. /\ Running /\ Given /\ cmd.op = "join" /\ Head(cmd.todo) = k
      /\ UNCHANGED <<scope, ns, sa, token, secrets, kfc, number, joined>>
  BY IsGiven DEF PutBinding, Writes, At, host
<1>2. CASE Error /\ cmd.options.errorOnExisting /\ UNCHANGED rbac
  BY <1>1, <1>2, ExistingInv DEF member, host
<1>3. CASE Put(cmd.cluster, k, IF rbac[cmd.cluster][k] = "stale" THEN "absent" ELSE "current")
  <2>1. CASE rbac[cmd.cluster][k] = "stale"
    BY <1>1, <1>3, <2>1, PutInv
  <2>2. CASE rbac[cmd.cluster][k] # "stale"
    BY <1>1, <1>3, <2>2, PutInv
  <2> QED
    BY <2>1, <2>2
<1> QED
  BY <1>2, <1>3 DEF PutBinding

LEMMA TokenInv ==
  ASSUME Inv, Writes("join", "token"), sa[cmd.cluster] # 0, token[cmd.cluster] = sa[cmd.cluster],
         cmd' = [cmd EXCEPT !.todo = Tail(@), !.uid = token[cmd.cluster]],
         UNCHANGED <<scope, member, host, number, joined>>
  PROVE  Inv'
<1> DEFINE c == cmd.cluster
<1>1. Running /\ Given /\ cmd.op = "join" /\ Head(cmd.todo) = "token"
  BY IsGiven DEF Writes, At
<1>2. TypeOK /\ NamesKept /\ c \in Clusters
  BY DEF Inv, TypeOK
<1>3. token[c] \in 0 .. MaxCommands
  BY <1>2 DEF TypeOK
<1>4. Advances /\ cmd'.faulted = cmd.faulted /\ cmd'.uid = token[c] /\ cmd'.secret = cmd.secret
  BY <1>1, <1>3, Moves
<1>5. UNCHANGED <<scope, ns, sa, token, rbac, secrets, kfc, number, joined>> /\ cmd'.cluster = c
  BY <1>4 DEF member, host, Advances, Same
<1>6. TypeOK'
  BY <1>2, <1>4, CommandTypes DEF Advances
<1>7. NamesKept'
  BY <1>1, <1>2, <1>4, <1>5, NamesAdvance DEF NamesKept
<1>8. (\A d \in joined : Usable(d))'
  BY <1>5 DEF Inv, Usable, Rights
<1>9. \A x \in StepNames : Did(x) \/ x = Head(cmd.todo) => Did(x)'
  BY <1>1, <1>4, <1>5 DEF Did, Kinds, InNamespace
<1> QED
  BY <1>1, <1>4, <1>5, <1>6, <1>7, <1>8, <1>9, AdvancesInv

\* What a running join has passed.
LEMMA PassedSteps ==
  ASSUME Inv, Running, cmd.op = "join", ~cmd.options.dryRun
  PROVE  /\ Steps = JoinSteps /\ Passed \in 0 .. Len(JoinSteps) - 1
         /\ Head(cmd.todo) = JoinSteps[Passed + 1] /\ Passed + 1 \in 1 .. Len(JoinSteps)
         /\ \A i \in 1 .. Passed : Did(JoinSteps[i])
<1>1. Given /\ TypeOK /\ JoinKept /\ Steps = JoinSteps
  BY IsGiven DEF Inv, Steps
<1>2. JoinSteps \in Seq(StepNames) /\ Len(JoinSteps) \in Nat
  BY <1>1, JoinOrder
<1>3. /\ Len(JoinSteps) - Len(cmd.todo) \in 0 .. Len(JoinSteps) - 1
      /\ Head(cmd.todo) = JoinSteps[(Len(JoinSteps) - Len(cmd.todo)) + 1]
  <2>1. cmd.todo \in Seq(StepNames) /\ cmd.todo # << >> /\ Suffix(cmd.todo, JoinSteps)
    BY <1>1 DEF Given, Command, Running
  <2> QED
    BY <1>2, <2>1, SuffixTail
<1>4. Passed = Len(JoinSteps) - Len(cmd.todo)
  BY <1>1 DEF Passed
<1> HIDE DEF Passed
<1>5. Passed \in 0 .. Len(JoinSteps) - 1 /\ Head(cmd.todo) = JoinSteps[Passed + 1]
  BY <1>3, <1>4
<1> QED
  BY <1>1, <1>2, <1>5 DEF JoinKept

\* The secret is made once, so that its number is new, and after the token came.
LEMMA SecretInv ==
  ASSUME Inv, Writes("join", "secret"),
         CreateSecret(cmd.cluster, <<cmd.cluster, IF cmd.options.named THEN 0 ELSE number>>),
         UNCHANGED <<scope, member, kfc, number, joined>>
  PROVE  Inv'
<1> DEFINE c == cmd.cluster
           v == IF cmd.options.named THEN 0 ELSE number
           n == <<c, v>>
           r == [name |-> n, uid |-> cmd.uid]
<1>1. Running /\ Given /\ cmd.op = "join" /\ Head(cmd.todo) = "secret" /\ ~cmd.options.dryRun
  BY IsGiven DEF Writes, At
<1>2. TypeOK /\ NamesKept /\ c \in Clusters
  BY DEF Inv, TypeOK
<1>3. /\ Steps = JoinSteps /\ Passed \in 0 .. Len(JoinSteps) - 1
      /\ JoinSteps[Passed + 1] = "secret" /\ Passed + 1 \in 1 .. Len(JoinSteps)
      /\ \A i \in 1 .. Passed : Did(JoinSteps[i])
  BY <1>1, PassedSteps
<1>4. \A i \in 1 .. Passed : JoinSteps[i] # "secret"
  <2>1. Len(JoinSteps) \in Nat /\ \A i \in 1 .. Len(JoinSteps) : JoinSteps[i] = "secret" => i = Passed + 1
    BY <1>2, <1>3, JoinOrder
  <2> QED
    BY <1>3, <2>1
<1>5. cmd.uid # 0 /\ cmd.uid = sa[c]
  <2>1. PICK j \in 1 .. (Passed + 1) - 1 : JoinSteps[j] = "token"
    BY <1>2, <1>3, JoinOrder
  <2>2. j \in 1 .. Passed
    BY <1>3
  <2> QED
    BY <1>3, <2>1, <2>2 DEF Did
<1>6. number \in 0 .. MaxCommands /\ v \in 0 .. number /\ v \in 0 .. MaxCommands /\ number \in Nat
  BY <1>2, RegistrationAssumption DEF TypeOK
<1>7. n \in Names /\ n[2] = v /\ n \in NameOf(c)
  BY <1>2, <1>6 DEF Names, NameOf
<1>8. UNCHANGED <<scope, ns, sa, token, rbac, kfc, number, joined>>
  BY DEF member
<1>9. CASE \E s \in secrets : s.name = n
  <2>1. Error /\ UNCHANGED secrets
    BY <1>9 DEF CreateSecret
  <2>2. Ends /\ cmd'.faulted = cmd.faulted
    BY <1>1, <2>1, Moves
  <2>3. \A s \in secrets : s.name[2] # number
    BY <1>1, <1>2, <1>3, <1>4 DEF NamesKept
  <2>4. cmd.options.named
    BY <1>7, <1>9, <2>3
  <2> QED
    BY <1>1, <1>8, <2>1, <2>2, <2>4, EndsInv DEF member, host
<1>10. CASE ~ \E s \in secrets : s.name = n
  <2>1. secrets' = secrets \cup {r} /\ cmd' = [cmd EXCEPT !.todo = Tail(@), !.secret = n]
    BY <1>10 DEF CreateSecret
  <2>2. Advances /\ cmd'.faulted = cmd.faulted /\ cmd'.uid = cmd.uid /\ cmd'.secret = n
    BY <1>1, <1>7, <2>1, Moves
  <2>3. cmd'.cluster = c
    BY <2>2 DEF Advances, Same
  <2>4. /\ Steps' = JoinSteps /\ Passed' = Passed + 1
    BY <1>1, <1>2, <1>3, <1>8, <2>2, Advanced
  <2>5. TypeOK'
    <3>1. /\ cmd'.op \in {"join", "unjoin", "none"} /\ cmd'.cluster \in Clusters
          /\ {cmd'.ok, cmd'.faulted} \subseteq BOOLEAN
          /\ cmd'.uid \in 0 .. MaxCommands /\ cmd'.secret \in Names \cup {None}
      BY <2>2 DEF Advances, Command
    <3>2. cmd.uid \in 1 .. MaxCommands
      BY <1>2, <1>5 DEF TypeOK
    <3>3. r \in [name : Names, uid : 1 .. MaxCommands] /\ r.name = n
      BY <1>7, <3>2
    <3> HIDE DEF r, n
    <3>4. secrets' \subseteq [name : Names, uid : 1 .. MaxCommands]
      BY <1>2, <2>1, <3>3 DEF TypeOK
    <3>5. \A s, t \in secrets' : s.name = t.name => s = t
      BY <1>2, <1>10, <2>1, <3>3 DEF TypeOK
    <3> QED
      BY <1>2, <1>8, <3>1, <3>4, <3>5 DEF TypeOK, Names
  <2>6. NamesKept'
    <3>1. \A d : NameOf(d)' = NameOf(d)
      BY DEF NameOf
    <3>2. r.name[2] = v
      BY <1>7
    <3> HIDE DEF r, n, v
    <3>3. \A s \in secrets' : s.name[2] <= number
      BY <1>2, <1>6, <2>1, <3>2 DEF NamesKept
    <3>4. Passed + 1 \in 1 .. Passed'
      BY <1>3, <2>4
    <3>5. ~ \A i \in 1 .. Passed' : Steps'[i] # "secret"
      BY <1>3, <2>4, <3>4
    <3> QED
      BY <1>2, <1>7, <1>8, <2>2, <2>3, <3>1, <3>3, <3>5 DEF NamesKept
  <2>7. (\A d \in joined : Usable(d))'
    BY <1>8, <2>1 DEF Inv, Usable, Rights
  <2>8. [name |-> cmd'.secret, uid |-> sa[c]] \in secrets'
    BY <1>5, <2>1, <2>2
  <2> HIDE DEF r, n, v
  <2>9. \A x \in StepNames : Did(x) \/ x = Head(cmd.todo) => Did(x)'
    <3>1. ASSUME NEW x \in StepNames, Did(x), x # "secret" PROVE Did(x)'
      BY <1>8, <2>2, <2>3, <3>1 DEF Did
    <3>2. Did("secret")'
      BY <1>5, <1>8, <2>3, <2>8 DEF Did, Kinds, InNamespace
    <3>3. ASSUME NEW x \in StepNames, x = "secret" PROVE Did(x)'
      BY <3>2, <3>3
    <3> QED
      BY <1>1, <3>1, <3>3
  <2> QED
    BY <1>1, <1>8, <2>2, <2>5, <2>6, <2>7, <2>9, AdvancesInv
<1> QED
  BY <1>9, <1>10

LEMMA PopulateInv ==
  ASSUME Inv, populateSecretInHostCluster(cmd.cluster)
  PROVE  Inv'
<1>1. UNCHANGED <<scope, member, kfc, number, joined>>
  BY DEF populateSecretInHostCluster
<1>2. CASE /\ Writes("join", "token")
           /\ sa[cmd.cluster] # 0 /\ token[cmd.cluster] = sa[cmd.cluster]
           /\ cmd' = [cmd EXCEPT !.todo = Tail(@), !.uid = token[cmd.cluster]]
           /\ UNCHANGED secrets
  BY <1>1, <1>2, TokenInv DEF host
<1>3. CASE /\ Writes("join", "secret")
           /\ CreateSecret(cmd.cluster, <<cmd.cluster, IF cmd.options.named THEN 0 ELSE number>>)
  BY <1>1, <1>3, SecretInv
<1> QED
  BY <1>2, <1>3 DEF populateSecretInHostCluster

\* The KubeFedCluster is the last step: the secret is there, for the account there is.
LEMMA KubeFedClusterInv ==
  ASSUME Inv, createKubeFedCluster(cmd.cluster)
  PROVE  Inv'
<1> DEFINE c == cmd.cluster
<1>1. /\ Running /\ Given /\ cmd.op = "join" /\ Head(cmd.todo) = "KubeFedCluster"
      /\ ~cmd.options.dryRun /\ UNCHANGED <<scope, ns, sa, token, rbac, secrets, number>>
  BY IsGiven DEF createKubeFedCluster, Writes, At, member
<1>2. CASE Error /\ cmd.options.errorOnExisting /\ UNCHANGED <<kfc, joined>>
  BY <1>1, <1>2, ExistingInv DEF member, host
<1>3. CASE Done /\ kfc' = [kfc EXCEPT ![c] = cmd.secret] /\ joined' = joined \cup {c}
  <2>1. Advances /\ cmd'.faulted = cmd.faulted /\ cmd'.uid = cmd.uid /\ cmd'.secret = cmd.secret
    BY <1>1, <1>3, Moves
  <2>2. TypeOK /\ NamesKept /\ c \in Clusters /\ cmd'.cluster = c
    BY <2>1 DEF Inv, TypeOK, Advances, Same
  <2>3. /\ Steps = JoinSteps /\ Passed \in 0 .. Len(JoinSteps) - 1
        /\ JoinSteps[Passed + 1] = "KubeFedCluster" /\ Passed + 1 \in 1 .. Len(JoinSteps)
        /\ \A i \in 1 .. Passed : Did(JoinSteps[i])
    BY <1>1, PassedSteps
  <2>4. Len(JoinSteps) \in Nat /\ Passed + 1 = Len(JoinSteps)
    BY <2>2, <2>3, JoinOrder
  <2>5. \A k \in Rights \cup {"ServiceAccount", "token", "secret"} : Did(k)
    <3>1. ASSUME NEW k \in Rights \cup {"ServiceAccount", "token", "secret"} PROVE Did(k)
      <4>1. PICK i \in 1 .. Len(JoinSteps) - 1 : JoinSteps[i] = k
        BY <2>2, JoinOrder
      <4>2. i \in 1 .. Passed
        BY <2>3, <2>4
      <4> QED
        BY <2>3, <4>1, <4>2
    <3> QED
      BY <3>1
  <2>6. kfc'[c] = cmd.secret /\ \A d \in Clusters : d # c => kfc'[d] = kfc[d]
    BY <1>3, <2>2 DEF TypeOK
  <2>7. Usable(c)'
    <3>1. ns[c] = "active" /\ sa[c] # 0 /\ [name |-> cmd.secret, uid |-> sa[c]] \in secrets
      BY <2>5 DEF Did
    <3>2. \A k \in Rights : rbac[c][k] = "current"
      BY <2>5 DEF Did, Rights, Kinds, InNamespace
    <3>3. Rights' = Rights
      BY <1>1 DEF Rights
    <3> QED
      BY <1>1, <2>2, <2>6, <3>1, <3>2, <3>3 DEF Usable
  <2>8. (\A d \in joined : Usable(d))'
    <3>1. ASSUME NEW d \in joined, d # c PROVE Usable(d)'
      <4>1. d \in Clusters /\ Usable(d)
        BY <2>2 DEF Inv, TypeOK
      <4>2. kfc'[d] = kfc[d]
        BY <2>6, <3>1, <4>1
      <4> QED
        BY <1>1, <4>1, <4>2 DEF Usable, Rights
    <3> QED
      BY <1>3, <2>2, <2>7, <3>1
  <2>9. TypeOK'
    <3>1. /\ cmd'.op \in {"join", "unjoin", "none"} /\ cmd'.cluster \in Clusters
          /\ {cmd'.ok, cmd'.faulted} \subseteq BOOLEAN
          /\ cmd'.uid \in 0 .. MaxCommands /\ cmd'.secret \in Names \cup {None}
      BY <2>1 DEF Advances, Command
    <3>2. cmd.secret \in Names \cup {None}
      BY <2>2 DEF TypeOK
    <3>3. kfc' \in [Clusters -> Names \cup {None}]
      BY <1>3, <2>2, <3>2 DEF TypeOK
    <3>4. joined' \subseteq Clusters
      BY <1>3, <2>2 DEF TypeOK
    <3> QED
      BY <1>1, <2>2, <3>1, <3>3, <3>4 DEF TypeOK, Names
  <2>10. NamesKept'
    <3>1. \A d : NameOf(d)' = NameOf(d)
      BY DEF NameOf
    <3>2. Passed' = Passed + 1 /\ Steps' = Steps
      BY <1>1, <2>1, <2>2, Advanced
    <3>3. ~Running'
      <4>0. cmd'.todo \in Seq(StepNames)
        BY <2>1 DEF Advances, Command
      <4>1. cmd'.todo \in Seq(StepNames) /\ Len(cmd'.todo) \in Nat
        BY <4>0
      <4>2. Passed' = Len(JoinSteps) - Len(cmd'.todo)
        BY <2>3, <3>2 DEF Passed
      <4>3. Len(cmd'.todo) = 0
        BY <2>4, <3>2, <4>1, <4>2
      <4> QED
        BY <4>1, <4>3 DEF Running
    <3>4. \A d \in Clusters : kfc'[d] \in NameOf(d)
      BY <2>2, <2>6 DEF NamesKept
    <3> QED
      BY <1>1, <2>1, <2>2, <3>1, <3>3, <3>4 DEF NamesKept
  <2>11. \A x \in StepNames : Did(x) \/ x = Head(cmd.todo) => Did(x)'
    BY <1>1, <2>1, <2>2 DEF Did, Kinds, InNamespace
  <2> QED
    BY <1>1, <2>1, <2>8, <2>9, <2>10, <2>11, AdvancesInv
<1> QED
  BY <1>2, <1>3 DEF createKubeFedCluster

-----------------------------------------------------------------------------
(* The steps of an unjoin                                                  *)

\* The cluster of an unjoin that writes is not joined, and what it takes away is its own.
LEMMA UnjoinStep ==
  ASSUME Inv, NEW x, Writes("unjoin", x)
  PROVE  /\ Running /\ Given /\ cmd.op = "unjoin" /\ Head(cmd.todo) = x /\ ~cmd.options.dryRun
         /\ TypeOK /\ NamesKept /\ cmd.cluster \in Clusters /\ cmd.cluster \notin joined
         /\ \A d \in joined : d \in Clusters /\ Usable(d) /\ d # cmd.cluster
<1>1. Running /\ Given /\ cmd.op = "unjoin" /\ Head(cmd.todo) = x /\ ~cmd.options.dryRun
  BY IsGiven DEF Writes, At
<1>2. TypeOK /\ NamesKept /\ UnjoinKept /\ \A d \in joined : Usable(d)
  BY DEF Inv
<1>3. cmd.cluster \notin joined
  BY <1>1, <1>2 DEF UnjoinKept
<1> QED
  BY <1>1, <1>2, <1>3 DEF TypeOK

LEMMA RolesDeletedInv ==
  ASSUME Inv, deleteClusterRoleAndBinding(cmd.cluster)
  PROVE  Inv'
<1> DEFINE c == cmd.cluster
<1>1. PICK k \in Kinds :
        /\ Writes("unjoin", k) /\ Done /\ rbac' = [rbac EXCEPT ![c][k] = "absent"]
        /\ UNCHANGED <<scope, ns, sa, token, host, number, joined>>
  BY DEF deleteClusterRoleAndBinding
<1>2. /\ Running /\ Given /\ cmd.op = "unjoin" /\ Head(cmd.todo) = k
      /\ TypeOK /\ NamesKept /\ c \in Clusters
      /\ \A d \in joined : d \in Clusters /\ Usable(d) /\ d # c
  BY <1>1, UnjoinStep
<1>3. Advances /\ cmd'.faulted = cmd.faulted /\ cmd'.uid = cmd.uid /\ cmd'.secret = cmd.secret
  BY <1>1, <1>2, Moves
<1>4. cmd'.cluster = c /\ UNCHANGED <<scope, ns, sa, token, secrets, kfc, number, joined>>
  BY <1>1, <1>3 DEF Advances, Same, host
<1>5. /\ rbac'[c][k] = "absent" /\ \A j \in Kinds : j # k => rbac'[c][j] = rbac[c][j]
      /\ \A d \in Clusters : d # c => rbac'[d] = rbac[d]
  BY <1>1, <1>2 DEF TypeOK
<1>6. TypeOK'
  <2>1. rbac[c] \in [Kinds -> {"absent", "stale", "current"}]
    BY <1>2 DEF TypeOK
  <2>2. rbac' \in [Clusters -> [Kinds -> {"absent", "stale", "current"}]]
    BY <1>1, <1>2, <2>1 DEF TypeOK
  <2>3. \A d \in Clusters : ns[d] = "absent" => \A j \in InNamespace : rbac'[d][j] = "absent"
    BY <1>2, <1>5 DEF TypeOK, Kinds
  <2>4. /\ cmd'.op \in {"join", "unjoin", "none"} /\ cmd'.cluster \in Clusters
        /\ {cmd'.ok, cmd'.faulted} \subseteq BOOLEAN
        /\ cmd'.uid \in 0 .. MaxCommands /\ cmd'.secret \in Names \cup {None}
    BY <1>3 DEF Advances, Command
  <2> QED
    BY <1>2, <1>4, <2>2, <2>3, <2>4 DEF TypeOK, Names
<1>7. NamesKept'
  BY <1>2, <1>3, <1>4, NamesAdvance DEF NamesKept
<1>8. (\A d \in joined : Usable(d))'
  <2>1. ASSUME NEW d \in joined PROVE Usable(d)'
    <3>1. Usable(d) /\ rbac'[d] = rbac[d]
      BY <1>2, <1>5
    <3> QED
      BY <1>4, <3>1 DEF Usable, Rights
  <2> QED
    BY <1>4, <2>1
<1>9. \A x \in StepNames : Undid(x) \/ x = Head(cmd.todo) => Undid(x)'
  BY <1>2, <1>3, <1>4, <1>5 DEF Undid, Kinds, InNamespace
<1> QED
  BY <1>2, <1>3, <1>4, <1>6, <1>7, <1>8, <1>9, AdvancesInv

LEMMA AccountDeletedInv ==
  ASSUME Inv, deleteServiceAccount(cmd.cluster)
  PROVE  Inv'
<1> DEFINE c == cmd.cluster
<1>1. /\ Writes("unjoin", "ServiceAccount") /\ Done /\ sa' = [sa EXCEPT ![c] = 0]
      /\ UNCHANGED <<scope, ns, token, rbac, host, number, joined>>
  BY DEF deleteServiceAccount
<1>2. /\ Running /\ Given /\ cmd.op = "unjoin" /\ Head(cmd.todo) = "ServiceAccount"
      /\ TypeOK /\ NamesKept /\ c \in Clusters
      /\ \A d \in joined : d \in Clusters /\ Usable(d) /\ d # c
  BY <1>1, UnjoinStep
<1>3. Advances /\ cmd'.faulted = cmd.faulted /\ cmd'.uid = cmd.uid /\ cmd'.secret = cmd.secret
  BY <1>1, <1>2, Moves
<1>4. cmd'.cluster = c /\ UNCHANGED <<scope, ns, token, rbac, secrets, kfc, number, joined>>
  BY <1>1, <1>3 DEF Advances, Same, host
<1>5. sa'[c] = 0 /\ \A d \in Clusters : d # c => sa'[d] = sa[d]
  BY <1>1, <1>2 DEF TypeOK
<1>6. TypeOK'
  <2>1. 0 \in 0 .. MaxCommands
    BY RegistrationAssumption
  <2>2. sa' \in [Clusters -> 0 .. MaxCommands]
    BY <1>1, <1>2, <2>1 DEF TypeOK
  <2>3. \A d \in Clusters : ns[d] = "absent" => sa'[d] = 0
    BY <1>2, <1>5 DEF TypeOK
  <2>4. /\ cmd'.op \in {"join", "unjoin", "none"} /\ cmd'.cluster \in Clusters
        /\ {cmd'.ok, cmd'.faulted} \subseteq BOOLEAN
        /\ cmd'.uid \in 0 .. MaxCommands /\ cmd'.secret \in Names \cup {None}
    BY <1>3 DEF Advances, Command
  <2> QED
    BY <1>2, <1>4, <2>2, <2>3, <2>4 DEF TypeOK, Names
<1>7. NamesKept'
  BY <1>2, <1>3, <1>4, NamesAdvance DEF NamesKept
<1>8. (\A d \in joined : Usable(d))'
  <2>1. ASSUME NEW d \in joined PROVE Usable(d)'
    <3>1. Usable(d) /\ sa'[d] = sa[d]
      BY <1>2, <1>5
    <3> QED
      BY <1>4, <3>1 DEF Usable, Rights
  <2> QED
    BY <1>4, <2>1
<1>9. \A x \in StepNames : Undid(x) \/ x = Head(cmd.todo) => Undid(x)'
  BY <1>2, <1>3, <1>4, <1>5 DEF Undid, Kinds, InNamespace
<1> QED
  BY <1>2, <1>3, <1>4, <1>6, <1>7, <1>8, <1>9, AdvancesInv

LEMMA NamespaceDeletedInv ==
  ASSUME Inv, deleteFedNSFromUnjoinCluster(cmd.cluster)
  PROVE  Inv'
<1> DEFINE c == cmd.cluster
<1>1. /\ Writes("unjoin", "namespace")
      /\ UNCHANGED <<scope, sa, token, rbac, secrets, kfc, number, joined>>
  BY DEF deleteFedNSFromUnjoinCluster, host
<1>2. /\ Running /\ Given /\ cmd.op = "unjoin" /\ Head(cmd.todo) = "namespace"
      /\ TypeOK /\ NamesKept /\ c \in Clusters
      /\ \A d \in joined : d \in Clusters /\ Usable(d) /\ d # c
  BY <1>1, UnjoinStep
<1>3. CASE Done /\ (c = HostCluster \/ ns[c] # "active") /\ UNCHANGED ns
  <2>1. Advances /\ cmd'.faulted = cmd.faulted /\ cmd'.uid = cmd.uid /\ cmd'.secret = cmd.secret
    BY <1>2, <1>3, Moves
  <2>2. Undid(Head(cmd.todo))
    BY <1>2, <1>3 DEF Undid, Kinds, InNamespace
  <2> QED
    BY <1>1, <1>2, <1>3, <2>1, <2>2, QuietInv DEF member, host
<1>4. CASE Error /\ ~cmd.options.force /\ UNCHANGED ns
  <2>1. Ends /\ cmd'.faulted = cmd.faulted
    BY <1>2, <1>4, Moves
  <2> QED
    BY <1>1, <1>2, <1>4, <2>1, EndsInv DEF member, host
<1>5. CASE c # HostCluster /\ Done /\ ns[c] = "active" /\ ns' = [ns EXCEPT ![c] = "terminating"]
  <2>1. Advances /\ cmd'.faulted = cmd.faulted /\ cmd'.uid = cmd.uid /\ cmd'.secret = cmd.secret
    BY <1>2, <1>5, Moves
  <2>2. cmd'.cluster = c
    BY <2>1 DEF Advances, Same
  <2>3. ns'[c] = "terminating" /\ \A d \in Clusters : d # c => ns'[d] = ns[d]
    BY <1>2, <1>5 DEF TypeOK
  <2>4. TypeOK'
    <3>1. ns' \in [Clusters -> {"absent", "active", "terminating"}]
      BY <1>2, <1>5 DEF TypeOK
    <3>2. \A d \in Clusters : ns'[d] = "absent" => ns[d] = "absent"
      BY <2>3
    <3>3. /\ cmd'.op \in {"join", "unjoin", "none"} /\ cmd'.cluster \in Clusters
          /\ {cmd'.ok, cmd'.faulted} \subseteq BOOLEAN
          /\ cmd'.uid \in 0 .. MaxCommands /\ cmd'.secret \in Names \cup {None}
      BY <2>1 DEF Advances, Command
    <3> QED
      BY <1>1, <1>2, <3>1, <3>2, <3>3 DEF TypeOK, Names
  <2>5. ns'[HostCluster] = "active"
    BY <1>2, <1>5, <2>3, RegistrationAssumption DEF NamesKept
  <2>6. NamesKept'
    BY <1>1, <1>2, <2>1, <2>5, NamesAdvance DEF NamesKept
  <2>7. (\A d \in joined : Usable(d))'
    <3>1. ASSUME NEW d \in joined PROVE Usable(d)'
      <4>1. Usable(d) /\ ns'[d] = ns[d]
        BY <1>2, <2>3
      <4> QED
        BY <1>1, <4>1 DEF Usable, Rights
    <3> QED
      BY <1>1, <3>1
  <2>8. \A x \in StepNames : Undid(x) \/ x = Head(cmd.todo) => Undid(x)'
    BY <1>1, <1>2, <2>1, <2>2, <2>3 DEF Undid, Kinds, InNamespace
  <2> QED
    BY <1>1, <1>2, <2>1, <2>4, <2>6, <2>7, <2>8, AdvancesInv
<1> QED
  BY <1>3, <1>4, <1>5 DEF deleteFedNSFromUnjoinCluster, OrForced

\* The name of the secret is read before any secret is deleted.
LEMMA GetInv ==
  ASSUME Inv, Writes("unjoin", "get"),
         IF kfc[cmd.cluster] = None THEN Error
         ELSE cmd' = [cmd EXCEPT !.todo = Tail(@), !.secret = kfc[cmd.cluster]],
         UNCHANGED <<scope, member, host, number, joined>>
  PROVE  Inv'
<1> DEFINE c == cmd.cluster
<1>1. /\ Running /\ Given /\ cmd.op = "unjoin" /\ Head(cmd.todo) = "get"
      /\ TypeOK /\ NamesKept /\ c \in Clusters /\ ~cmd.options.dryRun
  BY UnjoinStep
<1>2. CASE kfc[c] = None
  <2>1. Ends /\ cmd'.faulted = cmd.faulted
    BY <1>1, <1>2, Moves
  <2> QED
    BY <1>1, <1>2, <2>1, EndsInv
<1>3. CASE kfc[c] # None
  <2>1. kfc[c] \in Names \cup {None} /\ kfc[c] \in NameOf(c)
    BY <1>1 DEF TypeOK, NamesKept
  <2>2. Advances /\ cmd'.faulted = cmd.faulted /\ cmd'.uid = cmd.uid /\ cmd'.secret = kfc[c]
    BY <1>1, <1>3, <2>1, Moves
  <2>3. cmd'.cluster = c /\ UNCHANGED <<scope, ns, sa, token, rbac, secrets, kfc, number, joined>>
    BY <2>2 DEF Advances, Same, member, host
  <2>4. TypeOK'
    BY <1>1, <2>2, CommandTypes DEF Advances
  <2>5. NamesKept'
    BY <1>1, <2>1, <2>2, <2>3, NamesAdvance DEF NamesKept
  <2>6. (\A d \in joined : Usable(d))'
    BY <2>3 DEF Inv, Usable, Rights
  <2>7. \A i \in 1 .. Passed : Steps[i] # "secret"
    <3>1. /\ Passed \in 0 .. Len(Steps) - 1 /\ Steps[Passed + 1] = "get" /\ Len(Steps) \in Nat
      BY <1>1, <2>2, <2>3, Advanced, StepsTypes
    <3>2. \A i, j \in 1 .. Len(Steps) : Steps[i] = "get" /\ Steps[j] = "secret" => i < j
      <4>1. cmd.options \in UnjoinOptions /\ Steps = UnjoinSteps(cmd.options)
        BY <1>1 DEF Given, Steps
      <4> QED
        BY <4>1, UnjoinOrder
    <3>3. Passed + 1 \in 1 .. Len(Steps) /\ \A i \in 1 .. Passed : i \in 1 .. Len(Steps) /\ ~(Passed + 1 < i)
      BY <3>1
    <3> QED
      BY <3>1, <3>2, <3>3
  <2>8. \A x \in StepNames :
          ((\E i \in 1 .. Passed : x = Steps[i]) /\ Undid(x)) \/ x = Head(cmd.todo) => Undid(x)'
    <3>1. \A x : x # "secret" /\ Undid(x) => Undid(x)'
      BY <2>3 DEF Undid
    <3>2. \A x : x = "get" => Undid(x)'
      BY DEF Undid, Kinds, InNamespace
    <3> QED
      BY <1>1, <2>7, <3>1, <3>2
  <2> QED
    BY <1>1, <2>2, <2>3, <2>4, <2>5, <2>6, <2>8, AdvancesInv
<1> QED
  BY <1>2, <1>3

\* No other cluster refers to a secret of this name.
LEMMA SecretDeletedInv ==
  ASSUME Inv, Writes("unjoin", "secret"), Done,
         secrets' = {s \in secrets : s.name # cmd.secret},
         UNCHANGED <<scope, member, kfc, number, joined>>
  PROVE  Inv'
<1> DEFINE c == cmd.cluster
<1>1. /\ Running /\ Given /\ cmd.op = "unjoin" /\ Head(cmd.todo) = "secret"
      /\ TypeOK /\ NamesKept /\ c \in Clusters
      /\ \A d \in joined : d \in Clusters /\ Usable(d) /\ d # c
  BY UnjoinStep
<1>2. Advances /\ cmd'.faulted = cmd.faulted /\ cmd'.uid = cmd.uid /\ cmd'.secret = cmd.secret
  BY <1>1, Moves
<1>3. /\ cmd'.cluster = c /\ cmd'.op = "unjoin"
      /\ UNCHANGED <<scope, ns, sa, token, rbac, kfc, number, joined>>
  BY <1>1, <1>2 DEF Advances, Same, member
<1>4. secrets' \subseteq secrets
  OBVIOUS
<1>5. TypeOK'
  <2>1. /\ cmd'.op \in {"join", "unjoin", "none"} /\ cmd'.cluster \in Clusters
        /\ {cmd'.ok, cmd'.faulted} \subseteq BOOLEAN
        /\ cmd'.uid \in 0 .. MaxCommands /\ cmd'.secret \in Names \cup {None}
    BY <1>2 DEF Advances, Command
  <2>2. secrets' \subseteq [name : Names, uid : 1 .. MaxCommands]
    BY <1>1, <1>4 DEF TypeOK
  <2>3. \A s, t \in secrets' : s.name = t.name => s = t
    BY <1>1, <1>4 DEF TypeOK
  <2> QED
    BY <1>1, <1>3, <2>1, <2>2, <2>3 DEF TypeOK, Names
<1>6. NamesKept'
  <2>1. \A d : NameOf(d)' = NameOf(d)
    BY DEF NameOf
  <2>2. \A s \in secrets' : s.name[2] <= number
    BY <1>1, <1>4 DEF NamesKept
  <2> QED
    BY <1>1, <1>2, <1>3, <2>1, <2>2 DEF NamesKept
<1>7. (\A d \in joined : Usable(d))'
  <2>1. ASSUME NEW d \in joined PROVE Usable(d)'
    <3>1. Usable(d) /\ d \in Clusters /\ d # c
      BY <1>1
    <3>2. ns[d] = "active" /\ [name |-> kfc[d], uid |-> sa[d]] \in secrets
      BY <3>1 DEF Usable
    <3>3. kfc[d] \in Names
      BY <1>1, <3>2 DEF TypeOK
    <3>4. kfc[d] # None
      BY <3>3 DEF Names, None
    <3>5. kfc[d] \in {d} \X (0 .. MaxCommands)
      BY <1>1, <3>1, <3>4 DEF NamesKept, NameOf
    <3>6. cmd.secret = None \/ cmd.secret \in {c} \X (0 .. MaxCommands)
      BY <1>1 DEF NamesKept, NameOf
    <3>7. kfc[d] # cmd.secret
      BY <3>1, <3>4, <3>5, <3>6
    <3>8. [name |-> kfc[d], uid |-> sa[d]] \in secrets'
      BY <3>2, <3>7
    <3> QED
      BY <1>3, <3>1, <3>2, <3>8, UsableKept
  <2> QED
    BY <1>3, <2>1
<1>8. \A x \in StepNames : Undid(x) \/ x = Head(cmd.todo) => Undid(x)'
  BY <1>1, <1>2, <1>3, <1>4 DEF Undid, Kinds, InNamespace
<1> QED
  BY <1>1, <1>2, <1>3, <1>5, <1>6, <1>7, <1>8, AdvancesInv

LEMMA ClusterDeletedInv ==
  ASSUME Inv, Writes("unjoin", "KubeFedCluster"), Done, kfc' = [kfc EXCEPT ![cmd.cluster] = None],
         UNCHANGED <<scope, member, secrets, number, joined>>
  PROVE  Inv'
<1> DEFINE c == cmd.cluster
<1>1. /\ Running /\ Given /\ cmd.op = "unjoin" /\ Head(cmd.todo) = "KubeFedCluster"
      /\ TypeOK /\ NamesKept /\ c \in Clusters
      /\ \A d \in joined : d \in Clusters /\ Usable(d) /\ d # c
  BY UnjoinStep
<1>2. Advances /\ cmd'.faulted = cmd.faulted /\ cmd'.uid = cmd.uid /\ cmd'.secret = cmd.secret
  BY <1>1, Moves
<1>3. /\ cmd'.cluster = c /\ cmd'.op = "unjoin"
      /\ UNCHANGED <<scope, ns, sa, token, rbac, secrets, number, joined>>
  BY <1>1, <1>2 DEF Advances, Same, member
<1>4. kfc'[c] = None /\ \A d \in Clusters : d # c => kfc'[d] = kfc[d]
  BY <1>1 DEF TypeOK
<1>5. TypeOK'
  <2>1. /\ cmd'.op \in {"join", "unjoin", "none"} /\ cmd'.cluster \in Clusters
        /\ {cmd'.ok, cmd'.faulted} \subseteq BOOLEAN
        /\ cmd'.uid \in 0 .. MaxCommands /\ cmd'.secret \in Names \cup {None}
    BY <1>2 DEF Advances, Command
  <2>2. kfc' \in [Clusters -> Names \cup {None}]
    BY <1>1 DEF TypeOK
  <2> QED
    BY <1>1, <1>3, <2>1, <2>2 DEF TypeOK, Names
<1>6. NamesKept'
  <2>1. \A d : NameOf(d)' = NameOf(d)
    BY DEF NameOf
  <2>2. \A d \in Clusters : kfc'[d] \in NameOf(d)
    BY <1>1, <1>4 DEF NamesKept, NameOf
  <2> QED
    BY <1>1, <1>2, <1>3, <2>1, <2>2 DEF NamesKept
<1>7. (\A d \in joined : Usable(d))'
  <2>1. ASSUME NEW d \in joined PROVE Usable(d)'
    <3>1. Usable(d) /\ kfc'[d] = kfc[d]
      BY <1>1, <1>4
    <3> QED
      BY <1>3, <3>1 DEF Usable, Rights
  <2> QED
    BY <1>3, <2>1
<1>8. \A x \in StepNames : Undid(x) \/ x = Head(cmd.todo) => Undid(x)'
  BY <1>1, <1>2, <1>3, <1>4 DEF Undid, Kinds, InNamespace
<1> QED
  BY <1>1, <1>2, <1>3, <1>4, <1>5, <1>6, <1>7, <1>8, AdvancesInv

LEMMA HostDeletedInv ==
  ASSUME Inv, deleteFederatedClusterAndSecret(cmd.cluster)
  PROVE  Inv'
<1>1. UNCHANGED <<scope, member, number, joined>>
  BY DEF deleteFederatedClusterAndSecret
<1>2. CASE /\ Writes("unjoin", "get") /\ UNCHANGED host
           /\ IF kfc[cmd.cluster] = None THEN Error
              ELSE cmd' = [cmd EXCEPT !.todo = Tail(@), !.secret = kfc[cmd.cluster]]
  BY <1>1, <1>2, GetInv
<1>3. CASE /\ Writes("unjoin", "secret") /\ secrets' = {s \in secrets : s.name # cmd.secret}
           /\ Done /\ UNCHANGED kfc
  BY <1>1, <1>3, SecretDeletedInv
<1>4. CASE /\ Writes("unjoin", "KubeFedCluster") /\ kfc' = [kfc EXCEPT ![cmd.cluster] = None]
           /\ Done /\ UNCHANGED secrets
  BY <1>1, <1>4, ClusterDeletedInv
<1> QED
  BY <1>2, <1>3, <1>4 DEF deleteFederatedClusterAndSecret

-----------------------------------------------------------------------------
(* The theorems                                                            *)

LEMMA StutterInv ==
  ASSUME Inv, UNCHANGED vars
  PROVE  Inv'
<1>1. UNCHANGED <<scope, ns, sa, token, rbac, secrets, kfc, cmd, number, joined>>
  BY DEF vars, member, host
<1>2. Steps' = Steps /\ Passed' = Passed
  BY <1>1 DEF Steps, Passed, JoinSteps, Authorize
<1>3. TypeOK'
  BY <1>1 DEF Inv, TypeOK, Names
<1>4. NamesKept'
  BY <1>1, <1>2 DEF Inv, NamesKept, NameOf, Running
<1>5. (\A c \in joined : Usable(c))'
  BY <1>1 DEF Inv, Usable, Rights
<1>6. JoinKept'
  BY <1>1, <1>2 DEF Inv, JoinKept, Running, Did
<1>7. \A x \in StepNames : Undid(x) => Undid(x)'
  BY <1>1 DEF Undid
<1> QED
  BY <1>1, <1>3, <1>4, <1>5, <1>6, <1>7, StaysInv

LEMMA StepInv ==
  ASSUME Inv, Step(cmd.cluster)
  PROVE  Inv'
<1> DEFINE c == cmd.cluster
<1>1. {"ClusterRole", "ClusterRoleBinding", "Role", "RoleBinding", "HealthRole", "HealthBinding"}
        \subseteq Kinds
  BY DEF Kinds, InNamespace
<1>2. CASE performPreflightChecks(c)
  BY <1>2, PreflightInv
<1>3. CASE createKubeFedNamespace(c)
  BY <1>3, NamespaceInv
<1>4. CASE createServiceAccount(c)
  BY <1>4, ServiceAccountInv
<1>5. CASE createClusterRoleAndBinding(c)
  BY <1>1, <1>5, PutRoleInv, PutBindingInv DEF createClusterRoleAndBinding
<1>6. CASE createRoleAndBinding(c)
  BY <1>1, <1>6, PutRoleInv, PutBindingInv DEF createRoleAndBinding
<1>7. CASE createHealthCheckClusterRoleAndBinding(c)
  BY <1>1, <1>7, PutRoleInv, PutBindingInv DEF createHealthCheckClusterRoleAndBinding
<1>8. CASE populateSecretInHostCluster(c)
  BY <1>8, PopulateInv
<1>9. CASE createKubeFedCluster(c)
  BY <1>9, KubeFedClusterInv
<1>10. CASE deleteClusterRoleAndBinding(c)
  BY <1>10, RolesDeletedInv
<1>11. CASE deleteServiceAccount(c)
  BY <1>11, AccountDeletedInv
<1>12. CASE deleteFedNSFromUnjoinCluster(c)
  BY <1>12, NamespaceDeletedInv
<1>13. CASE deleteFederatedClusterAndSecret(c)
  BY <1>13, HostDeletedInv
<1> QED
  BY <1>2, <1>3, <1>4, <1>5, <1>6, <1>7, <1>8, <1>9, <1>10, <1>11, <1>12, <1>13 DEF Step

LEMMA NextInv ==
  ASSUME Inv, [Next]_vars
  PROVE  Inv'
<1>1. ASSUME NEW c \in Clusters, Join(c) \/ Unjoin(c) \/ TokenIssued(c) \/ NamespaceGone(c)
      PROVE  Inv'
  BY <1>1, JoinInv, UnjoinInv, TokenIssuedInv, NamespaceGoneInv
<1>2. CASE Step(cmd.cluster)
  BY <1>2, StepInv
<1>3. CASE DryRun("join") \/ DryRun("unjoin")
  BY <1>3, DryRunInv
<1>4. CASE ForcedOn
  BY <1>4, ForcedOnInv
<1>5. CASE Interrupted
  BY <1>5, InterruptedInv
<1>6. CASE UNCHANGED vars
  BY <1>6, StutterInv
<1> QED
  BY <1>1, <1>2, <1>3, <1>4, <1>5, <1>6 DEF Next

\* Inv is inductive: steps passed by a command stay done while it runs, whatever
\* interrupts it, whatever the clusters do and whatever was left by those before it.
THEOREM RegistrationInv == Spec => []Inv
<1>1. Init => Inv
  BY InitInv
<1>2. Inv /\ [Next]_vars => Inv'
  BY NextInv
<1> QED
  BY <1>1, <1>2, PTL DEF Spec

\* A cluster that createKubeFedCluster has registered stays usable until it is unjoined:
\* no repeated or interrupted join and no unjoin of another cluster takes its account,
\* its rights, its secret or its namespace.
THEOREM JoinedStayUsable == Spec => []JoinedUsable
<1>1. Inv => JoinedUsable
  BY DEF Inv, JoinedUsable
<1> QED
  BY <1>1, RegistrationInv, PTL

\* UnjoinCluster without an error leaves none of what the joins made: all the steps were
\* passed, each leaves nothing of its own, and no later step makes it again.
THEOREM UnjoinIsComplete == Spec => []UnjoinLeavesNothing
<1>1. Inv => UnjoinLeavesNothing
  <2> SUFFICES ASSUME Inv, Ended("unjoin"), cmd.ok, ~cmd.faulted, cmd.options.configured
               PROVE  LET c == cmd.cluster
                      IN  /\ sa[c] = 0 /\ \A k \in Kinds : rbac[c][k] = "absent"
                          /\ c # HostCluster => ns[c] # "active"
                          /\ kfc[c] = None
                          /\ \A s \in secrets : s.name # cmd.secret
    BY DEF UnjoinLeavesNothing
  <2>1. cmd.op = "unjoin" /\ ~cmd.options.dryRun /\ cmd.todo = << >>
    BY DEF Ended, Running
  <2>2. Given /\ UnjoinKept
    BY <2>1 DEF Inv, Idle
  <2>3. cmd.options \in UnjoinOptions /\ Steps = UnjoinSteps(cmd.options)
    BY <2>1, <2>2 DEF Given, Steps
  <2>4. Passed = Len(Steps)
    <3>1. Len(Steps) \in Nat
      BY <2>3, UnjoinOrder
    <3> QED
      BY <2>1, <3>1 DEF Passed
  <2>5. \A i \in 1 .. Len(Steps) : Undid(Steps[i])
    BY <2>1, <2>2, <2>4 DEF UnjoinKept
  <2>6. \A k \in Kinds \cup {"ServiceAccount", "namespace", "secret", "KubeFedCluster"} :
          \E i \in 1 .. Len(Steps) : Steps[i] = k
    BY <2>3, UnjoinOrder
  <2>7. \A k \in Kinds \cup {"ServiceAccount", "namespace", "secret", "KubeFedCluster"} : Undid(k)
    BY <2>5, <2>6
  <2> QED
    BY <2>7 DEF Undid
<1> QED
  BY <1>1, RegistrationInv, PTL

\* A join that takes what exists and makes up the name of its secret, and a forced unjoin
\* of a registered cluster, end without an error of their own: nothing that interrupted
\* commands have left stops them.
THEOREM RerunsComplete == Spec => []RerunCompletes
<1>1. Inv => RerunCompletes
  BY DEF Inv, Completes, RerunCompletes, Ended
<1> QED
  BY <1>1, RegistrationInv, PTL
=============================================================================
