-------------------------- MODULE FederatedInformer --------------------------
(***************************************************************************)
(* The federated informers of the controllers (pkg/controller/util/         *)
(* federated_informer.go).  Each view of the member clusters, one per       *)
(* controller and resource type, keeps a store of the KubeFedClusters, an   *)
(* informer for each ready cluster and a cache of clients.  The store       *)
(* changes first and the handler that adds and deletes informers runs       *)
(* after it, so that readers see the two disagree.                          *)
(***************************************************************************)
EXTENDS Naturals, FiniteSets

CONSTANTS
  Clusters,
  Joined,        \* the sets of clusters that may be ready at the start
  AllViews,      \* the informers of all the controllers
  Values,        \* what there is to see in a member: 0 is no object
  MaxEvents,     \* bound: changes of objects, of records and, once per view, of clusters
  MaxFaults      \* bound: tombstones, failed calls

ASSUME InformerAssumption ==
  /\ IsFiniteSet(Clusters) /\ "none" \notin Clusters /\ Joined \subseteq SUBSET Clusters
  /\ 0 \in Values /\ Values \subseteq Nat /\ \E x \in Values : \A y \in Values : x >= y
  /\ {MaxEvents, MaxFaults} \subseteq Nat

VARIABLES
  views,       \* the informers of the controller that is running
  clusters,    \* the KubeFedClusters
  objects,     \* what each view would see in each member
  known,       \* clusterInformer.store
  handling,    \* the change of the store whose handler has not run
  informers,   \* targetInformers
  clients,     \* clusterClients: the spec each was made for
  deaf,        \* history: the informers and clients a tombstone has left behind
  used

infVars == <<views, clusters, objects, known, handling, informers, clients, deaf>>

\* spec 0: not registered.  Every registration and edit has a spec of its own.
Cluster == [spec : Nat, ready : BOOLEAN, zoned : BOOLEAN]
NoCluster == [spec |-> 0, ready |-> FALSE, zoned |-> FALSE]
Informer == [spec : Nat, synced : BOOLEAN, cached : Values]
NoInformer == [spec |-> 0, synced |-> FALSE, cached |-> 0]
NoChange == [cluster |-> "none", old |-> NoCluster]

InformerTypeOK ==
  /\ views \subseteq AllViews
  /\ clusters \in [Clusters -> Cluster]
  /\ objects \in [AllViews -> [Clusters -> Values]]
  /\ known \in [AllViews -> [Clusters -> Cluster]]
  /\ handling \in [AllViews -> {NoChange} \cup [cluster : Clusters, old : Cluster]]
  /\ informers \in [AllViews -> [Clusters -> Informer]]
  /\ clients \in [AllViews -> [Clusters -> Nat]]
  /\ deaf \subseteq AllViews \X Clusters
  /\ used \in [events : 0 .. MaxEvents, faults : 0 .. MaxFaults]

Spend(what, n) ==
  /\ used[what] + n <= IF what = "events" THEN MaxEvents ELSE MaxFaults
  /\ used' = [used EXCEPT ![what] = @ + n]

\* A controller that has listed everything; some of the clusters are ready.
InformerInit ==
  /\ \E some \in Joined :
       clusters = [c \in Clusters |-> [spec |-> 1, ready |-> c \in some, zoned |-> c \in some]]
  /\ objects = [v \in AllViews |-> [c \in Clusters |-> CHOOSE x \in Values : \A y \in Values : x >= y]]
  /\ known = [v \in AllViews |-> IF v \in views THEN clusters ELSE [c \in Clusters |-> NoCluster]]
  /\ handling = [v \in AllViews |-> NoChange]
  /\ informers = [v \in AllViews |-> [c \in Clusters |-> IF known[v][c].ready
                    THEN [spec |-> 1, synced |-> TRUE, cached |-> objects[v][c]] ELSE NoInformer]]
  /\ clients = [v \in AllViews |-> [c \in Clusters |-> 0]]
  /\ deaf = {}
  /\ used = [events |-> 0, faults |-> 0]
-----------------------------------------------------------------------------
(* The host cluster and the members                                        *)

\* Registration, a change of spec, labels or annotations, a change of the health, removal.
ClusterChanges(c) ==
  /\ Spend("events", Cardinality(views))
  /\ \E new \in IF clusters[c].spec = 0
                THEN {[NoCluster EXCEPT !.spec = used.events + 2]}
                ELSE {[clusters[c] EXCEPT !.spec = used.events + 2],
                      NoCluster}
                     \cup {[clusters[c] EXCEPT !.ready = ~@, !.zoned = z] :
                             z \in IF "endpoints" \in views THEN BOOLEAN ELSE {TRUE}} :
       /\ new # clusters[c]
       /\ clusters' = [clusters EXCEPT ![c] = new]
  /\ UNCHANGED <<views, objects, known, handling, informers, clients, deaf>>

ObjectChanges(v, c) ==
  /\ v \in views
  /\ Spend("events", 1)
  /\ \E x \in Values \ {objects[v][c]} : objects' = [objects EXCEPT ![v][c] = x]
  /\ UNCHANGED <<views, clusters, known, handling, informers, clients, deaf>>
-----------------------------------------------------------------------------
(* The informer of KubeFedClusters and its handlers                        *)

\* The store takes the change.  A deletion that is found by a new list comes as a
\* tombstone, which the handler does not recognise.
ClusterInformed(v, c) ==
  /\ v \in views
  /\ handling[v] = NoChange
  /\ known[v][c] # clusters[c]
  /\ known' = [known EXCEPT ![v][c] = clusters[c]]
  /\ \/ /\ handling' = [handling EXCEPT ![v] = [cluster |-> c, old |-> known[v][c]]]
        /\ UNCHANGED <<deaf, used>>
     \/ /\ clusters[c].spec = 0
        /\ Spend("faults", 1)
        /\ deaf' = deaf \cup {<<v, c>>}
        /\ UNCHANGED handling
  /\ UNCHANGED <<views, clusters, objects, informers, clients>>

\* A change that concerns the informer of the cluster.
Differs(old, new) == old.ready # new.ready \/ old.spec # new.spec

\* mutant: the client of the cluster is kept
deleteClusterKeeping(v, c, cl) == cl
\* deleteCluster removes the informer and the client.
deleteCluster(v, c, cl) == [cl EXCEPT ![v][c] = 0]

HandlerDeletes(old, new) == old.spec # 0 /\ Differs(old, new)
HandlerAdds(old, new) == new.ready /\ (old.spec = 0 \/ Differs(old, new))

\* addCluster starts an informer, or fails and leaves the cluster without one.
HandlerRuns(v) ==
  LET c == handling[v].cluster
      old == handling[v].old
      new == known[v][c]
      gone == IF HandlerDeletes(old, new) THEN NoInformer ELSE informers[v][c]
  IN  /\ handling[v] # NoChange
      /\ handling' = [handling EXCEPT ![v] = NoChange]
      /\ \/ /\ informers' = [informers EXCEPT ![v][c] =
                  IF HandlerAdds(old, new) THEN [NoInformer EXCEPT !.spec = new.spec] ELSE gone]
            /\ UNCHANGED used
         \/ /\ HandlerAdds(old, new)
            /\ Spend("faults", 1)
            /\ informers' = [informers EXCEPT ![v][c] = gone]
      /\ clients' = IF HandlerDeletes(old, new) THEN deleteCluster(v, c, clients) ELSE clients
      /\ deaf' = IF HandlerDeletes(old, new) THEN deaf \ {<<v, c>>} ELSE deaf
      /\ UNCHANGED <<views, clusters, objects, known>>

\* GetClientForCluster: a client is made for the cluster the store has, and kept.
GetClientForCluster(v, c) ==
  /\ v \in views
  /\ clients[v][c] = 0
  /\ known[v][c].ready
  /\ clients' = [clients EXCEPT ![v][c] = known[v][c].spec]
  /\ UNCHANGED <<views, clusters, objects, known, handling, informers, deaf, used>>
-----------------------------------------------------------------------------
(* The informers of the target type                                        *)

\* A list or an event of a member that the informer's spec still leads to.
TargetInformed(v, c) ==
  /\ informers[v][c].spec # 0 /\ informers[v][c].spec = clusters[c].spec
  /\ LET new == [informers[v][c] EXCEPT !.synced = TRUE, !.cached = objects[v][c]]
     IN  /\ informers[v][c] # new
         /\ informers' = [informers EXCEPT ![v][c] = new]
  /\ UNCHANGED <<views, clusters, objects, known, handling, clients, deaf, used>>

GetReadyClusters(v) == {c \in Clusters : known[v][c].ready}
GetByKey(v, c) == IF informers[v][c].spec = 0 THEN 0 ELSE informers[v][c].cached

\* ClustersSynced: the informers are those of the ready clusters, and have listed.
ClustersSynced(v) ==
  /\ GetReadyClusters(v) = {c \in Clusters : informers[v][c].spec # 0}
  /\ \A c \in GetReadyClusters(v) : informers[v][c].synced
-----------------------------------------------------------------------------
\* "Informers are stopped when a cluster is either put offline of deleted", and no
\* client outlives the spec it was made for: informer and client of a cluster are
\* for the spec in the store, once the handler of the last change has run and
\* unless a tombstone took its place.
InformersCurrent ==
  \A v \in AllViews, c \in Clusters : handling[v] = NoChange /\ <<v, c>> \notin deaf =>
    /\ informers[v][c].spec \in {0, known[v][c].spec}
    /\ informers[v][c].spec # 0 => known[v][c].ready
    /\ clients[v][c] \in {0, known[v][c].spec}
=============================================================================
