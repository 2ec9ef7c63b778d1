--------------------------- MODULE CollectorsProofs ---------------------------
(***************************************************************************)
(* Proofs about the federated informer under the controllers that collect   *)
(* through it, and about what is made of the records they write: informers  *)
(* and clients are those of the clusters in the store, and the names of a    *)
(* record lead to the nearest addresses.                                    *)
(*                                                                         *)
(* The store changes before the handler runs, so that InformersCurrent is   *)
(* not inductive: while the handler of a change is due, the informer is     *)
(* still that of the cluster as it was, and a client may be that of the     *)
(* cluster as it was or as it is.                                           *)
(*                                                                         *)
(* NearestServed has two parts.  What the endpoints of a name merge to is    *)
(* shown for any endpoints in any order: an A record with all of the targets *)
(* if one of them has targets, otherwise the CNAME that all of them are.      *)
(* Inductions are arguments about a least counterexample, a natural number.  *)
(* That the endpoints are those of the record the controller has is an       *)
(* invariant of the machine (CollectorsInv): DNS records are their own        *)
(* reports, so that the two come and go together.                            *)
(*                                                                         *)
(* Reports: a controller that has nothing to do has reported what its stores *)
(* hold (ReportInv), and stores that have heard everything hold what the     *)
(* members do.                                                              *)
(***************************************************************************)
EXTENDS Collectors, FiniteSetTheorems, WellFoundedInduction, NaturalsInduction, TLAPS

\* What the handlers have seen of a cluster.
Due(v, c) == handling[v] # NoChange /\ handling[v].cluster = c
Seen(v, c) == IF Due(v, c) THEN handling[v].old ELSE known[v][c]

\* Informer and client are those of the cluster the handlers have seen, except for
\* a client made since.
Follows(v, c) ==
  /\ informers[v][c].spec \in {0, Seen(v, c).spec}
  /\ informers[v][c].spec # 0 => Seen(v, c).ready
  /\ clients[v][c] \in {0, Seen(v, c).spec, known[v][c].spec}

\* The inductive invariant.
Inv ==
  /\ InformerTypeOK
  /\ feature \in Features /\ views = ViewsOf(feature)
  /\ \A v \in AllViews, c \in Clusters : <<v, c>> \notin deaf => Follows(v, c)

-----------------------------------------------------------------------------
(* Types                                                                   *)

\* Views are finitely many, so that what a change of a cluster spends is a number.
LEMMA ViewsFinite ==
  ASSUME feature \in Features, views = ViewsOf(feature)
  PROVE  views \subseteq AllViews /\ Cardinality(views) \in Nat
<1>1. IsFiniteSet({"target"}) BY FS_Singleton
<1>2. IsFiniteSet({"target"} \cup {"endpoints"}) BY <1>1, FS_AddElement
<1>3. {"target"} \cup {"endpoints"} = {"target", "endpoints"} OBVIOUS
<1>4. IsFiniteSet(views) BY <1>1, <1>2, <1>3 DEF ViewsOf
<1>5. Cardinality(views) \in Nat BY <1>4, FS_CardinalityType
<1> QED BY <1>5, CollectorsAssumption DEF ViewsOf

\* Spend keeps the counters within their bounds.
LEMMA SpendType ==
  ASSUME used \in [events : 0 .. MaxEvents, faults : 0 .. MaxFaults],
         NEW what \in {"events", "faults"}, NEW n \in Nat, Spend(what, n)
  PROVE  /\ used' \in [events : 0 .. MaxEvents, faults : 0 .. MaxFaults]
         /\ used.events + 2 \in Nat
<1>1. MaxEvents \in Nat /\ MaxFaults \in Nat BY InformerAssumption
<1>2. used[what] \in Nat /\ used.events \in Nat BY <1>1
<1>3. CASE what = "events"
  <2>1. used' = [used EXCEPT !.events = @ + n] /\ used.events + n <= MaxEvents
    BY <1>3 DEF Spend
  <2>2. used.events + n \in 0 .. MaxEvents BY <1>1, <1>2, <2>1
  <2> QED BY <1>2, <2>1, <2>2
<1>4. CASE what = "faults"
  <2>1. used' = [used EXCEPT !.faults = @ + n] /\ used.faults + n <= MaxFaults
    BY <1>4 DEF Spend
  <2>2. used.faults + n \in 0 .. MaxFaults BY <1>1, <1>2, <2>1, <1>4
  <2> QED BY <1>2, <2>1, <2>2
<1> QED BY <1>3, <1>4

\* The changes a cluster may go through are clusters.
LEMMA ChangeType ==
  ASSUME NEW old \in Cluster, NEW n \in Nat
  PROVE  /\ [NoCluster EXCEPT !.spec = n] \in Cluster
         /\ [old EXCEPT !.spec = n] \in Cluster
         /\ NoCluster \in Cluster
         /\ \A z \in BOOLEAN : [old EXCEPT !.ready = ~@, !.zoned = z] \in Cluster
<1>1. NoCluster \in Cluster /\ [NoCluster EXCEPT !.spec = n] \in Cluster BY DEF NoCluster, Cluster
<1>2. [old EXCEPT !.spec = n] \in Cluster BY DEF Cluster
<1>3. \A r, z \in BOOLEAN : [old EXCEPT !.ready = r, !.zoned = z] \in Cluster BY DEF Cluster
<1>4. (~old.ready) \in BOOLEAN OBVIOUS
<1>5. \A z \in BOOLEAN : [old EXCEPT !.ready = ~old.ready, !.zoned = z] \in Cluster BY <1>3, <1>4
<1> QED BY <1>1, <1>2, <1>5

\* The state at the start has its types.
LEMMA InitType ==
  ASSUME Init
  PROVE  Inv
<1>1. feature \in Features /\ views = ViewsOf(feature) /\ InformerInit BY DEF Init
<1>2. views \subseteq AllViews BY <1>1, ViewsFinite
<1>3. clusters \in [Clusters -> Cluster]
  <2>1. PICK some \in Joined :
          clusters = [c \in Clusters |-> [spec |-> 1, ready |-> c \in some, zoned |-> c \in some]]
    BY <1>1 DEF InformerInit
  <2>2. \A c \in Clusters : (c \in some) \in BOOLEAN OBVIOUS
  <2>3. \A r, z \in BOOLEAN : [spec |-> 1, ready |-> r, zoned |-> z] \in Cluster BY DEF Cluster
  <2>4. \A c \in Clusters : [spec |-> 1, ready |-> c \in some, zoned |-> c \in some] \in Cluster
    BY <2>2, <2>3
  <2> QED BY <2>1, <2>4
<1>4. \A c \in Clusters : clusters[c].spec = 1 BY <1>1 DEF InformerInit
<1>5. objects \in [AllViews -> [Clusters -> Values]]
  <2> DEFINE top == CHOOSE x \in Values : \A y \in Values : x >= y
  <2>1. top \in Values BY InformerAssumption
  <2>2. objects = [v \in AllViews |-> [c \in Clusters |-> top]] BY <1>1 DEF InformerInit
  <2> QED BY <2>1, <2>2
<1>6. NoCluster \in Cluster BY DEF NoCluster, Cluster
<1>7. known \in [AllViews -> [Clusters -> Cluster]]
  <2>1. [c \in Clusters |-> NoCluster] \in [Clusters -> Cluster] BY <1>6
  <2> QED BY <1>1, <1>3, <2>1 DEF InformerInit
<1>8. handling = [v \in AllViews |-> NoChange] /\ deaf = {}
  BY <1>1 DEF InformerInit
<1>9. clients = [v \in AllViews |-> [c \in Clusters |-> 0]] BY <1>1 DEF InformerInit
<1>10. informers = [v \in AllViews |-> [c \in Clusters |-> IF known[v][c].ready
                      THEN [spec |-> 1, synced |-> TRUE, cached |-> objects[v][c]] ELSE NoInformer]]
  BY <1>1 DEF InformerInit
<1>11. informers \in [AllViews -> [Clusters -> Informer]]
  <2>1. NoInformer \in Informer BY InformerAssumption DEF NoInformer, Informer
  <2>2. \A x \in Values : [spec |-> 1, synced |-> TRUE, cached |-> x] \in Informer BY DEF Informer
  <2>3. ASSUME NEW v \in AllViews, NEW c \in Clusters
        PROVE  (IF known[v][c].ready THEN [spec |-> 1, synced |-> TRUE, cached |-> objects[v][c]]
                                     ELSE NoInformer) \in Informer
    <3>1. objects[v][c] \in Values BY <1>5
    <3> QED BY <2>1, <2>2, <3>1
  <2> QED BY <1>10, <2>3
<1>12. used \in [events : 0 .. MaxEvents, faults : 0 .. MaxFaults]
  <2>1. used = [events |-> 0, faults |-> 0] BY <1>1 DEF InformerInit
  <2>2. 0 \in 0 .. MaxEvents /\ 0 \in 0 .. MaxFaults BY InformerAssumption
  <2> QED BY <2>1, <2>2
<1>13. InformerTypeOK
  <2>1. clients \in [AllViews -> [Clusters -> Nat]] BY <1>9
  <2>2. handling \in [AllViews -> {NoChange} \cup [cluster : Clusters, old : Cluster]] BY <1>8
  <2> QED BY <1>2, <1>3, <1>5, <1>7, <1>8, <1>11, <1>12, <2>1, <2>2 DEF InformerTypeOK
<1>14. ASSUME NEW v \in AllViews, NEW c \in Clusters
       PROVE  Follows(v, c)
  <2>1. Seen(v, c) = known[v][c] BY <1>8 DEF Seen, Due
  <2>2. clients[v][c] = 0 BY <1>9
  <2>3. CASE known[v][c].ready
    <3>1. known[v] = clusters
      <4>1. known[v] = IF v \in views THEN clusters ELSE [d \in Clusters |-> NoCluster]
        BY <1>1 DEF InformerInit
      <4>2. ~NoCluster.ready BY DEF NoCluster
      <4> QED BY <2>3, <4>1, <4>2
    <3>2. informers[v][c].spec = 1 BY <1>10, <2>3
    <3> QED BY <1>4, <2>1, <2>2, <2>3, <3>1, <3>2 DEF Follows
  <2>4. CASE ~known[v][c].ready
    <3>1. informers[v][c].spec = 0 BY <1>10, <2>4 DEF NoInformer
    <3> QED BY <2>2, <3>1 DEF Follows
  <2> QED BY <2>3, <2>4
<1> QED BY <1>1, <1>13, <1>14 DEF Inv

-----------------------------------------------------------------------------
(* The steps of the environment and of the informer                        *)

\* A step that leaves informers, clients, stores and pending changes as they are.
LEMMA FrameStep ==
  ASSUME Inv, feature' = feature, views' = views,
         UNCHANGED <<known, handling, informers, clients, deaf>>,
         clusters' \in [Clusters -> Cluster], objects' \in [AllViews -> [Clusters -> Values]],
         used' \in [events : 0 .. MaxEvents, faults : 0 .. MaxFaults]
  PROVE  Inv'
<1>1. InformerTypeOK' BY DEF Inv, InformerTypeOK
<1>2. ASSUME NEW v \in AllViews, NEW c \in Clusters, <<v, c>> \notin deaf'
      PROVE  Follows(v, c)'
  <2>1. Follows(v, c) BY <1>2 DEF Inv
  <2> QED BY <2>1 DEF Follows, Seen, Due
<1>3. (feature \in Features /\ views = ViewsOf(feature))' BY DEF Inv, ViewsOf
<1> QED BY <1>1, <1>2, <1>3 DEF Inv

\* Changes of clusters.
LEMMA ClusterChangesStep ==
  ASSUME Inv, NEW c \in Clusters, ClusterChanges(c), feature' = feature
  PROVE  Inv'
<1>1. Cardinality(views) \in Nat BY ViewsFinite DEF Inv
<1>2. Spend("events", Cardinality(views)) BY DEF ClusterChanges
<1>3. /\ used' \in [events : 0 .. MaxEvents, faults : 0 .. MaxFaults]
      /\ used.events + 2 \in Nat
  BY <1>1, <1>2, SpendType DEF Inv, InformerTypeOK
<1>4. clusters \in [Clusters -> Cluster] /\ clusters[c] \in Cluster BY DEF Inv, InformerTypeOK
<1>5. \E new \in Cluster : clusters' = [clusters EXCEPT ![c] = new]
  <2> DEFINE old == clusters[c]
             n == used.events + 2
             zs == IF "endpoints" \in views THEN BOOLEAN ELSE {TRUE}
  <2>1. \E new \in IF clusters[c].spec = 0
                   THEN {[NoCluster EXCEPT !.spec = n]}
                   ELSE {[old EXCEPT !.spec = n], NoCluster}
                        \cup {[old EXCEPT !.ready = ~@, !.zoned = z] : z \in zs} :
          clusters' = [clusters EXCEPT ![c] = new]
    BY DEF ClusterChanges
  <2>2. /\ [NoCluster EXCEPT !.spec = n] \in Cluster
        /\ [old EXCEPT !.spec = n] \in Cluster
        /\ NoCluster \in Cluster
        /\ \A z \in BOOLEAN : [old EXCEPT !.ready = ~@, !.zoned = z] \in Cluster
    BY <1>3, <1>4, ChangeType
  <2>3. zs \subseteq BOOLEAN OBVIOUS
  <2> HIDE DEF old, n, zs
  <2> QED BY <2>1, <2>2, <2>3
<1>6. clusters' \in [Clusters -> Cluster] BY <1>4, <1>5
<1>7. UNCHANGED <<views, objects, known, handling, informers, clients, deaf>> BY DEF ClusterChanges
<1>8. objects' \in [AllViews -> [Clusters -> Values]] BY <1>7 DEF Inv, InformerTypeOK
<1> QED BY <1>3, <1>6, <1>7, <1>8, FrameStep

\* Changes of objects in the members.
LEMMA ObjectChangesStep ==
  ASSUME Inv, NEW v \in AllViews, NEW c \in Clusters, ObjectChanges(v, c), feature' = feature
  PROVE  Inv'
<1>1. Spend("events", 1) BY DEF ObjectChanges
<1>2. used' \in [events : 0 .. MaxEvents, faults : 0 .. MaxFaults]
  BY <1>1, SpendType DEF Inv, InformerTypeOK
<1>3. UNCHANGED <<views, clusters, known, handling, informers, clients, deaf>> BY DEF ObjectChanges
<1>4. objects' \in [AllViews -> [Clusters -> Values]]
  BY DEF ObjectChanges, Inv, InformerTypeOK
<1>5. clusters' \in [Clusters -> Cluster] BY <1>3 DEF Inv, InformerTypeOK
<1> QED BY <1>2, <1>3, <1>4, <1>5, FrameStep

\* The store takes a change: the informer still follows the cluster as it was,
\* unless the change is a tombstone.
LEMMA ClusterInformedStep ==
  ASSUME Inv, NEW v \in AllViews, NEW c \in Clusters, ClusterInformed(v, c), feature' = feature
  PROVE  Inv'
<1> DEFINE change == [cluster |-> c, old |-> known[v][c]]
<1>1. /\ handling[v] = NoChange
      /\ known' = [known EXCEPT ![v][c] = clusters[c]]
      /\ UNCHANGED <<views, clusters, objects, informers, clients>>
  BY DEF ClusterInformed
<1>2. \/ handling' = [handling EXCEPT ![v] = change] /\ UNCHANGED <<deaf, used>>
      \/ /\ Spend("faults", 1)
         /\ deaf' = deaf \cup {<<v, c>>}
         /\ UNCHANGED handling
  BY DEF ClusterInformed
<1>3. known[v][c] \in Cluster /\ clusters[c] \in Cluster BY DEF Inv, InformerTypeOK
<1>4. known' \in [AllViews -> [Clusters -> Cluster]] BY <1>1, <1>3 DEF Inv, InformerTypeOK
<1>5. used' \in [events : 0 .. MaxEvents, faults : 0 .. MaxFaults]
  BY <1>2, SpendType DEF Inv, InformerTypeOK
<1>6. handling' \in [AllViews -> {NoChange} \cup [cluster : Clusters, old : Cluster]]
  <2> DEFINE Pending == {NoChange} \cup [cluster : Clusters, old : Cluster]
  <2>1. change \in Pending BY <1>3
  <2>2. handling \in [AllViews -> Pending] BY DEF Inv, InformerTypeOK
  <2> HIDE DEF Pending, change
  <2>3. handling' \in [AllViews -> Pending] BY <1>2, <2>1, <2>2
  <2> QED BY <2>3 DEF Pending
<1>7. deaf' \subseteq AllViews \X Clusters BY <1>2 DEF Inv, InformerTypeOK
<1>8. InformerTypeOK' BY <1>1, <1>4, <1>5, <1>6, <1>7 DEF Inv, InformerTypeOK
<1>9. ASSUME NEW w \in AllViews, NEW d \in Clusters, <<w, d>> \notin deaf'
      PROVE  Follows(w, d)'
  <2>1. Follows(w, d) BY <1>2, <1>9 DEF Inv
  <2>2. CASE w # v
    <3>1. known'[w] = known[w] /\ handling'[w] = handling[w]
      BY <1>1, <1>2, <2>2 DEF Inv, InformerTypeOK
    <3> QED BY <1>1, <2>1, <3>1 DEF Follows, Seen, Due
  <2>3. CASE w = v /\ d # c
    <3>1. known'[v][d] = known[v][d] BY <1>1, <2>3 DEF Inv, InformerTypeOK
    <3>2. Seen(v, d) = known[v][d] BY <1>1 DEF Seen, Due
    <3>3. ~Due(v, d)'
      BY <1>1, <1>2, <2>3 DEF Due, Inv, InformerTypeOK
    <3>4. Seen(v, d)' = known[v][d] BY <3>1, <3>3 DEF Seen
    <3> QED BY <1>1, <2>1, <2>3, <3>1, <3>2, <3>4 DEF Follows
  <2>4. CASE w = v /\ d = c
    <3>1. handling' = [handling EXCEPT ![v] = change] BY <1>2, <1>9, <2>4
    <3>2. handling'[v] = change BY <3>1 DEF Inv, InformerTypeOK
    <3>3. Seen(v, c) = known[v][c] BY <1>1 DEF Seen, Due
    <3>4. CASE change # NoChange
      <4>1. Seen(v, c)' = known[v][c] BY <3>2, <3>4 DEF Seen, Due
      <4>2. known'[v][c] = clusters[c] BY <1>1 DEF Inv, InformerTypeOK
      <4> QED BY <1>1, <2>1, <2>4, <3>3, <4>1 DEF Follows
    <3>5. CASE change = NoChange
      <4>1. known[v][c] = NoCluster BY <3>5 DEF NoChange
      <4>2. informers[v][c].spec = 0 /\ clients[v][c] = 0
        BY <2>1, <2>4, <3>3, <4>1 DEF Follows, NoCluster
      <4> QED BY <1>1, <2>4, <4>2 DEF Follows
    <3> QED BY <3>4, <3>5
  <2> QED BY <2>2, <2>3, <2>4
<1>10. (feature \in Features /\ views = ViewsOf(feature))' BY <1>1 DEF Inv, ViewsOf
<1> QED BY <1>8, <1>9, <1>10 DEF Inv


\* The handler runs: informer and client of the cluster are those of the store.
LEMMA HandlerRunsStep ==
  ASSUME Inv, NEW v \in AllViews, HandlerRuns(v), feature' = feature
  PROVE  Inv'
<1> DEFINE c == handling[v].cluster
           old == handling[v].old
           new == known[v][c]
           gone == IF HandlerDeletes(old, new) THEN NoInformer ELSE informers[v][c]
           added == [NoInformer EXCEPT !.spec = new.spec]
<1>1. handling[v] # NoChange /\ handling' = [handling EXCEPT ![v] = NoChange]
  BY DEF HandlerRuns
<1>2. UNCHANGED <<views, clusters, objects, known>> BY DEF HandlerRuns
<1>3. /\ clients' = IF HandlerDeletes(old, new) THEN [clients EXCEPT ![v][c] = 0] ELSE clients
      /\ deaf' = IF HandlerDeletes(old, new) THEN deaf \ {<<v, c>>} ELSE deaf
  BY DEF HandlerRuns, deleteCluster
<1>4. \/ /\ informers' = [informers EXCEPT ![v][c] = IF HandlerAdds(old, new) THEN added ELSE gone]
         /\ UNCHANGED used
      \/ Spend("faults", 1) /\ informers' = [informers EXCEPT ![v][c] = gone]
  BY DEF HandlerRuns
<1>5. handling[v] \in [cluster : Clusters, old : Cluster] BY <1>1 DEF Inv, InformerTypeOK
<1>6. c \in Clusters /\ old \in Cluster BY <1>5
<1>7. new \in Cluster /\ informers[v][c] \in Informer BY <1>6 DEF Inv, InformerTypeOK
<1>8. gone \in Informer /\ added \in Informer
  <2>1. NoInformer \in Informer BY InformerAssumption DEF NoInformer, Informer
  <2>2. new.spec \in Nat BY <1>7 DEF Cluster
  <2>3. added \in Informer BY <2>1, <2>2 DEF Informer
  <2> QED BY <1>7, <2>1, <2>3
<1>9. \E inf \in {gone} \cup {x \in {added} : HandlerAdds(old, new)} :
         informers' = [informers EXCEPT ![v][c] = inf]
  BY <1>4
<1> HIDE DEF c, old, new, gone, added
<1>10. informers' \in [AllViews -> [Clusters -> Informer]]
  BY <1>6, <1>8, <1>9 DEF Inv, InformerTypeOK
<1>11. used' \in [events : 0 .. MaxEvents, faults : 0 .. MaxFaults]
  BY <1>4, SpendType DEF Inv, InformerTypeOK
<1>12. handling' \in [AllViews -> {NoChange} \cup [cluster : Clusters, old : Cluster]]
  BY <1>1 DEF Inv, InformerTypeOK
<1>13. clients' \in [AllViews -> [Clusters -> Nat]] BY <1>3, <1>6 DEF Inv, InformerTypeOK
<1>14. deaf' \subseteq AllViews \X Clusters BY <1>3 DEF Inv, InformerTypeOK
<1>15. InformerTypeOK' BY <1>2, <1>10, <1>11, <1>12, <1>13, <1>14 DEF Inv, InformerTypeOK
<1>16. ASSUME NEW w \in AllViews, NEW d \in Clusters, <<w, d>> \notin deaf'
       PROVE  Follows(w, d)'
  <2>1. CASE w # v
    <3>1. Follows(w, d) BY <1>3, <1>16, <2>1 DEF Inv
    <3>2. handling'[w] = handling[w] BY <1>1, <2>1 DEF Inv, InformerTypeOK
    <3>3. clients'[w] = clients[w] BY <1>3, <1>6, <2>1 DEF Inv, InformerTypeOK
    <3>4. informers'[w] = informers[w] BY <1>9, <2>1 DEF Inv, InformerTypeOK
    <3> QED BY <1>2, <3>1, <3>2, <3>3, <3>4 DEF Follows, Seen, Due
  <2>2. CASE w = v /\ d # c
    <3>1. Follows(v, d) BY <1>3, <1>16, <2>2 DEF Inv
    <3>2. clients'[v][d] = clients[v][d] BY <1>3, <1>6, <2>2 DEF Inv, InformerTypeOK
    <3>3. informers'[v][d] = informers[v][d] BY <1>9, <2>2 DEF Inv, InformerTypeOK
    <3>4. Seen(v, d) = known[v][d] BY <2>2 DEF Seen, Due, c
    <3>5. handling'[v] = NoChange BY <1>1 DEF Inv, InformerTypeOK
    <3>6. Seen(v, d)' = known[v][d] BY <1>2, <3>5 DEF Seen, Due
    <3> QED BY <1>2, <2>2, <3>1, <3>2, <3>3, <3>4, <3>6 DEF Follows
  <2>3. CASE w = v /\ d = c
    <3>1. handling'[v] = NoChange BY <1>1 DEF Inv, InformerTypeOK
    <3>2. Seen(v, d)' = new BY <1>2, <2>3, <3>1 DEF Seen, Due, new
    <3>3. known'[v][d] = new BY <1>2, <2>3 DEF new
    <3>4. Seen(v, c) = old BY <1>1 DEF Seen, Due, c, old
    <3>5. \/ informers'[v][c] = gone
          \/ informers'[v][c] = added /\ HandlerAdds(old, new)
      BY <1>6, <1>9 DEF Inv, InformerTypeOK
    <3>6. CASE HandlerDeletes(old, new)
      <4>1. clients'[v][c] = 0 BY <1>3, <1>6, <3>6 DEF Inv, InformerTypeOK
      <4>2. gone.spec = 0 BY <3>6 DEF gone, NoInformer
      <4>3. added.spec = new.spec BY DEF added, NoInformer
      <4>4. HandlerAdds(old, new) => new.ready BY DEF HandlerAdds
      <4> QED BY <2>3, <3>2, <3>5, <4>1, <4>2, <4>3, <4>4 DEF Follows
    <3>7. CASE ~HandlerDeletes(old, new)
      <4>1. Follows(v, c) BY <1>3, <1>6, <1>16, <2>3, <3>7 DEF Inv
      <4>2. clients' = clients /\ gone = informers[v][c] BY <1>3, <3>7 DEF gone
      <4>3. old.spec = 0 \/ (old.ready = new.ready /\ old.spec = new.spec)
        BY <3>7 DEF HandlerDeletes, Differs
      <4>4. /\ informers[v][c].spec \in {0, old.spec}
            /\ informers[v][c].spec # 0 => old.ready
            /\ clients[v][c] \in {0, old.spec, new.spec}
        BY <3>4, <4>1 DEF Follows, new
      <4>5. /\ informers[v][c].spec \in {0, new.spec}
            /\ informers[v][c].spec # 0 => new.ready
            /\ clients[v][c] \in {0, new.spec}
        BY <4>3, <4>4
      <4>6. added.spec = new.spec /\ (HandlerAdds(old, new) => new.ready)
        BY DEF added, NoInformer, HandlerAdds
      <4> QED BY <2>3, <3>2, <3>5, <4>2, <4>5, <4>6 DEF Follows
    <3> QED BY <3>6, <3>7
  <2> QED BY <2>1, <2>2, <2>3
<1>17. (feature \in Features /\ views = ViewsOf(feature))' BY <1>2 DEF Inv, ViewsOf
<1> QED BY <1>15, <1>16, <1>17 DEF Inv

\* A client is made for the cluster in the store, which may be newer than what the
\* handlers have seen.
LEMMA GetClientStep ==
  ASSUME Inv, NEW v \in AllViews, NEW c \in Clusters, GetClientForCluster(v, c), feature' = feature
  PROVE  Inv'
<1>1. /\ clients' = [clients EXCEPT ![v][c] = known[v][c].spec]
      /\ UNCHANGED <<views, clusters, objects, known, handling, informers, deaf, used>>
  BY DEF GetClientForCluster
<1>2. known[v][c].spec \in Nat BY DEF Inv, InformerTypeOK, Cluster
<1>3. clients' \in [AllViews -> [Clusters -> Nat]] BY <1>1, <1>2 DEF Inv, InformerTypeOK
<1>4. InformerTypeOK' BY <1>1, <1>3 DEF Inv, InformerTypeOK
<1>5. ASSUME NEW w \in AllViews, NEW d \in Clusters, <<w, d>> \notin deaf'
      PROVE  Follows(w, d)'
  <2>1. Follows(w, d) BY <1>1, <1>5 DEF Inv
  <2>2. Seen(w, d)' = Seen(w, d) BY <1>1 DEF Seen, Due
  <2>3. clients'[w][d] \in {clients[w][d], known[w][d].spec} BY <1>1 DEF Inv, InformerTypeOK
  <2> QED BY <1>1, <2>1, <2>2, <2>3 DEF Follows
<1>6. (feature \in Features /\ views = ViewsOf(feature))' BY <1>1 DEF Inv, ViewsOf
<1> QED BY <1>4, <1>5, <1>6 DEF Inv

\* What an informer receives leaves it with its spec.
LEMMA TargetInformedStep ==
  ASSUME Inv, NEW v \in AllViews, NEW c \in Clusters, TargetInformed(v, c), feature' = feature
  PROVE  Inv'
<1> DEFINE new == [informers[v][c] EXCEPT !.synced = TRUE, !.cached = objects[v][c]]
<1>1. /\ informers' = [informers EXCEPT ![v][c] = new]
      /\ UNCHANGED <<views, clusters, objects, known, handling, clients, deaf, used>>
  BY DEF TargetInformed
<1>2. informers[v][c] \in Informer /\ objects[v][c] \in Values BY DEF Inv, InformerTypeOK
<1>3. new \in Informer /\ new.spec = informers[v][c].spec BY <1>2 DEF Informer
<1> HIDE DEF new
<1>4. informers' \in [AllViews -> [Clusters -> Informer]] BY <1>1, <1>3 DEF Inv, InformerTypeOK
<1>5. InformerTypeOK' BY <1>1, <1>4 DEF Inv, InformerTypeOK
<1>6. ASSUME NEW w \in AllViews, NEW d \in Clusters, <<w, d>> \notin deaf'
      PROVE  Follows(w, d)'
  <2>1. Follows(w, d) BY <1>1, <1>6 DEF Inv
  <2>2. Seen(w, d)' = Seen(w, d) BY <1>1 DEF Seen, Due
  <2>3. informers'[w][d].spec = informers[w][d].spec BY <1>1, <1>3 DEF Inv, InformerTypeOK
  <2> QED BY <1>1, <2>1, <2>2, <2>3 DEF Follows
<1>7. (feature \in Features /\ views = ViewsOf(feature))' BY <1>1 DEF Inv, ViewsOf
<1> QED BY <1>5, <1>6, <1>7 DEF Inv
-----------------------------------------------------------------------------
(* The controllers leave the informers alone                               *)

\* A step of a controller: only the counters of the informer's module change.
LEMMA HostStep ==
  ASSUME Inv, feature' = feature, UNCHANGED infVars,
         \/ UNCHANGED used
         \/ Spend("events", 1)
         \/ Spend("faults", 1)
  PROVE  Inv'
<1>1. used' \in [events : 0 .. MaxEvents, faults : 0 .. MaxFaults]
  BY SpendType DEF Inv, InformerTypeOK
<1>2. clusters' \in [Clusters -> Cluster] /\ objects' \in [AllViews -> [Clusters -> Values]]
  BY DEF Inv, InformerTypeOK, infVars
<1>3. views' = views /\ UNCHANGED <<known, handling, informers, clients, deaf>> BY DEF infVars
<1> QED BY <1>1, <1>2, <1>3, FrameStep

\* Reconciliations write reports, and nothing of the informer.
LEMMA CollectStep ==
  ASSUME Inv, Collect
  PROVE  Inv'
<1>1. UNCHANGED infVars /\ feature' = feature BY DEF Collect
<1>2. ASSUME NEW r, Write(r) PROVE UNCHANGED used \/ Spend("faults", 1) BY <1>2 DEF Write
<1>3. Done => UNCHANGED used BY DEF Done
<1>4. statusReconcile \/ serviceReconcile \/ ingressReconcile BY DEF Collect
<1>5. statusReconcile => UNCHANGED used \/ Spend("faults", 1) BY <1>2, <1>3 DEF statusReconcile
<1>6. serviceReconcile => UNCHANGED used \/ Spend("faults", 1) BY <1>2, <1>3 DEF serviceReconcile
<1>7. ingressReconcile => UNCHANGED used \/ Spend("faults", 1) BY <1>2, <1>3 DEF ingressReconcile
<1> QED BY <1>1, <1>4, <1>5, <1>6, <1>7, HostStep

\* Every step keeps the invariant.
LEMMA InvStep ==
  ASSUME Inv, [Next]_vars
  PROVE  Inv'
<1>1. CASE Environment
  <2>1. feature' = feature BY <1>1 DEF Environment, hostVars
  <2> QED BY <1>1, <2>1, ClusterChangesStep, ObjectChangesStep, ClusterInformedStep DEF Environment
<1>2. CASE UserChanges
  <2>1. feature' = feature /\ UNCHANGED infVars /\ Spend("events", 1) BY <1>2 DEF UserChanges
  <2> QED BY <2>1, HostStep
<1>3. CASE Finalized BY <1>3, HostStep DEF Finalized
<1>4. CASE GarbageCollect BY <1>4, HostStep DEF GarbageCollect
<1>5. CASE RecordInformed BY <1>5, HostStep DEF RecordInformed
<1>6. CASE StatusInformed BY <1>6, HostStep DEF StatusInformed
<1>7. CASE DomainInformed BY <1>7, HostStep DEF DomainInformed
<1>8. ASSUME NEW v \in AllViews, Lifecycle(v) PROVE Inv'
  <2>1. HandlerRuns(v) /\ feature' = feature BY <1>8 DEF Lifecycle
  <2> QED BY <2>1, HandlerRunsStep
<1>9. ASSUME NEW v \in AllViews, NEW c \in Clusters, TargetEvent(v, c) PROVE Inv'
  <2>1. TargetInformed(v, c) /\ feature' = feature BY <1>9 DEF TargetEvent
  <2> QED BY <2>1, TargetInformedStep
<1>10. ASSUME NEW c \in Clusters, GetClient(c) PROVE Inv'
  <2>1. GetClientForCluster("target", c) /\ feature' = feature BY <1>10 DEF GetClient, hostVars
  <2> QED BY <2>1, GetClientStep, CollectorsAssumption
<1>11. CASE reconcileOnClusterChange BY <1>11, HostStep DEF reconcileOnClusterChange
<1>12. CASE Check BY <1>12, HostStep DEF Check
<1>13. CASE Collect BY <1>13, CollectStep
<1>14. CASE DNSInformed BY <1>14, HostStep DEF DNSInformed
<1>15. CASE processItem
  <2>1. feature' = feature /\ UNCHANGED infVars /\ (UNCHANGED used \/ Spend("faults", 1))
    BY <1>15 DEF processItem
  <2> QED BY <2>1, HostStep
<1>16. CASE UNCHANGED vars
  <2>1. feature' = feature /\ UNCHANGED infVars /\ UNCHANGED used BY <1>16 DEF vars, hostVars
  <2> QED BY <2>1, HostStep
<1> QED
  BY <1>1, <1>2, <1>3, <1>4, <1>5, <1>6, <1>7, <1>8, <1>9, <1>10, <1>11, <1>12, <1>13, <1>14, <1>15,
     <1>16 DEF Next
-----------------------------------------------------------------------------
(* Induction                                                               *)

\* A set of natural numbers that holds 0 and with each number the next holds them all.
LEMMA SetInduction ==
  ASSUME NEW S, S \subseteq Nat, 0 \in S, \A n \in S : n + 1 \in S
  PROVE  S = Nat
<1>1. SUFFICES ASSUME Nat \ S # {} PROVE FALSE
  OBVIOUS
<1>2. PICK x \in Nat \ S : \A y \in Nat \ S : ~(<<y, x>> \in OpToRel(<, Nat))
  <2> DEFINE T == Nat \ S
  <2>1. T \subseteq Nat /\ T # {}
    BY <1>1
  <2>2. IsWellFoundedOn(OpToRel(<, Nat), Nat)
    BY NatLessThanWellFounded
  <2> HIDE DEF T
  <2>3. \E x \in T : \A y \in T : ~(<<y, x>> \in OpToRel(<, Nat))
    BY <2>1, <2>2, WFMin
  <2> QED BY <2>3 DEF T
<1>3. x \in Nat /\ x \notin S /\ x # 0
  OBVIOUS
<1>4. x - 1 \in Nat /\ (x - 1) + 1 = x
  BY <1>3
<1>5. x - 1 \in Nat \ S
  BY <1>3, <1>4
<1>6. <<x - 1, x>> \in OpToRel(<, Nat)
  BY <1>4 DEF OpToRel
<1> QED BY <1>2, <1>5, <1>6

\* Induction up to a number.
LEMMA UpTo ==
  ASSUME NEW N \in Nat, NEW P, 0 \in P, \A n \in 1 .. N : n - 1 \in P => n \in P
  PROVE  \A n \in 0 .. N : n \in P
<1> DEFINE Q == {n \in Nat : n <= N => n \in P}
<1>1. 0 \in Q
  OBVIOUS
<1>2. ASSUME NEW n \in Q PROVE n + 1 \in Q
  <2>1. SUFFICES ASSUME n + 1 <= N PROVE n + 1 \in P
    OBVIOUS
  <2>2. n + 1 \in 1 .. N /\ (n + 1) - 1 = n /\ n \in P
    BY <2>1
  <2> QED BY <2>2
<1>3. Q = Nat
  <2>1. Q \subseteq Nat
    OBVIOUS
  <2> HIDE DEF Q
  <2> QED BY <1>1, <1>2, <2>1, SetInduction
<1> QED BY <1>3

\* f has the values after each of N steps.
IsTrace(f, N, St, base, h) ==
  /\ f \in [0 .. N -> St] /\ f[0] = base
  /\ \A n \in 1 .. N : f[n] = h[<<n, f[n - 1]>>]

\* What is defined step by step up to a number exists.
LEMMA TraceExists ==
  ASSUME NEW N \in Nat, NEW St, NEW base \in St, NEW h \in [(1 .. N) \X St -> St]
  PROVE  \E f : IsTrace(f, N, St, base, h)
<1> DEFINE Trace(f, m) == IsTrace(f, m, St, base, h)
           P == {m \in 0 .. N : \E f : Trace(f, m)}
<1>1. 0 \in P
  <2>1. Trace([n \in 0 .. 0 |-> base], 0)
    BY DEF IsTrace
  <2> HIDE DEF Trace
  <2> QED BY <2>1
<1>2. ASSUME NEW m \in 1 .. N, m - 1 \in P PROVE m \in P
  <2>1. PICK f : Trace(f, m - 1)
    BY <1>2
  <2> DEFINE g == [n \in 0 .. m |-> IF n = m THEN h[<<m, f[m - 1]>>] ELSE f[n]]
  <2>2. m - 1 \in 0 .. m - 1 /\ 0 \in 0 .. m - 1 /\ f[m - 1] \in St
    BY <2>1 DEF IsTrace
  <2>3. h[<<m, f[m - 1]>>] \in St
    BY <2>2
  <2>4. g[0] = base /\ g[m] = h[<<m, g[m - 1]>>]
    <3>1. 0 \in 0 .. m /\ m \in 0 .. m /\ m - 1 \in 0 .. m /\ 0 # m /\ m - 1 # m
      OBVIOUS
    <3>2. f[0] = base
      BY <2>1 DEF IsTrace
    <3>3. g[0] = f[0] /\ g[m - 1] = f[m - 1] /\ g[m] = h[<<m, f[m - 1]>>]
      BY <3>1
    <3> HIDE DEF g
    <3> QED BY <3>2, <3>3
  <2>5. \A n \in 0 .. m : n = m \/ (n \in 0 .. m - 1 /\ f[n] \in St)
    BY <2>1 DEF IsTrace
  <2>6. g \in [0 .. m -> St]
    BY <2>3, <2>5
  <2>7. ASSUME NEW n \in 1 .. m, n # m PROVE g[n] = h[<<n, g[n - 1]>>]
    <3>1. n \in 1 .. m - 1 /\ n \in 0 .. m /\ n - 1 \in 0 .. m /\ n - 1 # m
      BY <2>7
    <3>2. g[n] = f[n] /\ g[n - 1] = f[n - 1]
      BY <2>7, <3>1
    <3> QED BY <2>1, <3>1, <3>2 DEF IsTrace
  <2>8. Trace(g, m)
    <3> HIDE DEF g
    <3> QED BY <2>4, <2>6, <2>7 DEF IsTrace
  <2> HIDE DEF Trace
  <2> QED BY <2>8
<1>3. N \in P
  <2> HIDE DEF P
  <2> QED BY <1>1, <1>2, UpTo
<1> QED BY <1>3

-----------------------------------------------------------------------------
(* Merging the endpoints of a name                                         *)

EndpointSet(N, T) == [name : N, type : {"A", "CNAME"}, targets : SUBSET T]

\* Those of the first m endpoints that are merged for the name n.
Of(eps, n, m) == {k \in 1 .. m : eps[k].name = n /\ eps[k].targets # {}}

\* e is what they are merged to: the union of the A records, or else of the CNAMEs.
MergesTo(eps, N, T, n, m, e) ==
  /\ e \in EndpointSet(N, T)
  /\ e.targets = {} <=> Of(eps, n, m) = {}
  /\ e.type = "A" <=> \E k \in Of(eps, n, m) : eps[k].type = "A"
  /\ \A t : t \in e.targets <=> \E k \in Of(eps, n, m) : eps[k].type = e.type /\ t \in eps[k].targets

\* The step of MergedOf.
MergeStep(eps, n, k, a) ==
  IF eps[k].name # n \/ eps[k].targets = {} THEN a
  ELSE IF a.targets = {} THEN eps[k] ELSE Merged(a, eps[k])

\* It merges one more.
LEMMA MergeStepIs ==
  ASSUME NEW N, NEW T, NEW eps \in Seq(EndpointSet(N, T)), NEW n, NEW m \in 1 .. Len(eps),
         NEW a, MergesTo(eps, N, T, n, m - 1, a)
  PROVE  MergesTo(eps, N, T, n, m, MergeStep(eps, n, m, a))
<1> DEFINE b == eps[m]
           e == MergeStep(eps, n, m, a)
<1>1. b \in EndpointSet(N, T) /\ a \in EndpointSet(N, T)
  BY DEF MergesTo
<1>2. b.type \in {"A", "CNAME"} /\ a.type \in {"A", "CNAME"} /\ "A" # "CNAME"
  BY <1>1 DEF EndpointSet
<1>3. 1 .. m = (1 .. (m - 1)) \cup {m} /\ m \notin 1 .. (m - 1)
  OBVIOUS
<1>4. CASE b.name # n \/ b.targets = {}
  <2>1. Of(eps, n, m) = Of(eps, n, m - 1)
    BY <1>3, <1>4 DEF Of
  <2>2. e = a
    BY <1>4 DEF MergeStep
  <2> QED BY <2>1, <2>2 DEF MergesTo
<1>5. CASE b.name = n /\ b.targets # {}
  <2>1. Of(eps, n, m) = Of(eps, n, m - 1) \cup {m}
    BY <1>3, <1>5 DEF Of
  <2>2. CASE a.targets = {}
    <3>1. Of(eps, n, m) = {m}
      BY <2>1, <2>2 DEF MergesTo
    <3>2. e = b
      BY <1>5, <2>2 DEF MergeStep
    <3> QED BY <1>1, <1>5, <3>1, <3>2 DEF MergesTo
  <2>3. CASE a.targets # {} /\ a.type = b.type
    <3>1. e = [a EXCEPT !.targets = a.targets \cup b.targets]
      BY <1>5, <2>3 DEF MergeStep, Merged
    <3>2. e \in EndpointSet(N, T) /\ e.type = a.type /\ e.targets = a.targets \cup b.targets
      BY <1>1, <3>1 DEF EndpointSet
    <3> HIDE DEF e
    <3>3. e.type = "A" <=> \E k \in Of(eps, n, m) : eps[k].type = "A"
      BY <2>1, <2>3, <3>2 DEF MergesTo
    <3>4. \A t : t \in e.targets <=>
            \E k \in Of(eps, n, m) : eps[k].type = e.type /\ t \in eps[k].targets
      BY <2>1, <2>3, <3>2 DEF MergesTo
    <3>5. e.targets # {} /\ Of(eps, n, m) # {}
      BY <1>5, <2>1, <3>2
    <3> QED BY <3>2, <3>3, <3>4, <3>5 DEF MergesTo, e
  <2>4. CASE a.targets # {} /\ a.type # b.type /\ a.type = "CNAME"
    <3>1. e = b /\ b.type = "A"
      BY <1>2, <1>5, <2>4 DEF MergeStep, Merged
    <3>2. \A k \in Of(eps, n, m - 1) : eps[k].type # "A"
      BY <1>2, <2>4 DEF MergesTo
    <3> QED BY <1>1, <1>5, <2>1, <3>1, <3>2 DEF MergesTo
  <2>5. CASE a.targets # {} /\ a.type # b.type /\ a.type # "CNAME"
    <3>1. e = a /\ a.type = "A" /\ b.type # "A"
      BY <1>2, <1>5, <2>5 DEF MergeStep, Merged
    <3> QED BY <1>1, <1>5, <2>1, <2>5, <3>1 DEF MergesTo
  <2> QED BY <2>2, <2>3, <2>4, <2>5
<1> QED BY <1>4, <1>5

\* What MergedOf returns.
LEMMA MergedOfIs ==
  ASSUME NEW N, NEW T, NEW eps \in Seq(EndpointSet(N, T)), NEW n \in N
  PROVE  MergesTo(eps, N, T, n, Len(eps), MergedOf(eps, n))
<1> DEFINE L == Len(eps)
           St == EndpointSet(N, T)
           none == [name |-> n, type |-> "CNAME", targets |-> {}]
           h == [x \in (1 .. L) \X St |-> MergeStep(eps, n, x[1], x[2])]
           Rule(f) == [k \in 0 .. L |->
             IF k = 0 THEN none
             ELSE IF eps[k].name # n \/ eps[k].targets = {} THEN f[k - 1]
             ELSE IF f[k - 1].targets = {} THEN eps[k] ELSE Merged(f[k - 1], eps[k])]
           g == CHOOSE f : f = Rule(f)
<1>1. L \in Nat /\ \A k \in 1 .. L : eps[k] \in St
  OBVIOUS
<1>2. none \in St
  BY DEF EndpointSet
<1>3. ASSUME NEW k \in 1 .. L, NEW a \in St PROVE MergeStep(eps, n, k, a) \in St
  <2>1. eps[k] \in St
    BY <1>1
  <2>2. \A b \in St : [a EXCEPT !.targets = @ \cup b.targets] \in St
    BY DEF EndpointSet
  <2>3. Merged(a, eps[k]) \in St
    <3> HIDE DEF St
    <3> QED BY <2>1, <2>2 DEF Merged
  <2> HIDE DEF St
  <2> QED BY <2>1, <2>3 DEF MergeStep
<1>4. ASSUME NEW k \in 1 .. L, NEW a \in St PROVE h[<<k, a>>] = MergeStep(eps, n, k, a)
  OBVIOUS
<1>5. h \in [(1 .. L) \X St -> St]
  BY <1>3
<1> HIDE DEF h, St, none
<1>6. PICK f \in [0 .. L -> St] : f[0] = none /\ \A k \in 1 .. L : f[k] = h[<<k, f[k - 1]>>]
  <2> HIDE DEF g, Rule, L
  <2>1. \E f : IsTrace(f, L, St, none, h)
    BY <1>1, <1>2, <1>5, TraceExists
  <2> QED BY <2>1 DEF IsTrace
<1>7. ASSUME NEW k \in 1 .. L PROVE f[k] = MergeStep(eps, n, k, f[k - 1]) /\ f[k - 1] \in St
  <2>1. k - 1 \in 0 .. L
    BY <1>1
  <2> QED BY <1>4, <1>6, <2>1
<1>8. f = Rule(f)
  <2>1. ASSUME NEW k \in 0 .. L, k # 0 PROVE k \in 1 .. L
    BY <1>1, <2>1
  <2>2. \A k \in 0 .. L : f[k] =
          IF k = 0 THEN none
          ELSE IF eps[k].name # n \/ eps[k].targets = {} THEN f[k - 1]
          ELSE IF f[k - 1].targets = {} THEN eps[k] ELSE Merged(f[k - 1], eps[k])
    BY <1>6, <1>7, <2>1 DEF MergeStep
  <2>3. f = [k \in 0 .. L |-> f[k]]
    BY <1>6
  <2> QED BY <2>2, <2>3
<1>9. g = Rule(g)
  BY <1>8
<1>10. MergedOf(eps, n) = g[L]
  BY DEF MergedOf, none
<1> HIDE DEF g
<1>11. g[0] = none
  BY <1>1, <1>9
<1>12. ASSUME NEW k \in 1 .. L PROVE g[k] = MergeStep(eps, n, k, g[k - 1])
  <2>1. k \in 0 .. L /\ k # 0
    BY <1>1
  <2> QED BY <1>9, <2>1 DEF MergeStep
<1> DEFINE P == {k \in 0 .. L : MergesTo(eps, N, T, n, k, g[k])}
<1>13. 0 \in P
  <2>1. Of(eps, n, 0) = {}
    BY DEF Of
  <2>2. none.targets = {} /\ none.type = "CNAME"
    BY DEF none
  <2> QED BY <1>1, <1>2, <1>11, <2>1, <2>2 DEF MergesTo, St
<1>14. ASSUME NEW k \in 1 .. L, k - 1 \in P PROVE k \in P
  <2>1. MergesTo(eps, N, T, n, k - 1, g[k - 1])
    BY <1>14
  <2> QED BY <1>1, <1>12, <2>1, MergeStepIs
<1>15. L \in P
  <2> HIDE DEF P, L
  <2>1. L \in 0 .. L
    BY <1>1
  <2> QED BY <1>1, <1>13, <1>14, <2>1, UpTo
<1> QED BY <1>10, <1>15

-----------------------------------------------------------------------------
(* The endpoints of a record                                               *)

\* The names by level: of the zone, the region and the whole domain.
LevelName(l, c) == IF l = 1 THEN ZoneName(c) ELSE IF l = 2 THEN RegionName(c) ELSE Global
Up(l, c) == IF l = 1 THEN {RegionName(c)} ELSE IF l = 2 THEN {Global} ELSE {}

\* The addresses of the clusters that share the name of c.
At(entries, l, c) ==
  UNION {Targets(d, entries[d]) : d \in {x \in DOMAIN entries : LevelName(l, x) = LevelName(l, c)}}

EndpointAt(entries, l, c) == Endpoint(LevelName(l, c), Targets(c, entries[c]), Up(l, c))

AllNames(S) == {ZoneName(c) : c \in S} \cup {RegionName(c) : c \in S} \cup {Global}
AllTargets(entries) == AllNames(DOMAIN entries) \cup UNION {Targets(c, entries[c]) : c \in DOMAIN entries}

\* A name is one of its level, says what is one level up, and is no address.
LEMMA Names ==
  /\ \A c, d : \A l, m \in 1 .. 3 : LevelName(l, c) = LevelName(m, d) => l = m /\ Up(l, c) = Up(m, d)
  /\ \A c, d, lb : \A l \in 1 .. 3 : LevelName(l, c) \notin Targets(d, lb)
<1> DEFINE first(l) == IF l = 1 THEN "zone" ELSE IF l = 2 THEN "region" ELSE "global"
<1>1. ASSUME NEW c, NEW l \in 1 .. 3 PROVE LevelName(l, c)[1] = first(l)
  BY DEF LevelName, ZoneName, RegionName, Global
<1>2. \A l, m \in 1 .. 3 : first(l) = first(m) => l = m
  OBVIOUS
<1>3. ASSUME NEW c, NEW d, ZoneName(c) = ZoneName(d) PROVE RegionName(c) = RegionName(d)
  <2>1. ZoneName(c)[2] = RegionOf[c] /\ ZoneName(d)[2] = RegionOf[d]
    BY DEF ZoneName
  <2> QED BY <1>3, <2>1 DEF RegionName
<1>4. ASSUME NEW c, NEW d, NEW l \in 1 .. 3, NEW m \in 1 .. 3, LevelName(l, c) = LevelName(m, d)
      PROVE  l = m /\ Up(l, c) = Up(m, d)
  <2>1. l = m
    BY <1>1, <1>2, <1>4
  <2>2. CASE l = 1
    BY <1>3, <1>4, <2>1, <2>2 DEF LevelName, Up
  <2>3. CASE l # 1
    BY <2>1, <2>3 DEF Up
  <2> QED BY <2>1, <2>2, <2>3
<1>5. ASSUME NEW c, NEW d, NEW lb, NEW l \in 1 .. 3, LevelName(l, c) \in Targets(d, lb) PROVE FALSE
  <2>1. LevelName(l, c) = <<"address", d, lb>>
    BY <1>5 DEF Targets
  <2>2. LevelName(l, c)[1] = "address"
    BY <2>1
  <2>3. first(l) # "address"
    OBVIOUS
  <2> QED BY <1>1, <2>2, <2>3
<1> QED BY <1>4, <1>5

\* The endpoints that the clusters of a record contribute, level by level.
Contributed(entries, order) ==
  LET level(l) == [k \in 1 .. Len(order) |-> ServiceEndpoints(order[k], entries[order[k]])[l]]
  IN  level(1) \o level(2) \o level(3)

\* The elements of two sequences that are joined.
LEMMA JoinedAt ==
  ASSUME NEW S, NEW s \in Seq(S), NEW t \in Seq(S)
  PROVE  /\ s \o t \in Seq(S) /\ Len(s \o t) = Len(s) + Len(t)
         /\ \A k \in 1 .. Len(s) : (s \o t)[k] = s[k]
         /\ \A k \in 1 .. Len(t) : (s \o t)[Len(s) + k] = t[k]
OBVIOUS

\* They are the endpoints of all the clusters at all levels.
LEMMA ContributedIs ==
  ASSUME NEW entries, IsFiniteSet(DOMAIN entries), NEW order \in SetToSeqs(DOMAIN entries)
  PROVE  LET eps == Contributed(entries, order)
         IN  /\ eps \in Seq(EndpointSet(AllNames(DOMAIN entries), AllTargets(entries)))
             /\ \A k \in 1 .. Len(eps) : \E l \in 1 .. 3 : \E c \in DOMAIN entries :
                  eps[k] = EndpointAt(entries, l, c)
             /\ \A l \in 1 .. 3 : \A c \in DOMAIN entries : \E k \in 1 .. Len(eps) :
                  eps[k] = EndpointAt(entries, l, c)
<1> DEFINE S == DOMAIN entries
           n == Cardinality(S)
           Ep == EndpointSet(AllNames(S), AllTargets(entries))
           level(l) == [k \in 1 .. Len(order) |-> ServiceEndpoints(order[k], entries[order[k]])[l]]
<1>1. n \in Nat
  BY FS_CardinalityType
<1>2. order \in [1 .. n -> S] /\ \A j, k \in 1 .. n : j # k => order[j] # order[k]
  BY DEF SetToSeqs
<1>3. \A c \in S : \E k \in 1 .. n : order[k] = c
  <2>1. order \in Injection(1 .. n, S)
    BY <1>2 DEF Injection, IsInjective
  <2>2. Cardinality(1 .. n) = n
    BY <1>1, FS_Interval
  <2>3. order \in Surjection(1 .. n, S)
    BY <1>1, <2>1, <2>2, FS_Injection
  <2> QED BY <2>3 DEF Surjection
<1>4. ASSUME NEW l \in 1 .. 3, NEW c \in S
      PROVE  ServiceEndpoints(c, entries[c])[l] = EndpointAt(entries, l, c)
  <2>1. CASE l = 1
    BY <2>1 DEF ServiceEndpoints, EndpointAt, LevelName, Up
  <2>2. CASE l = 2
    BY <2>2 DEF ServiceEndpoints, EndpointAt, LevelName, Up
  <2>3. CASE l = 3
    BY <2>3 DEF ServiceEndpoints, EndpointAt, LevelName, Up
  <2> QED BY <2>1, <2>2, <2>3
<1>5. ASSUME NEW l \in 1 .. 3, NEW c \in S PROVE EndpointAt(entries, l, c) \in Ep
  <2>1. LevelName(l, c) \in AllNames(S) /\ Up(l, c) \in SUBSET AllTargets(entries)
    BY DEF LevelName, Up, AllNames, AllTargets
  <2>2. Targets(c, entries[c]) \in SUBSET AllTargets(entries)
    BY DEF AllTargets
  <2> QED BY <2>1, <2>2 DEF EndpointAt, Endpoint, EndpointSet
<1>6. Len(order) = n
  BY <1>1, <1>2
<1> HIDE DEF n, Ep, S
<1>7. ASSUME NEW l \in 1 .. 3
      PROVE  /\ level(l) \in Seq(Ep) /\ Len(level(l)) = n
             /\ \A k \in 1 .. n : level(l)[k] = EndpointAt(entries, l, order[k])
  <2>1. \A k \in 1 .. n : ServiceEndpoints(order[k], entries[order[k]])[l] = EndpointAt(entries, l, order[k])
    BY <1>2, <1>4
  <2>2. \A k \in 1 .. n : EndpointAt(entries, l, order[k]) \in Ep
    BY <1>2, <1>5
  <2>3. level(l) \in [1 .. n -> Ep] /\ \A k \in 1 .. n : level(l)[k] = EndpointAt(entries, l, order[k])
    BY <1>6, <2>1, <2>2
  <2> HIDE DEF level
  <2> QED BY <1>1, <2>3
<1> DEFINE a == level(1)
           b == level(2)
           c == level(3)
           eps == (a \o b) \o c
<1>8. Contributed(entries, order) = eps
  BY DEF Contributed
<1>9. /\ a \in Seq(Ep) /\ b \in Seq(Ep) /\ c \in Seq(Ep)
      /\ Len(a) = n /\ Len(b) = n /\ Len(c) = n
      /\ \A k \in 1 .. n : /\ a[k] = EndpointAt(entries, 1, order[k])
                           /\ b[k] = EndpointAt(entries, 2, order[k])
                           /\ c[k] = EndpointAt(entries, 3, order[k])
  <2> HIDE DEF level
  <2>1. 1 \in 1 .. 3 /\ 2 \in 1 .. 3 /\ 3 \in 1 .. 3
    OBVIOUS
  <2> QED BY <1>7, <2>1
<1> HIDE DEF a, b, c, level
<1>10. /\ eps \in Seq(Ep) /\ Len(eps) = 3 * n
       /\ \A k \in 1 .. n : eps[k] = a[k] /\ eps[n + k] = b[k] /\ eps[2 * n + k] = c[k]
  <2> DEFINE ab == a \o b
  <2>0. a \in Seq(Ep) /\ b \in Seq(Ep) /\ c \in Seq(Ep) BY <1>9
  <2>1. /\ ab \in Seq(Ep) /\ Len(ab) = Len(a) + Len(b)
        /\ \A k \in 1 .. Len(a) : ab[k] = a[k]
        /\ \A k \in 1 .. Len(b) : ab[Len(a) + k] = b[k]
    BY ONLY <2>0, JoinedAt
  <2>2. /\ ab \in Seq(Ep) /\ Len(ab) = n + n
        /\ \A k \in 1 .. n : ab[k] = a[k] /\ ab[n + k] = b[k]
    <3> HIDE DEF ab
    <3> QED BY <1>9, <2>1
  <2> HIDE DEF ab
  <2>3. /\ ab \o c \in Seq(Ep) /\ Len(ab \o c) = Len(ab) + Len(c)
        /\ \A k \in 1 .. Len(ab) : (ab \o c)[k] = ab[k]
        /\ \A k \in 1 .. Len(c) : (ab \o c)[Len(ab) + k] = c[k]
    <3>1. ab \in Seq(Ep) BY <2>2
    <3> QED BY ONLY <2>0, <3>1, JoinedAt
  <2>4. eps = ab \o c
    BY DEF ab
  <2> HIDE DEF eps
  <2>5. eps \in Seq(Ep) /\ Len(eps) = 3 * n
    BY <1>1, <1>9, <2>2, <2>3, <2>4
  <2>6. ASSUME NEW k \in 1 .. n PROVE eps[k] = a[k] /\ eps[n + k] = b[k] /\ eps[2 * n + k] = c[k]
    <3>1. k \in 1 .. (n + n) /\ n + k \in 1 .. (n + n) /\ 2 * n + k = (n + n) + k
      BY <1>1
    <3>2. eps[k] = ab[k] /\ eps[n + k] = ab[n + k]
      BY <2>2, <2>3, <2>4, <3>1
    <3>3. eps[2 * n + k] = c[k]
      BY <1>9, <2>2, <2>3, <2>4, <3>1
    <3> QED BY <2>2, <3>2, <3>3
  <2> QED BY <2>5, <2>6
<1>11. \A k \in 1 .. 3 * n : k \in 1 .. n \/ (k - n \in 1 .. n /\ n + (k - n) = k)
                             \/ (k - 2 * n \in 1 .. n /\ 2 * n + (k - 2 * n) = k)
  BY <1>1
<1> HIDE DEF eps
<1>12. ASSUME NEW k \in 1 .. Len(eps)
       PROVE  \E l \in 1 .. 3 : \E d \in S : eps[k] = EndpointAt(entries, l, d)
  <2>1. CASE k \in 1 .. n
    BY <1>2, <1>9, <1>10, <2>1
  <2>2. CASE k - n \in 1 .. n /\ n + (k - n) = k
    <3>1. eps[k] = EndpointAt(entries, 2, order[k - n]) /\ order[k - n] \in S
      BY <1>2, <1>9, <1>10, <2>2
    <3> QED BY <3>1
  <2>3. CASE k - 2 * n \in 1 .. n /\ 2 * n + (k - 2 * n) = k
    <3>1. eps[k] = EndpointAt(entries, 3, order[k - 2 * n]) /\ order[k - 2 * n] \in S
      BY <1>2, <1>9, <1>10, <2>3
    <3> QED BY <3>1
  <2> QED BY <1>10, <1>11, <2>1, <2>2, <2>3
<1>13. ASSUME NEW l \in 1 .. 3, NEW d \in S
       PROVE  \E k \in 1 .. Len(eps) : eps[k] = EndpointAt(entries, l, d)
  <2>1. PICK k \in 1 .. n : order[k] = d
    BY <1>3
  <2>2. k \in 1 .. Len(eps) /\ n + k \in 1 .. Len(eps) /\ 2 * n + k \in 1 .. Len(eps)
    BY <1>1, <1>10
  <2>3. /\ eps[k] = EndpointAt(entries, 1, d) /\ eps[n + k] = EndpointAt(entries, 2, d)
        /\ eps[2 * n + k] = EndpointAt(entries, 3, d)
    BY <1>9, <1>10, <2>1
  <2>4. l = 1 \/ l = 2 \/ l = 3
    OBVIOUS
  <2> QED BY <2>2, <2>3, <2>4
<1> QED BY <1>8, <1>10, <1>12, <1>13 DEF Ep, S

\* What a record serves under a name: the addresses at its level, or the name one level up.
LEMMA ServedAt ==
  ASSUME NEW entries, IsFiniteSet(DOMAIN entries), NEW order \in SetToSeqs(DOMAIN entries),
         NEW l \in 1 .. 3, NEW c \in DOMAIN entries,
         At(entries, l, c) # {} \/ Up(l, c) # {}
  PROVE  LET served == getServiceDNSEndpoints(entries, order)
             n == LevelName(l, c)
         IN  /\ n \in DOMAIN served
             /\ served[n].targets = IF At(entries, l, c) # {} THEN At(entries, l, c) ELSE Up(l, c)
<1> DEFINE eps == Contributed(entries, order)
           N == AllNames(DOMAIN entries)
           T == AllTargets(entries)
           n == LevelName(l, c)
           L == Len(eps)
           e == MergedOf(eps, n)
           served == getServiceDNSEndpoints(entries, order)
<1>1. /\ eps \in Seq(EndpointSet(N, T))
      /\ \A k \in 1 .. L : \E m \in 1 .. 3 : \E d \in DOMAIN entries : eps[k] = EndpointAt(entries, m, d)
      /\ \A m \in 1 .. 3 : \A d \in DOMAIN entries : \E k \in 1 .. L : eps[k] = EndpointAt(entries, m, d)
  BY ContributedIs
<1>2. n \in N
  BY DEF LevelName, AllNames
<1>3. served = [x \in {eps[k].name : k \in {j \in 1 .. L : eps[j].targets # {}}} |-> MergedOf(eps, x)]
  BY DEF getServiceDNSEndpoints, Contributed, DedupeAndMergeEndpoints
<1> HIDE DEF eps, N, T, served
<1>4. MergesTo(eps, N, T, n, L, e)
  <2> HIDE DEF n
  <2> QED BY <1>1, <1>2, MergedOfIs
<1>5. ASSUME NEW k \in Of(eps, n, L)
      PROVE  \E d \in DOMAIN entries : LevelName(l, d) = n /\ eps[k] = Endpoint(n, Targets(d, entries[d]), Up(l, c))
  <2>1. k \in 1 .. L /\ eps[k].name = n
    BY DEF Of
  <2>2. PICK m \in 1 .. 3, d \in DOMAIN entries : eps[k] = EndpointAt(entries, m, d)
    BY <1>1, <2>1
  <2>3. LevelName(m, d) = n
    BY <2>1, <2>2 DEF EndpointAt, Endpoint
  <2>4. m = l /\ Up(m, d) = Up(l, c)
    BY <2>3, Names
  <2> QED BY <2>2, <2>3, <2>4 DEF EndpointAt
<1>6. ASSUME NEW d \in DOMAIN entries, LevelName(l, d) = n, Targets(d, entries[d]) # {} \/ Up(l, c) # {}
      PROVE  \E k \in Of(eps, n, L) : eps[k] = Endpoint(n, Targets(d, entries[d]), Up(l, c))
  <2>1. PICK k \in 1 .. L : eps[k] = EndpointAt(entries, l, d)
    BY <1>1
  <2>2. Up(l, d) = Up(l, c)
    BY <1>6, Names
  <2>3. eps[k] = Endpoint(n, Targets(d, entries[d]), Up(l, c))
    BY <1>6, <2>1, <2>2 DEF EndpointAt
  <2>4. eps[k].name = n /\ eps[k].targets # {}
    BY <1>6, <2>3 DEF Endpoint
  <2> QED BY <2>3, <2>4 DEF Of
<1>7. \A t : t \in At(entries, l, c) <=>
             \E d \in DOMAIN entries : LevelName(l, d) = n /\ t \in Targets(d, entries[d])
  BY DEF At
<1>8. \A ts, up : /\ Endpoint(n, ts, up).type = IF ts # {} THEN "A" ELSE "CNAME"
                  /\ Endpoint(n, ts, up).targets = IF ts # {} THEN ts ELSE up
  BY DEF Endpoint
<1> HIDE DEF n, e
<1>9. CASE At(entries, l, c) # {}
  <2>1. PICK d \in DOMAIN entries : LevelName(l, d) = n /\ Targets(d, entries[d]) # {}
    BY <1>7, <1>9
  <2>2. PICK k \in Of(eps, n, L) : eps[k] = Endpoint(n, Targets(d, entries[d]), Up(l, c))
    BY <1>6, <2>1
  <2>3. e.type = "A"
    BY <1>4, <1>8, <2>1, <2>2 DEF MergesTo
  <2>4. ASSUME NEW t \in e.targets PROVE t \in At(entries, l, c)
    <3>1. PICK j \in Of(eps, n, L) : eps[j].type = "A" /\ t \in eps[j].targets
      BY <1>4, <2>3 DEF MergesTo
    <3>2. PICK x \in DOMAIN entries : LevelName(l, x) = n /\ eps[j] = Endpoint(n, Targets(x, entries[x]), Up(l, c))
      BY <1>5
    <3>3. Targets(x, entries[x]) # {}
      BY <1>8, <3>1, <3>2
    <3> QED BY <1>7, <1>8, <3>1, <3>2, <3>3
  <2>5. ASSUME NEW t \in At(entries, l, c) PROVE t \in e.targets
    <3>1. PICK x \in DOMAIN entries : LevelName(l, x) = n /\ t \in Targets(x, entries[x])
      BY <1>7
    <3>2. PICK j \in Of(eps, n, L) : eps[j] = Endpoint(n, Targets(x, entries[x]), Up(l, c))
      BY <1>6, <3>1
    <3>3. eps[j].type = "A" /\ t \in eps[j].targets
      BY <1>8, <3>1, <3>2
    <3> QED BY <1>4, <2>3, <3>3 DEF MergesTo
  <2>6. n \in DOMAIN served /\ served[n] = e
    BY <1>3, <2>2 DEF Of, e
  <2>7. e.targets = At(entries, l, c)
    BY <2>4, <2>5
  <2> QED BY <1>9, <2>6, <2>7 DEF n, served
<1>10. CASE At(entries, l, c) = {}
  <2>1. \A d \in DOMAIN entries : LevelName(l, d) = n => Targets(d, entries[d]) = {}
    BY <1>7, <1>10
  <2>2. LevelName(l, c) = n
    BY DEF n
  <2>3. PICK k \in Of(eps, n, L) : eps[k] = Endpoint(n, Targets(c, entries[c]), Up(l, c))
    BY <1>6, <1>10, <2>2
  <2>4. ASSUME NEW j \in Of(eps, n, L) PROVE eps[j].type = "CNAME" /\ eps[j].targets = Up(l, c)
    <3>1. PICK x \in DOMAIN entries : LevelName(l, x) = n /\ eps[j] = Endpoint(n, Targets(x, entries[x]), Up(l, c))
      BY <1>5
    <3> QED BY <1>8, <2>1, <3>1
  <2>5. e.type = "CNAME"
    <3>1. e.type \in {"A", "CNAME"}
      BY <1>4 DEF MergesTo, EndpointSet
    <3>2. e.type # "A"
      BY <1>4, <2>4 DEF MergesTo
    <3> QED BY <3>1, <3>2
  <2>6. e.targets = Up(l, c)
    BY <1>4, <2>3, <2>4, <2>5 DEF MergesTo
  <2>7. n \in DOMAIN served /\ served[n] = e
    BY <1>3, <2>3 DEF Of, e
  <2> QED BY <1>10, <2>6, <2>7 DEF n, served
<1> QED BY <1>9, <1>10

\* It serves nothing but names.
LEMMA ServedNames ==
  ASSUME NEW entries, IsFiniteSet(DOMAIN entries), NEW order \in SetToSeqs(DOMAIN entries),
         NEW x \in DOMAIN getServiceDNSEndpoints(entries, order)
  PROVE  \E l \in 1 .. 3 : \E c \in DOMAIN entries : x = LevelName(l, c)
<1> DEFINE eps == Contributed(entries, order)
<1>1. x \in {eps[k].name : k \in {j \in 1 .. Len(eps) : eps[j].targets # {}}}
  BY DEF getServiceDNSEndpoints, Contributed, DedupeAndMergeEndpoints
<1>2. \A k \in 1 .. Len(eps) : \E l \in 1 .. 3 : \E c \in DOMAIN entries : eps[k] = EndpointAt(entries, l, c)
  BY ContributedIs
<1> HIDE DEF eps
<1>3. PICK k \in 1 .. Len(eps) : x = eps[k].name
  BY <1>1
<1>4. PICK l \in 1 .. 3, c \in DOMAIN entries : eps[k] = EndpointAt(entries, l, c)
  BY <1>2
<1>5. x = LevelName(l, c)
  BY <1>3, <1>4 DEF EndpointAt, Endpoint
<1> QED BY <1>5

\* A step of Resolve: a name is followed, an address stays.
Follow(eps, t) == UNION {IF n \in DOMAIN eps THEN eps[n].targets ELSE {n} : n \in t}

\* The zone of every cluster of a record resolves to what is nearest, and the name of a
\* region with an address has it, whatever the order of the endpoints was.
LEMMA NearestIs ==
  ASSUME NEW entries, IsFiniteSet(DOMAIN entries), NEW order \in SetToSeqs(DOMAIN entries),
         NEW c \in DOMAIN entries, At(entries, 3, c) # {}
  PROVE  LET served == getServiceDNSEndpoints(entries, order)
         IN  /\ Resolve(served, ZoneName(c)) = Nearest(entries, c)
             /\ Targets(c, entries[c]) # {} =>
                  Targets(c, entries[c]) \subseteq served[RegionName(c)].targets
<1> DEFINE served == getServiceDNSEndpoints(entries, order)
           zone == At(entries, 1, c)
           region == At(entries, 2, c)
           anywhere == At(entries, 3, c)
           goal == Nearest(entries, c)
<1>1. goal = IF zone # {} THEN zone ELSE IF region # {} THEN region ELSE anywhere
  <2>1. zone = UNION {Targets(d, entries[d]) : d \in {x \in DOMAIN entries : ZoneName(x) = ZoneName(c)}}
    BY DEF At, LevelName
  <2>2. region = UNION {Targets(d, entries[d]) : d \in {x \in DOMAIN entries : RegionName(x) = RegionName(c)}}
    BY DEF At, LevelName
  <2>3. anywhere = UNION {Targets(d, entries[d]) : d \in DOMAIN entries}
    <3>1. {x \in DOMAIN entries : LevelName(3, x) = LevelName(3, c)} = DOMAIN entries
      BY DEF LevelName
    <3> QED BY <3>1 DEF At
  <2> HIDE DEF zone, region, anywhere
  <2> QED BY <2>1, <2>2, <2>3 DEF Nearest
<1>2. /\ ZoneName(c) \in DOMAIN served
      /\ served[ZoneName(c)].targets = IF zone # {} THEN zone ELSE {RegionName(c)}
  <2>1. Up(1, c) = {RegionName(c)} /\ LevelName(1, c) = ZoneName(c)
    BY DEF Up, LevelName
  <2>2. 1 \in 1 .. 3 /\ Up(1, c) # {}
    BY <2>1
  <2>3. LevelName(1, c) \in DOMAIN served /\ served[LevelName(1, c)].targets = IF zone # {} THEN zone ELSE Up(1, c)
    BY <2>2, ServedAt
  <2> QED BY <2>1, <2>3
<1>3. /\ RegionName(c) \in DOMAIN served
      /\ served[RegionName(c)].targets = IF region # {} THEN region ELSE {Global}
  <2>1. Up(2, c) = {Global} /\ LevelName(2, c) = RegionName(c)
    BY DEF Up, LevelName
  <2>2. 2 \in 1 .. 3 /\ Up(2, c) # {}
    BY <2>1
  <2>3. LevelName(2, c) \in DOMAIN served /\ served[LevelName(2, c)].targets = IF region # {} THEN region ELSE Up(2, c)
    BY <2>2, ServedAt
  <2> QED BY <2>1, <2>3
<1>4. Global \in DOMAIN served /\ served[Global].targets = anywhere
  <2>1. LevelName(3, c) = Global /\ 3 \in 1 .. 3
    BY DEF LevelName
  <2>2. LevelName(3, c) \in DOMAIN served /\ served[LevelName(3, c)].targets = anywhere
    BY <2>1, ServedAt
  <2> QED BY <2>1, <2>2
<1>5. ASSUME NEW l \in 1 .. 3, NEW x \in At(entries, l, c) PROVE x \notin DOMAIN served
  <2>1. PICK d : x \in Targets(d, entries[d])
    BY DEF At
  <2> QED BY <2>1, Names, ServedNames
<1>6. Resolve(served, ZoneName(c)) = Follow(served, Follow(served, Follow(served, {ZoneName(c)})))
  BY DEF Resolve, Follow
<1>7. ASSUME NEW l \in 1 .. 3 PROVE Follow(served, At(entries, l, c)) = At(entries, l, c)
  BY <1>5 DEF Follow
<1>8. \A x \in DOMAIN served : Follow(served, {x}) = served[x].targets
  BY DEF Follow
<1>9. Targets(c, entries[c]) \subseteq region
  BY DEF At
<1>10. Follow(served, zone) = zone /\ Follow(served, region) = region /\ Follow(served, anywhere) = anywhere
  BY <1>7
<1> HIDE DEF served, zone, region, anywhere, goal
<1>11. Resolve(served, ZoneName(c)) = goal
  <2>1. CASE zone # {}
    BY <1>1, <1>2, <1>6, <1>8, <1>10, <2>1
  <2>2. CASE zone = {} /\ region # {}
    BY <1>1, <1>2, <1>3, <1>6, <1>8, <1>10, <2>2
  <2>3. CASE zone = {} /\ region = {}
    BY <1>1, <1>2, <1>3, <1>4, <1>6, <1>8, <1>10, <2>3
  <2> QED BY <2>1, <2>2, <2>3
<1>12. Targets(c, entries[c]) # {} => Targets(c, entries[c]) \subseteq served[RegionName(c)].targets
  BY <1>3, <1>9
<1> QED BY <1>11, <1>12 DEF served, goal

-----------------------------------------------------------------------------
(* The records and what is served for them                                 *)

HostOK ==
  /\ host \in [fed : Fed, domain : BOOLEAN, report : Reports, endpoint : {host.endpoint}]
  /\ cache \in [fed : Fed, report : Reports, domain : BOOLEAN]
  /\ pending \in BOOLEAN /\ all \in BOOLEAN /\ checked \in BOOLEAN
  /\ dns \in [report : Reports, pending : BOOLEAN, retries : 0 .. MaxRetries, gaveUp : BOOLEAN]

\* A DNS record has its status in itself: the two come and go together.
Owned ==
  DNS => /\ host.fed.deleting = FALSE
         /\ host.report.owner = host.fed.uid /\ cache.report.owner = cache.fed.uid
         /\ \A r \in {host.report, cache.report, dns.report} : r.owner = 0 => r.entries = << >>

Service == feature \in {"service", "anyservice"}

\* The DNSEndpoint is that of the record the controller has, once it is done with it.
UpToDate ==
  DNS /\ ~dns.pending /\ ~dns.gaveUp =>
    \E order \in SetToSeqs(DOMAIN dns.report.entries) : host.endpoint = Desired(order)

CollectorsInv == Inv /\ HostOK /\ Owned /\ UpToDate

\* What is reported of some clusters.
LEMMA ReportType ==
  /\ NoReport \in Reports
  /\ \A n \in Nat : \A S \in SUBSET Clusters : \A f \in [S -> Values] : [owner |-> n, entries |-> f] \in Reports
  /\ \A r \in Reports : /\ r.owner \in Nat /\ DOMAIN r.entries \in SUBSET Clusters
                        /\ r.entries \in [DOMAIN r.entries -> Values]
<1> DEFINE E == UNION {[some -> Values] : some \in SUBSET Clusters}
<1>1. ASSUME NEW S \in SUBSET Clusters, NEW f \in [S -> Values] PROVE f \in E
  OBVIOUS
<1>2. << >> \in [{} -> Values] /\ {} \in SUBSET Clusters
  OBVIOUS
<1>3. << >> \in E
  BY <1>2
<1>4. ASSUME NEW f \in E PROVE DOMAIN f \in SUBSET Clusters /\ f \in [DOMAIN f -> Values]
  <2>1. PICK S \in SUBSET Clusters : f \in [S -> Values]
    OBVIOUS
  <2>2. DOMAIN f = S
    BY <2>1
  <2> QED BY <2>1, <2>2
<1>5. Reports = [owner : Nat, entries : E]
  BY DEF Reports
<1> HIDE DEF E
<1>6. NoReport \in Reports
  BY <1>3, <1>5 DEF NoReport
<1>7. \A n \in Nat : \A S \in SUBSET Clusters : \A f \in [S -> Values] : [owner |-> n, entries |-> f] \in Reports
  BY <1>1, <1>5
<1>8. \A r \in Reports : r.owner \in Nat /\ r.entries \in E
  BY <1>5
<1> QED BY <1>4, <1>6, <1>7, <1>8

\* What is seen of a cluster is a value, and so is its load balancer.
LEMMA EntryType ==
  ASSUME InformerTypeOK, "target" \in AllViews
  PROVE  /\ \A v \in AllViews : \A c \in Clusters : GetByKey(v, c) \in Values
         /\ \A x \in Values : LoadBalancer(x) \in Values
         /\ clusterNames \in SUBSET Clusters
         /\ 0 \in Values
<1>1. ASSUME NEW v \in AllViews, NEW c \in Clusters PROVE GetByKey(v, c) \in Values
  <2>1. informers[v][c] \in Informer
    BY DEF InformerTypeOK
  <2> QED BY <2>1, InformerAssumption DEF GetByKey, Informer
<1>2. \A x \in Values : LoadBalancer(x) \in Values
  BY InformerAssumption DEF LoadBalancer
<1>3. clusterNames \in SUBSET Clusters
  BY DEF clusterNames, GetReadyClusters
<1> QED BY <1>1, <1>2, <1>3, InformerAssumption

\* Nothing but the record says what is to be served.
LEMMA DesiredSame ==
  ASSUME feature' = feature, dns'.report = dns.report
  PROVE  /\ (Service' <=> Service) /\ (DNS' <=> DNS)
         /\ \A order : Desired(order)' = Desired(order)
  BY DEF Desired, getEndpoints, Service, DNS

\* Steps that leave the records alone.
LEMMA RecordsFrame ==
  ASSUME HostOK, Owned, UpToDate, UNCHANGED <<feature, host, cache, dns>>,
         pending' \in BOOLEAN, all' \in BOOLEAN, checked' \in BOOLEAN
  PROVE  HostOK' /\ Owned' /\ UpToDate'
<1>1. feature' = feature /\ dns'.report = dns.report /\ host' = host /\ cache' = cache /\ dns' = dns
  OBVIOUS
<1>2. HostOK'
  BY <1>1 DEF HostOK
<1>3. Owned'
  BY <1>1 DEF Owned, DNS
<1>4. UpToDate'
  BY <1>1, DesiredSame DEF UpToDate
<1> QED BY <1>2, <1>3, <1>4

\* Steps that change the record or its status in the host, and not what is served.
LEMMA RecordStep ==
  ASSUME HostOK, Owned, UpToDate, UNCHANGED <<feature, cache, dns>>,
         pending' \in BOOLEAN, all' \in BOOLEAN, checked' \in BOOLEAN,
         NEW f \in Fed, NEW d \in BOOLEAN, NEW r \in Reports,
         host' = [host EXCEPT !.fed = f, !.domain = d, !.report = r],
         DNS => f.deleting = FALSE /\ r.owner = f.uid /\ (r.owner = 0 => r.entries = << >>)
  PROVE  HostOK' /\ Owned' /\ UpToDate'
<1>1. feature' = feature /\ dns'.report = dns.report /\ cache' = cache /\ dns' = dns
  OBVIOUS
<1>2. host'.fed = f /\ host'.domain = d /\ host'.report = r /\ host'.endpoint = host.endpoint
      /\ host' \in [fed : Fed, domain : BOOLEAN, report : Reports, endpoint : {host.endpoint}]
  BY DEF HostOK
<1>3. HostOK'
  BY <1>1, <1>2 DEF HostOK
<1>4. Owned'
  BY <1>1, <1>2 DEF Owned, DNS
<1>5. UpToDate'
  BY <1>1, <1>2, DesiredSame DEF UpToDate
<1> QED BY <1>3, <1>4, <1>5

\* Users create and delete the resource or record, and its Domain.
LEMMA UserRecords ==
  ASSUME CollectorsInv, UserChanges PROVE HostOK' /\ Owned' /\ UpToDate'
<1> DEFINE uid == used.events + 2
           fresh == [NoReport EXCEPT !.owner = uid]
<1>1. HostOK /\ Owned /\ UpToDate /\ UNCHANGED <<feature, cache, dns>>
      /\ pending' \in BOOLEAN /\ all' \in BOOLEAN /\ checked' \in BOOLEAN
  BY DEF CollectorsInv, HostOK, UserChanges
<1>2. host.fed \in Fed /\ host.domain \in BOOLEAN /\ host.report \in Reports
  BY <1>1 DEF HostOK
<1>3. uid \in Nat /\ uid # 0
  <2>1. used.events \in 0 .. MaxEvents
    BY DEF CollectorsInv, Inv, InformerTypeOK
  <2> QED BY <2>1, InformerAssumption
<1> HIDE DEF uid
<1>4. fresh \in Reports /\ fresh.owner = uid
  <2>1. fresh = [owner |-> uid, entries |-> << >>]
    BY DEF NoReport
  <2>2. NoReport.entries = << >> /\ NoReport \in Reports
    BY ReportType DEF NoReport
  <2> QED BY <1>3, <2>1, <2>2 DEF Reports
<1> HIDE DEF fresh
<1>5. CASE /\ host.fed.uid = 0
           /\ host' = [host EXCEPT !.fed.uid = uid, !.report = IF DNS THEN fresh ELSE @]
  <2> DEFINE f == [host.fed EXCEPT !.uid = uid]
             r == IF DNS THEN fresh ELSE host.report
  <2>1. f \in Fed /\ f.uid = uid /\ f.deleting = host.fed.deleting
    BY <1>2, <1>3 DEF Fed
  <2>2. r \in Reports
    BY <1>2, <1>4
  <2>3. host' = [host EXCEPT !.fed = f, !.domain = host.domain, !.report = r]
    BY <1>1, <1>5 DEF HostOK
  <2>4. DNS => f.deleting = FALSE /\ r.owner = f.uid /\ (r.owner = 0 => r.entries = << >>)
    BY <1>1, <1>3, <1>4, <2>1 DEF Owned
  <2> HIDE DEF f, r
  <2> QED BY <1>1, <1>2, <2>1, <2>2, <2>3, <2>4, RecordStep
<1>6. CASE DNS /\ host' = [host EXCEPT !.fed = NoFed, !.report = NoReport]
  <2>1. NoFed \in Fed /\ NoReport \in Reports /\ NoFed.deleting = FALSE
        /\ NoFed.uid = 0 /\ NoReport.owner = 0 /\ NoReport.entries = << >>
    BY ReportType DEF NoFed, Fed, NoReport
  <2>2. host' = [host EXCEPT !.fed = NoFed, !.domain = host.domain, !.report = NoReport]
    BY <1>1, <1>6 DEF HostOK
  <2> QED BY <1>1, <1>2, <2>1, <2>2, RecordStep
<1>7. CASE ~DNS /\ host' = [host EXCEPT !.fed.deleting = TRUE]
  <2> DEFINE f == [host.fed EXCEPT !.deleting = TRUE]
  <2>1. f \in Fed
    BY <1>2 DEF Fed
  <2>2. host' = [host EXCEPT !.fed = f, !.domain = host.domain, !.report = host.report]
    BY <1>1, <1>7 DEF HostOK
  <2> HIDE DEF f
  <2> QED BY <1>1, <1>2, <1>7, <2>1, <2>2, RecordStep
<1>8. CASE host' = [host EXCEPT !.domain = ~@]
  <2> DEFINE d == ~host.domain
  <2>1. d \in BOOLEAN
    OBVIOUS
  <2>2. host' = [host EXCEPT !.fed = host.fed, !.domain = d, !.report = host.report]
    BY <1>1, <1>8 DEF HostOK
  <2>3. DNS => host.fed.deleting = FALSE /\ host.report.owner = host.fed.uid
               /\ (host.report.owner = 0 => host.report.entries = << >>)
    BY <1>1 DEF Owned
  <2> HIDE DEF d
  <2> QED BY <1>1, <1>2, <2>1, <2>2, <2>3, RecordStep
<1> QED BY <1>5, <1>6, <1>7, <1>8 DEF UserChanges, uid, fresh

\* The finalizer of a federated resource is removed, and its status object with it; neither
\* is there for a DNS record.
LEMMA GoneRecords ==
  ASSUME CollectorsInv, Finalized \/ GarbageCollect PROVE HostOK' /\ Owned' /\ UpToDate'
<1>1. HostOK /\ Owned /\ UpToDate /\ UNCHANGED <<feature, cache, dns>>
      /\ pending' \in BOOLEAN /\ all' \in BOOLEAN /\ checked' \in BOOLEAN
  BY DEF CollectorsInv, HostOK, Finalized, GarbageCollect
<1>2. host.fed \in Fed /\ host.domain \in BOOLEAN /\ host.report \in Reports
  BY <1>1 DEF HostOK
<1>3. ~DNS
  BY <1>1 DEF Owned, Finalized, GarbageCollect
<1>4. NoFed \in Fed /\ NoReport \in Reports
  BY ReportType DEF NoFed, Fed
<1>5. CASE Finalized
  <2>1. host' = [host EXCEPT !.fed = NoFed, !.domain = host.domain, !.report = host.report]
    BY <1>1, <1>5 DEF HostOK, Finalized
  <2> QED BY <1>1, <1>2, <1>3, <1>4, <2>1, RecordStep
<1>6. CASE GarbageCollect
  <2>1. host' = [host EXCEPT !.fed = host.fed, !.domain = host.domain, !.report = NoReport]
    BY <1>1, <1>6 DEF HostOK, GarbageCollect
  <2> QED BY <1>1, <1>2, <1>3, <1>4, <2>1, RecordStep
<1> QED BY <1>5, <1>6

\* The informers of the host bring the cache up to date.
LEMMA InformedRecords ==
  ASSUME CollectorsInv, RecordInformed \/ StatusInformed \/ DomainInformed
  PROVE  HostOK' /\ Owned' /\ UpToDate'
<1>1. HostOK /\ Owned /\ UpToDate /\ UNCHANGED <<feature, host, dns>>
      /\ pending' \in BOOLEAN /\ all' \in BOOLEAN /\ checked' \in BOOLEAN
  BY DEF CollectorsInv, HostOK, RecordInformed, StatusInformed, DomainInformed
<1>2. host.fed \in Fed /\ host.domain \in BOOLEAN /\ host.report \in Reports
      /\ cache \in [fed : Fed, report : Reports, domain : BOOLEAN]
  BY <1>1 DEF HostOK
<1>3. /\ cache' \in [fed : Fed, report : Reports, domain : BOOLEAN]
      /\ DNS => \/ cache'.fed = host.fed /\ cache'.report = host.report
                \/ cache'.fed = cache.fed /\ cache'.report = cache.report
  <2>1. CASE RecordInformed
    <3>1. CASE DNS
      <4>1. cache' = [cache EXCEPT !.fed = host.fed, !.report = host.report]
        BY <2>1, <3>1 DEF RecordInformed
      <4> QED BY <1>2, <4>1
    <3>2. CASE ~DNS
      <4>1. cache' = [cache EXCEPT !.fed = host.fed]
        BY <2>1, <3>2 DEF RecordInformed
      <4> QED BY <1>2, <3>2, <4>1
    <3> QED BY <3>1, <3>2
  <2>2. CASE StatusInformed
    <3>1. ~DNS /\ cache' = [cache EXCEPT !.report = host.report]
      BY <2>2 DEF StatusInformed
    <3> QED BY <1>2, <3>1
  <2>3. CASE DomainInformed
    <3>1. cache' = [cache EXCEPT !.domain = host.domain]
      BY <2>3 DEF DomainInformed
    <3> QED BY <1>2, <3>1
  <2> QED BY <2>1, <2>2, <2>3
<1>4. feature' = feature /\ dns'.report = dns.report /\ host' = host /\ dns' = dns
  BY <1>1
<1>5. HostOK'
  BY <1>1, <1>3, <1>4 DEF HostOK
<1>6. Owned'
  BY <1>1, <1>3, <1>4 DEF Owned, DNS
<1>7. UpToDate'
  BY <1>1, <1>4, DesiredSame DEF UpToDate
<1> QED BY <1>5, <1>6, <1>7

\* A write puts a report in the place of the one that was read, of the same owner.
LEMMA WriteRecords ==
  ASSUME CollectorsInv, NEW r \in Reports, Write(r) \/ (Done /\ r = cache.report) \/
           (pending' = TRUE /\ UNCHANGED <<host, used>>),
         UNCHANGED <<feature, cache, all, dns>>, checked' = FALSE,
         DNS => r.owner = cache.report.owner /\ (r.owner = 0 => r.entries = << >>)
  PROVE  HostOK' /\ Owned' /\ UpToDate'
<1>1. HostOK /\ Owned /\ UpToDate /\ UNCHANGED <<feature, cache, dns>>
      /\ pending' \in BOOLEAN /\ all' \in BOOLEAN /\ checked' \in BOOLEAN
  BY DEF CollectorsInv, HostOK, Write, Done
<1>2. host.fed \in Fed /\ host.domain \in BOOLEAN /\ host.report \in Reports
  BY <1>1 DEF HostOK
<1>3. CASE host' = host
  BY <1>1, <1>3, RecordsFrame
<1>4. CASE host' # host
  <2>1. host.report = cache.report /\ host' = [host EXCEPT !.report = r]
    BY <1>4 DEF Write, Done
  <2>2. host' = [host EXCEPT !.fed = host.fed, !.domain = host.domain, !.report = r]
    BY <1>1, <2>1 DEF HostOK
  <2>3. DNS => host.fed.deleting = FALSE /\ r.owner = host.fed.uid
    BY <1>1, <2>1 DEF Owned
  <2> QED BY <1>1, <1>2, <2>2, <2>3, RecordStep
<1> QED BY <1>3, <1>4

\* Reconciliations write what they have read, for the owner that the record has.
LEMMA CollectRecords ==
  ASSUME CollectorsInv, Collect PROVE HostOK' /\ Owned' /\ UpToDate'
<1>1. UNCHANGED <<feature, cache, all, dns>> /\ checked' = FALSE
  BY DEF Collect
<1>2. cache.report \in Reports /\ cache.fed \in Fed /\ cache.report.owner \in Nat /\ cache.fed.uid \in Nat
  BY ReportType DEF CollectorsInv, HostOK, Fed
<1>3. InformerTypeOK /\ "target" \in AllViews /\ "endpoints" \in AllViews /\ Owned
  BY CollectorsAssumption DEF CollectorsInv, Inv
<1>4. /\ \A v \in AllViews : \A c \in Clusters : GetByKey(v, c) \in Values
      /\ \A x \in Values : LoadBalancer(x) \in Values
      /\ clusterNames \in SUBSET Clusters
      /\ 0 \in Values
  BY <1>3, EntryType
<1>5. DNS => (cache.report.owner = 0 => cache.report.entries = << >>) /\ cache.report.owner = cache.fed.uid
  BY <1>3 DEF Owned
<1>6. CASE Done \/ (pending' = TRUE /\ UNCHANGED <<host, used>>)
  BY <1>1, <1>2, <1>5, <1>6, WriteRecords
<1>7. ASSUME NEW e \in [clusterNames -> Values], DNS, cache.fed.uid # 0,
             Write([owner |-> cache.report.owner, entries |-> e])
      PROVE  HostOK' /\ Owned' /\ UpToDate'
  <2> DEFINE r == [owner |-> cache.report.owner, entries |-> e]
  <2>1. r \in Reports
    BY <1>2, <1>4, ReportType
  <2>2. r.owner = cache.report.owner /\ r.owner # 0
    BY <1>5, <1>7
  <2>3. Write(r)
    BY <1>7
  <2> HIDE DEF r
  <2> QED BY <1>1, <2>1, <2>2, <2>3, WriteRecords
<1>8. CASE feature = "status" /\ statusReconcile
  <2> DEFINE o == IF cache.report.owner = 0 THEN cache.fed.uid ELSE cache.report.owner
             r == [owner |-> o, entries |-> clusterStatuses]
  <2>1. clusterStatuses \in [clusterNames -> Values]
    <3>1. \A c \in clusterNames : GetByKey("target", c) \in Values
      BY <1>3, <1>4
    <3> HIDE DEF clusterNames
    <3> QED BY <3>1 DEF clusterStatuses
  <2>2. o \in Nat
    BY <1>2
  <2> HIDE DEF o
  <2>3. r \in Reports
    BY <1>4, <2>1, <2>2, ReportType
  <2>4. ~DNS
    BY <1>8 DEF DNS
  <2>5. Done \/ Write(r)
    BY <1>8 DEF statusReconcile, o
  <2> HIDE DEF r
  <2>6. CASE Write(r)
    BY <1>1, <2>3, <2>4, <2>6, WriteRecords
  <2> QED BY <1>6, <2>5, <2>6
<1>9. CASE feature \in {"service", "anyservice"} /\ serviceReconcile
  <2>1. fedDNSStatus \in [clusterNames -> Values]
    <3>1. \A c \in clusterNames :
            (IF feature = "anyservice" \/ serviceBackedByEndpointsInCluster(c)
             THEN LoadBalancer(GetByKey("target", c)) ELSE 0) \in Values
      BY <1>3, <1>4
    <3> HIDE DEF clusterNames
    <3> QED BY <3>1 DEF fedDNSStatus
  <2>2. DNS
    BY <1>9 DEF DNS
  <2>3. \/ Done \/ (pending' = TRUE /\ UNCHANGED <<host, used>>)
        \/ cache.fed.uid # 0 /\ Write([owner |-> cache.report.owner, entries |-> fedDNSStatus])
    BY <1>9 DEF serviceReconcile
  <2> QED BY <1>6, <1>7, <2>1, <2>2, <2>3
<1>10. CASE feature = "ingress" /\ ingressReconcile
  <2> DEFINE e == [c \in clusterNames |-> LoadBalancer(GetByKey("target", c))]
  <2>1. e \in [clusterNames -> Values]
    <3>1. \A c \in clusterNames : LoadBalancer(GetByKey("target", c)) \in Values
      BY <1>3, <1>4
    <3> HIDE DEF clusterNames
    <3> QED BY <3>1
  <2>2. DNS
    BY <1>10 DEF DNS
  <2>3. Done \/ (cache.fed.uid # 0 /\ Write([owner |-> cache.report.owner, entries |-> e]))
    BY <1>10 DEF ingressReconcile
  <2> HIDE DEF e
  <2> QED BY <1>6, <1>7, <2>1, <2>2, <2>3
<1> QED BY <1>8, <1>9, <1>10 DEF Collect

\* The DNS endpoint controller has the record it is to do, or has done.
LEMMA EndpointRecords ==
  ASSUME CollectorsInv, DNSInformed \/ processItem PROVE HostOK' /\ Owned' /\ UpToDate'
<1>1. HostOK /\ Owned /\ UpToDate /\ UNCHANGED <<feature, cache, pending, all, checked>>
  BY DEF CollectorsInv, DNSInformed, processItem
<1>2. /\ dns \in [report : Reports, pending : BOOLEAN, retries : 0 .. MaxRetries, gaveUp : BOOLEAN]
      /\ host.report \in Reports /\ MaxRetries \in Nat
  BY <1>1, CollectorsAssumption DEF HostOK
<1>a. 0 \in 0 .. MaxRetries
  BY <1>2
<1>3. CASE DNSInformed
  <2>1. DNS /\ host' = host /\ dns' = [dns EXCEPT !.report = host.report, !.pending = TRUE]
    BY <1>3 DEF DNSInformed
  <2>2. /\ dns' \in [report : Reports, pending : BOOLEAN, retries : 0 .. MaxRetries, gaveUp : BOOLEAN]
        /\ dns'.report = host.report /\ dns'.pending = TRUE
    BY <1>2, <2>1
  <2>3. HostOK'
    BY <1>1, <2>1, <2>2 DEF HostOK
  <2>4. Owned'
    BY <1>1, <2>1, <2>2 DEF Owned, DNS
  <2>5. UpToDate'
    BY <2>2 DEF UpToDate
  <2> QED BY <2>3, <2>4, <2>5
<1>4. ASSUME NEW order \in SetToSeqs(DOMAIN dns.report.entries),
             host' = [host EXCEPT !.endpoint = Desired(order)],
             dns' = [dns EXCEPT !.pending = FALSE, !.retries = 0, !.gaveUp = FALSE]
      PROVE  HostOK' /\ Owned' /\ UpToDate'
  <2>1. /\ dns' \in [report : Reports, pending : BOOLEAN, retries : 0 .. MaxRetries, gaveUp : BOOLEAN]
        /\ dns'.report = dns.report
    BY <1>2, <1>4, <1>a
  <2>2. PICK e : e = Desired(order)
    OBVIOUS
  <2>3. host' = [host EXCEPT !.endpoint = e]
    BY <1>4, <2>2
  <2>4. /\ host' \in [fed : Fed, domain : BOOLEAN, report : Reports, endpoint : {host'.endpoint}]
        /\ host'.endpoint = e /\ host'.fed = host.fed /\ host'.report = host.report
    BY <1>1, <2>3 DEF HostOK
  <2>5. HostOK'
    BY <1>1, <2>1, <2>4 DEF HostOK
  <2>6. Owned'
    BY <1>1, <2>1, <2>4 DEF Owned, DNS
  <2>7. host'.endpoint = Desired(order)'
    BY <1>1, <2>1, <2>2, <2>4, DesiredSame
  <2>8. UpToDate'
    BY <2>1, <2>7 DEF UpToDate
  <2> QED BY <2>5, <2>6, <2>8
<1>5. CASE /\ host' = host /\ dns.pending
           /\ dns' = IF Requeues(dns.retries) THEN [dns EXCEPT !.retries = @ + 1]
                     ELSE [dns EXCEPT !.pending = FALSE, !.retries = 0, !.gaveUp = TRUE]
  <2>1. /\ dns' \in [report : Reports, pending : BOOLEAN, retries : 0 .. MaxRetries, gaveUp : BOOLEAN]
        /\ dns'.report = dns.report /\ (dns'.pending \/ dns'.gaveUp)
    <3>1. CASE Requeues(dns.retries)
      <4>1. dns' = [dns EXCEPT !.retries = dns.retries + 1]
        BY <1>5, <3>1
      <4>2. dns.retries + 1 \in 0 .. MaxRetries
        BY <1>2, <3>1 DEF Requeues
      <4> QED BY <1>2, <1>5, <4>1, <4>2
    <3>2. CASE ~Requeues(dns.retries)
      <4>1. dns' = [dns EXCEPT !.pending = FALSE, !.retries = 0, !.gaveUp = TRUE]
        BY <1>5, <3>2
      <4> QED BY <1>2, <1>a, <4>1
    <3> QED BY <3>1, <3>2
  <2>2. HostOK'
    BY <1>1, <1>5, <2>1 DEF HostOK
  <2>3. Owned'
    BY <1>1, <1>5, <2>1 DEF Owned, DNS
  <2>4. UpToDate'
    BY <2>1 DEF UpToDate
  <2> QED BY <2>2, <2>3, <2>4
<1>6. CASE processItem
  BY <1>4, <1>5, <1>6 DEF processItem
<1> QED BY <1>3, <1>6

\* The first record is reported and served.
LEMMA InitRecords ==
  ASSUME Init PROVE CollectorsInv
<1>1. Inv
  BY InitType
<1> DEFINE S == {d \in Clusters : clusters[d].ready}
           entries == [c \in S |-> Truth(c)]
           report == [owner |-> 1, entries |-> entries]
<1>2. PICK order \in SetToSeqs(DOMAIN entries) :
        host = [fed |-> [NoFed EXCEPT !.uid = 1], domain |-> TRUE, report |-> report,
                endpoint |-> IF DNS THEN [made |-> TRUE, of |-> getEndpoints(report, order)]
                                    ELSE NoEndpoints]
  BY DEF Init
<1>3. /\ dns = [report |-> report, pending |-> FALSE, retries |-> 0, gaveUp |-> FALSE]
      /\ cache = [fed |-> host.fed, report |-> host.report, domain |-> TRUE]
      /\ pending = FALSE /\ all = FALSE /\ checked = FALSE
  BY DEF Init
<1>4. entries \in [S -> Values] /\ S \in SUBSET Clusters
  <2>1. ASSUME NEW c \in S PROVE Truth(c) \in Values
    <3>1. objects["target"][c] \in Values /\ objects["endpoints"][c] \in Values
      BY <1>1, CollectorsAssumption DEF Inv, InformerTypeOK
    <3>2. LoadBalancer(objects["target"][c]) \in Values /\ 0 \in Values
      BY <3>1, InformerAssumption DEF LoadBalancer
    <3> QED BY <3>1, <3>2 DEF Truth
  <2> HIDE DEF S
  <2>2. entries \in [S -> Values]
    BY <2>1
  <2> QED BY <2>2 DEF S
<1> HIDE DEF entries, S
<1>5. report \in Reports /\ report.owner = 1
  BY <1>4, ReportType
<1>6. [NoFed EXCEPT !.uid = 1] \in Fed /\ [NoFed EXCEPT !.uid = 1].uid = 1
      /\ [NoFed EXCEPT !.uid = 1].deleting = FALSE
  BY DEF NoFed, Fed
<1> DEFINE f == [NoFed EXCEPT !.uid = 1]
<1> HIDE DEF f, report
<1>7. host.fed = f /\ host.domain = TRUE /\ host.report = report
      /\ host \in [fed : Fed, domain : BOOLEAN, report : Reports, endpoint : {host.endpoint}]
  <2>1. f \in Fed
    BY <1>6 DEF f
  <2>2. PICK e : host = [fed |-> f, domain |-> TRUE, report |-> report, endpoint |-> e]
    BY <1>2 DEF f
  <2> QED BY <1>5, <2>1, <2>2
<1>8. HostOK
  <2>1. 0 \in 0 .. MaxRetries
    BY CollectorsAssumption
  <2>2. cache \in [fed : Fed, report : Reports, domain : BOOLEAN]
    BY <1>3, <1>7
  <2>3. dns \in [report : Reports, pending : BOOLEAN, retries : 0 .. MaxRetries, gaveUp : BOOLEAN]
    BY <1>3, <1>5, <2>1
  <2> QED BY <1>3, <1>7, <2>2, <2>3 DEF HostOK
<1>9. Owned
  <2>1. cache.fed = f /\ cache.report = report /\ dns.report = report
    BY <1>3, <1>7
  <2>2. f.uid = 1 /\ f.deleting = FALSE
    BY <1>6 DEF f
  <2> QED BY <1>5, <1>7, <2>1, <2>2 DEF Owned
<1>10. UpToDate
  <2>1. SUFFICES ASSUME DNS PROVE \E o \in SetToSeqs(DOMAIN dns.report.entries) : host.endpoint = Desired(o)
    BY DEF UpToDate
  <2>2. host.endpoint = [made |-> TRUE, of |-> getEndpoints(report, order)]
    BY <1>2, <2>1
  <2>3. dns.report = report /\ report.entries = entries
    BY <1>3 DEF report
  <2>4. host.endpoint = Desired(order)
    BY <1>5, <2>2, <2>3 DEF Desired
  <2> QED BY <2>3, <2>4
<1> QED BY <1>1, <1>8, <1>9, <1>10 DEF CollectorsInv

\* Every step preserves the invariant.
LEMMA CollectorsStep ==
  ASSUME CollectorsInv, [Next]_vars PROVE CollectorsInv'
<1>1. Inv' /\ HostOK /\ Owned /\ UpToDate
  BY InvStep DEF CollectorsInv
<1>2. pending \in BOOLEAN /\ all \in BOOLEAN /\ checked \in BOOLEAN
  BY <1>1 DEF HostOK
<1>3. CASE UNCHANGED hostVars
  BY <1>1, <1>2, <1>3, RecordsFrame DEF hostVars, CollectorsInv
<1>4. CASE Environment \/ (\E c \in Clusters : GetClient(c)) \/ UNCHANGED vars
  BY <1>3, <1>4 DEF Environment, GetClient, vars
<1>5. CASE UserChanges
  BY <1>1, <1>5, UserRecords DEF CollectorsInv
<1>6. CASE Finalized \/ GarbageCollect
  BY <1>1, <1>6, GoneRecords DEF CollectorsInv
<1>7. CASE RecordInformed \/ StatusInformed \/ DomainInformed
  BY <1>1, <1>7, InformedRecords DEF CollectorsInv
<1>8. ASSUME NEW v \in AllViews, Lifecycle(v) PROVE CollectorsInv'
  <2>1. UNCHANGED <<feature, host, cache, dns>> /\ pending' = pending /\ checked' = checked /\ all' \in BOOLEAN
    BY <1>2, <1>8 DEF Lifecycle
  <2> QED BY <1>1, <1>2, <2>1, RecordsFrame DEF CollectorsInv
<1>9. ASSUME NEW v \in AllViews, NEW c \in Clusters, TargetEvent(v, c) PROVE CollectorsInv'
  <2>1. UNCHANGED <<feature, host, cache, dns>> /\ all' = all /\ checked' = checked /\ pending' \in BOOLEAN
    BY <1>2, <1>9 DEF TargetEvent
  <2> QED BY <1>1, <1>2, <2>1, RecordsFrame DEF CollectorsInv
<1>10. CASE reconcileOnClusterChange \/ Check
  <2>1. UNCHANGED <<feature, host, cache, dns>> /\ all' \in BOOLEAN /\ checked' \in BOOLEAN /\ pending' \in BOOLEAN
    BY <1>2, <1>10 DEF reconcileOnClusterChange, Check
  <2> QED BY <1>1, <2>1, RecordsFrame DEF CollectorsInv
<1>11. CASE Collect
  BY <1>1, <1>11, CollectRecords DEF CollectorsInv
<1>12. CASE DNSInformed \/ processItem
  BY <1>1, <1>12, EndpointRecords DEF CollectorsInv
<1> QED BY <1>4, <1>5, <1>6, <1>7, <1>8, <1>9, <1>10, <1>11, <1>12 DEF Next

\* The invariant says what is served.
LEMMA InvNearest ==
  ASSUME CollectorsInv PROVE NearestServed
<1>1. TypeOK
  BY DEF CollectorsInv, Inv, HostOK, TypeOK
<1> DEFINE entries == dns.report.entries
           some == {c \in DOMAIN entries : entries[c] # 0}
<1>2. dns.report \in Reports /\ DOMAIN entries \in SUBSET Clusters /\ entries \in [DOMAIN entries -> Values]
  BY ReportType DEF CollectorsInv, HostOK
<1>3. IsFiniteSet(DOMAIN entries)
  BY <1>2, InformerAssumption, FS_Subset
<1>4. ASSUME Service, ~dns.pending, ~dns.gaveUp
      PROVE  /\ some # {} => \A c \in DOMAIN entries :
                  Resolve(host.endpoint.of, ZoneName(c)) = Nearest(entries, c)
             /\ \A c \in some : Targets(c, entries[c]) \subseteq host.endpoint.of[RegionName(c)].targets
  <2>1. SUFFICES ASSUME NEW d \in some
                 PROVE  \A c \in DOMAIN entries :
                          /\ Resolve(host.endpoint.of, ZoneName(c)) = Nearest(entries, c)
                          /\ c \in some => Targets(c, entries[c]) \subseteq host.endpoint.of[RegionName(c)].targets
    OBVIOUS
  <2>2. d \in DOMAIN entries /\ entries[d] # 0
    OBVIOUS
  <2>3. dns.report.owner # 0
    <3>1. DNS
      BY <1>4 DEF DNS, Service
    <3>2. SUFFICES ASSUME dns.report.owner = 0 PROVE FALSE
      OBVIOUS
    <3>3. entries = << >>
      BY <3>1, <3>2 DEF CollectorsInv, Owned
    <3> QED BY <2>2, <3>3
  <2>4. PICK order \in SetToSeqs(DOMAIN entries) : host.endpoint = Desired(order)
    BY <1>4 DEF CollectorsInv, UpToDate, DNS, Service
  <2>5. host.endpoint.of = getServiceDNSEndpoints(entries, order)
    <3>1. feature # "ingress"
      BY <1>4 DEF Service
    <3> QED BY <2>3, <2>4, <3>1 DEF Desired, getEndpoints
  <2> HIDE DEF entries
  <2>6. ASSUME NEW c \in DOMAIN entries
        PROVE  /\ Resolve(host.endpoint.of, ZoneName(c)) = Nearest(entries, c)
               /\ c \in some => Targets(c, entries[c]) \subseteq host.endpoint.of[RegionName(c)].targets
    <3>1. At(entries, 3, c) # {}
      <4>1. <<"address", d, entries[d]>> \in Targets(d, entries[d])
        BY <2>2 DEF Targets
      <4>2. LevelName(3, d) = LevelName(3, c)
        BY DEF LevelName
      <4> QED BY <2>2, <4>1, <4>2 DEF At
    <3>2. c \in some => Targets(c, entries[c]) # {}
      BY DEF Targets
    <3>3. /\ Resolve(getServiceDNSEndpoints(entries, order), ZoneName(c)) = Nearest(entries, c)
          /\ Targets(c, entries[c]) # {} =>
               Targets(c, entries[c]) \subseteq getServiceDNSEndpoints(entries, order)[RegionName(c)].targets
      BY <1>3, <3>1, NearestIs
    <3> QED BY <2>5, <3>2, <3>3
  <2> QED BY <2>6
<1> QED BY <1>1, <1>4 DEF NearestServed, Service
-----------------------------------------------------------------------------
\* Informer and client of every cluster are those of the cluster in the store as
\* soon as its handler has run, for any clusters, views and bounds: no order of
\* registrations, edits, health changes, removals, handlers, failures to start an
\* informer and calls of GetClientForCluster leaves an informer of a cluster that is
\* offline or a client for an earlier spec (federated_informer.go:188-247, 323-357,
\* 460-470).  What tombstones leave behind is in deaf.
THEOREM InformersAreCurrent == Spec => []InformersCurrent
<1>1. Init => Inv BY InitType
<1>2. Inv /\ [Next]_vars => Inv' BY InvStep
<1>3. Inv => InformersCurrent
  <2> SUFFICES ASSUME Inv, NEW v \in AllViews, NEW c \in Clusters,
                      handling[v] = NoChange, <<v, c>> \notin deaf
               PROVE  /\ informers[v][c].spec \in {0, known[v][c].spec}
                      /\ informers[v][c].spec # 0 => known[v][c].ready
                      /\ clients[v][c] \in {0, known[v][c].spec}
    BY DEF InformersCurrent
  <2>1. Follows(v, c) BY DEF Inv
  <2>2. Seen(v, c) = known[v][c] BY DEF Seen, Due
  <2> QED BY <2>1, <2>2 DEF Follows
<1> QED BY <1>1, <1>2, <1>3, PTL DEF Spec

\* Whatever clusters, regions, zones and bounds there are, once the DNS endpoint controller
\* is done with a record the zone of each of its clusters resolves to the nearest addresses:
\* the order in which the endpoints of a name are merged makes no difference, an A record is
\* never lost to a CNAME, and no reconciliation, conflict or retry leaves the endpoints of an
\* earlier record (dnsendpoint/common.go:121, controller.go:161).
THEOREM NearestIsServed == Spec => []NearestServed
<1>1. Init => CollectorsInv
  BY InitRecords
<1>2. CollectorsInv /\ [Next]_vars => CollectorsInv'
  BY CollectorsStep
<1>3. CollectorsInv => NearestServed
  BY InvNearest
<1> QED BY <1>1, <1>2, <1>3, PTL DEF Spec

\* What Served comes to once the DNS endpoint controller has heard of the record and is done
\* with it, without having given up (dnsendpoint/controller.go:175).
ServedAtRest ==
  DNS /\ ~dns.gaveUp /\ ~dns.pending /\ dns.report = host.report => RecordServed

\* For any clusters, regions and bounds, the DNSEndpoint is that of the record and gone with
\* it whenever the controller is done with the record of the host, for services and ingresses:
\* a record that is deleted, made again, or changed while a failed call is retried leaves no
\* endpoints of an earlier one.
THEOREM RecordsAreServed == Spec => []ServedAtRest
<1>1. Init => CollectorsInv
  BY InitRecords
<1>2. CollectorsInv /\ [Next]_vars => CollectorsInv'
  BY CollectorsStep
<1>3. CollectorsInv => ServedAtRest
  <2> SUFFICES ASSUME CollectorsInv, DNS, ~dns.gaveUp, ~dns.pending, dns.report = host.report
               PROVE  RecordServed
    BY DEF ServedAtRest
  <2>1. PICK order \in SetToSeqs(DOMAIN host.report.entries) : host.endpoint = Desired(order)
    BY DEF CollectorsInv, UpToDate
  <2>2. CASE host.report.owner = 0
    <3>1. host.endpoint.made = FALSE
      BY <2>1, <2>2 DEF Desired, NoEndpoints
    <3> QED BY <2>2, <3>1 DEF RecordServed
  <2>3. CASE host.report.owner # 0
    <3>1. host.endpoint.made = TRUE /\ host.endpoint.of = getEndpoints(host.report, order)
      BY <2>1, <2>3 DEF Desired
    <3> QED BY <2>1, <2>3, <3>1 DEF RecordServed
  <2> QED BY <2>2, <2>3
<1> QED BY <1>1, <1>2, <1>3, PTL DEF Spec

-----------------------------------------------------------------------------
(* Reports at rest                                                         *)

\* The change a handler is to see makes it delete or add an informer.
Fires(v) ==
  /\ handling[v] # NoChange
  /\ LET old == handling[v].old
         new == known[v][handling[v].cluster]
     IN  HandlerDeletes(old, new) \/ HandlerAdds(old, new)

\* A reconciliation of everything is due, or will be once the handler has run.
Prompted == all \/ Fires("target")

\* Clusters that are ready exist, where the user and where the store sees them.
Registered ==
  \A c \in Clusters : /\ clusters[c].ready => clusters[c].spec # 0
                      /\ \A v \in AllViews : known[v][c].ready => known[v][c].spec # 0

\* Every ready cluster has its informer, unless the lifecycle handlers are yet to tell.
Attended == ~Prompted => \A c \in clusterNames : informers["target"][c].spec # 0

\* No informer was left behind by a tombstone.
NoneLeft == \A c \in Clusters : informers["target"][c].spec # 0 => c \in clusterNames

\* What the stores say of a cluster.  The address of a service stands for Endpoints that are
\* in the store or missing from it.
EntryOf(c, x) ==
  LET t == GetByKey("target", c)
      e == GetByKey("endpoints", c)
  IN  CASE feature = "status" -> x = t
        [] feature = "service" -> (x = 0 /\ e # 2) \/ (x = LoadBalancer(t) /\ e \in {0, 2})
        [] OTHER -> x = LoadBalancer(t)

\* A report that says of the ready clusters what the stores say.
Right(r) ==
  /\ r.owner # 0 /\ DOMAIN r.entries = clusterNames
  /\ \A c \in clusterNames : EntryOf(c, r.entries[c])

\* The uid of the next resource was not used before.
Fresh == \A f \in {host.fed, cache.fed} : f.uid < used.events + 2

\* The controller has nothing left to do for a resource that is to be reported.
Idle ==
  /\ feature # "sync" /\ ~Prompted /\ ~pending /\ ~checked /\ NoneLeft
  /\ cache.fed.uid # 0 /\ ~cache.fed.deleting /\ (Service => cache.domain)
  /\ cache.fed = host.fed

\* Then its cached report is right, or behind the one it wrote and not what that will become.
Noted ==
  \/ Right(cache.report)
  \/ /\ cache.report # host.report
     /\ host.report.owner \notin {0, host.fed.uid} => cache.report # NoReport

\* Together with CollectorsInv, the inductive invariant.
ReportInv == Registered /\ (feature # "sync" => Attended) /\ Fresh /\ (Idle => Noted)

\* No event is on its way, no garbage is left to collect and nothing is due.
AtRest ==
  /\ ~pending /\ ~checked /\ ~all
  /\ cache.fed = host.fed /\ cache.report = host.report /\ cache.domain = host.domain
  /\ host.report.owner \in {0, host.fed.uid}
  /\ \A v \in views : /\ handling[v] = NoChange /\ known[v] = clusters
                      /\ \A c \in Clusters : informers[v][c].spec # 0 =>
                           informers[v][c].synced /\ informers[v][c].cached = objects[v][c]

\* What a controller at rest has reported: the ready clusters, each as its member says.
ReportedAtRest ==
  AtRest /\ Reportable =>
    Listed /\ \A c \in DOMAIN host.report.entries : host.report.entries[c] \in {Truth(c)} \cup Outdated(c)

\* A step that leaves the informer alone leaves alone what the stores say.
LEMMA InfSame ==
  ASSUME UNCHANGED infVars, feature' = feature
  PROVE  /\ Registered' <=> Registered
         /\ Fires("target")' <=> Fires("target")
         /\ NoneLeft' <=> NoneLeft
         /\ clusterNames' = clusterNames
         /\ \A r : Right(r)' <=> Right(r)
<1>1. known' = known /\ clusters' = clusters /\ handling' = handling /\ informers' = informers
  BY DEF infVars
<1>2. clusterNames' = clusterNames
  BY <1>1 DEF clusterNames, GetReadyClusters
<1>3. Registered' <=> Registered
  BY <1>1 DEF Registered
<1>4. Fires("target")' <=> Fires("target")
  BY <1>1 DEF Fires
<1>5. NoneLeft' <=> NoneLeft
  BY <1>1, <1>2 DEF NoneLeft
<1>6. \A c, x : EntryOf(c, x)' <=> EntryOf(c, x)
  BY <1>1 DEF EntryOf, GetByKey
<1>7. \A r : Right(r)' <=> Right(r)
  BY <1>2, <1>6 DEF Right
<1> QED BY <1>2, <1>3, <1>4, <1>5, <1>7

\* What a report says stays right as long as the stores say the same of the ready clusters,
\* or nothing of their Endpoints.
LEMMA RightStays ==
  ASSUME feature' = feature, clusterNames' = clusterNames,
         \A c \in clusterNames : /\ GetByKey("target", c)' = GetByKey("target", c)
                                 /\ GetByKey("endpoints", c)' \in {0, GetByKey("endpoints", c)},
         NEW r, Right(r)
  PROVE  Right(r)'
<1>1. ASSUME NEW c \in clusterNames PROVE EntryOf(c, r.entries[c])'
  <2>1. EntryOf(c, r.entries[c])
    BY DEF Right
  <2>2. GetByKey("target", c)' = GetByKey("target", c)
        /\ GetByKey("endpoints", c)' \in {0, GetByKey("endpoints", c)}
    OBVIOUS
  <2> QED BY <2>1, <2>2 DEF EntryOf
<1> QED BY <1>1 DEF Right

\* A step of the informer.
LEMMA InformerReports ==
  ASSUME CollectorsInv, ReportInv, feature' = feature, host' = host, cache' = cache, checked' = checked,
         used'.events \in Nat, used'.events >= used.events, Registered', feature # "sync" => Attended',
         ~Prompted' /\ ~pending' /\ NoneLeft' /\ feature # "sync" =>
           /\ ~Prompted /\ ~pending /\ NoneLeft
           /\ \A r : Right(r) => Right(r)'
  PROVE  ReportInv'
<1>1. used.events \in Nat /\ host.fed.uid \in Nat /\ cache.fed.uid \in Nat
  BY InformerAssumption DEF CollectorsInv, Inv, InformerTypeOK, HostOK, Fed
<1>2. Fresh'
  BY <1>1 DEF ReportInv, Fresh
<1>3. ASSUME Idle' PROVE Noted'
  <2>1. Idle /\ \A r : Right(r) => Right(r)'
    BY <1>3 DEF Idle, Service
  <2>2. Noted
    BY <2>1 DEF ReportInv
  <2>3. Right(cache.report) => Right(cache.report)'
    <3>1. ASSUME NEW r, r = cache.report, Right(r) PROVE Right(cache.report)'
      <4>1. Right(r)'
        BY <2>1, <3>1
      <4> QED BY <3>1, <4>1 DEF Right, EntryOf
    <3> QED BY <3>1
  <2> QED BY <2>2, <2>3 DEF Noted
<1> QED BY <1>2, <1>3 DEF ReportInv

\* Events are counted up.
LEMMA EventsGrow ==
  ASSUME Inv, NEW what \in {"events", "faults"}, NEW n \in Nat, Spend(what, n)
  PROVE  used.events \in Nat /\ used'.events \in Nat /\ used'.events >= used.events
<1>1. used \in [events : 0 .. MaxEvents, faults : 0 .. MaxFaults] /\ MaxEvents \in Nat /\ MaxFaults \in Nat
  BY InformerAssumption DEF Inv, InformerTypeOK
<1>2. used.events \in Nat
  BY <1>1
<1>3. CASE what = "events"
  <2>1. used'.events = used.events + n
    BY <1>1, <1>3 DEF Spend
  <2> QED BY <1>2, <2>1
<1>4. CASE what = "faults"
  <2>1. used'.events = used.events
    BY <1>1, <1>4 DEF Spend
  <2> QED BY <1>2, <2>1
<1> QED BY <1>3, <1>4

\* The clusters and objects change, unseen by the informer.
LEMMA MemberReports ==
  ASSUME CollectorsInv, ReportInv, UNCHANGED hostVars,
         \/ \E c \in Clusters : ClusterChanges(c)
         \/ \E v \in AllViews, c \in Clusters : ObjectChanges(v, c)
  PROVE  ReportInv'
<1>0. Inv
  BY DEF CollectorsInv
<1>a. used.events \in Nat /\ used.events + 2 # 0
  <2>1. used \in [events : 0 .. MaxEvents, faults : 0 .. MaxFaults] /\ MaxEvents \in Nat
    BY <1>0, InformerAssumption DEF Inv, InformerTypeOK
  <2> QED BY <2>1
<1>1. /\ feature' = feature /\ host' = host /\ cache' = cache /\ checked' = checked /\ pending' = pending
      /\ all' = all /\ known' = known /\ handling' = handling /\ informers' = informers
  BY DEF hostVars, ClusterChanges, ObjectChanges
<1>2. used'.events \in Nat /\ used'.events >= used.events
  <2>1. Cardinality(views) \in Nat
    BY <1>0, ViewsFinite DEF Inv
  <2>2. Spend("events", Cardinality(views)) \/ Spend("events", 1)
    BY DEF ClusterChanges, ObjectChanges
  <2> QED BY <1>0, <2>1, <2>2, EventsGrow
<1>3. Registered'
  <2>1. Registered
    BY DEF ReportInv
  <2>2. CASE \E v \in AllViews, c \in Clusters : ObjectChanges(v, c)
    BY <1>1, <2>1, <2>2 DEF Registered, ObjectChanges
  <2>3. ASSUME NEW c \in Clusters, ClusterChanges(c) PROVE Registered'
    <3> DEFINE zs == IF "endpoints" \in views THEN BOOLEAN ELSE {TRUE}
    <3>1. PICK new \in IF clusters[c].spec = 0
                       THEN {[NoCluster EXCEPT !.spec = used.events + 2]}
                       ELSE {[clusters[c] EXCEPT !.spec = used.events + 2], NoCluster}
                            \cup {[clusters[c] EXCEPT !.ready = ~@, !.zoned = z] : z \in zs} :
              clusters' = [clusters EXCEPT ![c] = new]
      BY <2>3 DEF ClusterChanges
    <3>2. clusters \in [Clusters -> Cluster] /\ clusters[c] \in Cluster /\ used.events + 2 # 0
      <4>1. used.events + 2 # 0
        BY <1>a
      <4>2. clusters \in [Clusters -> Cluster]
        BY <1>0 DEF Inv, InformerTypeOK
      <4>3. clusters[c] \in Cluster
        BY <4>2
      <4> QED BY <4>1, <4>2, <4>3
    <3>3. new.ready => new.spec # 0
      <4>1. CASE clusters[c].spec = 0
        BY <3>1, <4>1 DEF NoCluster
      <4>2. CASE new = [clusters[c] EXCEPT !.spec = used.events + 2]
        <5>1. new.spec = used.events + 2
          BY <3>2, <4>2 DEF Cluster
        <5> QED BY <3>2, <5>1
      <4>a. CASE new = NoCluster
        BY <4>a DEF NoCluster
      <4>3. CASE clusters[c].spec # 0 /\ \E z \in zs : new = [clusters[c] EXCEPT !.ready = ~@, !.zoned = z]
        BY <3>2, <4>3 DEF Cluster
      <4> QED BY <3>1, <4>1, <4>2, <4>a, <4>3
    <3>4. \A d \in Clusters : clusters'[d] = IF d = c THEN new ELSE clusters[d]
      BY <3>1, <3>2
    <3> QED BY <1>1, <2>1, <3>3, <3>4 DEF Registered
  <2> QED BY <2>2, <2>3
<1>4. clusterNames' = clusterNames /\ (Prompted' <=> Prompted) /\ (NoneLeft' <=> NoneLeft)
  BY <1>1 DEF clusterNames, GetReadyClusters, Prompted, Fires, NoneLeft
<1>5. \A v, c : GetByKey(v, c)' = GetByKey(v, c)
  BY <1>1 DEF GetByKey
<1>6. \A r : Right(r) => Right(r)'
  BY <1>1, <1>4, <1>5, RightStays
<1>7. feature # "sync" => Attended'
  BY <1>1, <1>4 DEF ReportInv, Attended
<1> QED BY <1>1, <1>2, <1>3, <1>4, <1>6, <1>7, InformerReports

\* The store takes a change of a cluster.
LEMMA StoreReports ==
  ASSUME CollectorsInv, ReportInv, UNCHANGED hostVars,
         NEW v \in AllViews, NEW c \in Clusters, ClusterInformed(v, c)
  PROVE  ReportInv'
<1>0. Inv /\ Registered /\ "target" \in AllViews
  BY CollectorsAssumption DEF CollectorsInv, ReportInv
<1> DEFINE change == [cluster |-> c, old |-> known[v][c]]
<1>1. /\ feature' = feature /\ host' = host /\ cache' = cache /\ checked' = checked /\ pending' = pending
      /\ all' = all
      /\ handling[v] = NoChange /\ known' = [known EXCEPT ![v][c] = clusters[c]]
      /\ clusters' = clusters /\ informers' = informers
  BY DEF hostVars, ClusterInformed
<1>2. \/ handling' = [handling EXCEPT ![v] = change] /\ UNCHANGED used
      \/ clusters[c].spec = 0 /\ Spend("faults", 1) /\ UNCHANGED handling
  BY DEF ClusterInformed
<1>3. used.events \in Nat /\ used'.events \in Nat /\ used'.events >= used.events
  <2>1. used.events \in Nat
    BY <1>0, InformerAssumption DEF Inv, InformerTypeOK
  <2> QED BY <1>0, <1>2, <2>1, EventsGrow
<1>4. known \in [AllViews -> [Clusters -> Cluster]] /\ DOMAIN handling = AllViews
  BY <1>0 DEF Inv, InformerTypeOK
<1>5. \A w \in AllViews : \A d \in Clusters :
        known'[w][d] = IF w = v /\ d = c THEN clusters[c] ELSE known[w][d]
  BY <1>1, <1>4
<1>6. Registered'
  BY <1>0, <1>1, <1>5 DEF Registered
<1>7. change # NoChange
  <2>1. change.cluster # NoChange.cluster
    BY InformerAssumption DEF NoChange
  <2> QED BY <2>1
<1>8. ASSUME ~Prompted'
      PROVE  ~Prompted /\ (\/ clusterNames' = clusterNames
                           \/ /\ clusterNames' = clusterNames \ {c} /\ c \in clusterNames)
  <2>1. ~all
    BY <1>1, <1>8 DEF Prompted
  <2>2. CASE v # "target"
    <3>1. known'["target"] = known["target"] /\ handling'["target"] = handling["target"]
      BY <1>0, <1>1, <1>2, <1>4, <2>2
    <3> QED BY <1>8, <2>1, <3>1 DEF Prompted, Fires, clusterNames, GetReadyClusters
  <2>3. CASE v = "target" /\ handling' = [handling EXCEPT ![v] = change]
    <3>1. ~Prompted
      BY <1>1, <2>1, <2>3 DEF Prompted, Fires
    <3>2. handling'["target"] = change
      BY <1>0, <1>4, <2>3
    <3>3. change.cluster = c /\ change.old = known["target"][c]
      BY <2>3
    <3>4. known'["target"][c] = clusters[c]
      BY <1>0, <1>5, <2>3
    <3> HIDE DEF change
    <3>5. ~HandlerDeletes(known["target"][c], clusters[c]) /\ ~HandlerAdds(known["target"][c], clusters[c])
      BY <1>7, <1>8, <3>2, <3>3, <3>4 DEF Prompted, Fires
    <3>6. known["target"][c] \in Cluster /\ clusters[c] \in Cluster
      BY <1>0 DEF Inv, InformerTypeOK
    <3>7. known["target"][c].ready = clusters[c].ready
      BY <1>0, <3>5, <3>6 DEF HandlerDeletes, HandlerAdds, Differs, Registered, Cluster
    <3>8. \A d \in Clusters : known'["target"][d].ready = known["target"][d].ready
      BY <1>0, <1>5, <3>7
    <3> QED BY <3>1, <3>8 DEF clusterNames, GetReadyClusters
  <2>4. CASE v = "target" /\ clusters[c].spec = 0 /\ UNCHANGED handling
    <3>1. ~Prompted
      BY <1>1, <2>1, <2>4 DEF Prompted, Fires
    <3>2. ~clusters[c].ready
      BY <1>0, <2>4 DEF Registered
    <3>3. clusterNames' = clusterNames \ {c}
      BY <1>0, <1>5, <2>4, <3>2 DEF clusterNames, GetReadyClusters
    <3> QED BY <3>1, <3>3
  <2> QED BY <1>2, <2>2, <2>3, <2>4
<1>9. feature # "sync" => Attended'
  BY <1>1, <1>8 DEF ReportInv, Attended
<1>10. ASSUME ~Prompted', ~pending', NoneLeft', feature # "sync"
       PROVE  /\ ~Prompted /\ ~pending /\ NoneLeft
              /\ \A r : Right(r) => Right(r)'
  <2>1. ~Prompted /\ ~pending
    BY <1>1, <1>8, <1>10
  <2>2. clusterNames' = clusterNames
    <3>1. c \in clusterNames => informers["target"][c].spec # 0
      BY <1>10, <2>1 DEF ReportInv, Attended
    <3>2. informers'["target"][c].spec # 0 => c \in clusterNames'
      BY <1>10 DEF NoneLeft
    <3> QED BY <1>1, <1>8, <1>10, <3>1, <3>2
  <2>3. NoneLeft
    BY <1>1, <1>10, <2>2 DEF NoneLeft
  <2>4. \A w, d : GetByKey(w, d)' = GetByKey(w, d)
    BY <1>1 DEF GetByKey
  <2>5. \A r : Right(r) => Right(r)'
    BY <1>1, <2>2, <2>4, RightStays
  <2> QED BY <2>1, <2>3, <2>5
<1> QED BY <1>1, <1>3, <1>6, <1>9, <1>10, InformerReports

\* The lifecycle handlers run.
LEMMA LifecycleReports ==
  ASSUME CollectorsInv, ReportInv, NEW v \in AllViews, Lifecycle(v)
  PROVE  ReportInv'
<1>0. Inv /\ Registered /\ "target" \in AllViews /\ "endpoints" \in AllViews
  BY CollectorsAssumption DEF CollectorsInv, ReportInv
<1> DEFINE c == handling[v].cluster
           old == handling[v].old
           new == known[v][c]
           added == [NoInformer EXCEPT !.spec = new.spec]
<1>1. /\ feature' = feature /\ host' = host /\ cache' = cache /\ checked' = checked /\ pending' = pending
      /\ known' = known /\ clusters' = clusters /\ handling' = [handling EXCEPT ![v] = NoChange]
      /\ handling[v] # NoChange
  BY DEF Lifecycle, HandlerRuns
<1>2. /\ UNCHANGED used \/ Spend("faults", 1)
      /\ \/ informers' = [informers EXCEPT ![v][c] = NoInformer] /\ Fires(v)
         \/ informers' = [informers EXCEPT ![v][c] = added] /\ Fires(v)
         \/ informers' = [informers EXCEPT ![v][c] = informers[v][c]]
  BY DEF Lifecycle, HandlerRuns, Fires
<1>3. all' = (all \/ (v = "target" /\ Fires(v) /\ feature # "sync"))
  BY <1>1 DEF Lifecycle, Fires
<1>4. used.events \in Nat /\ used'.events \in Nat /\ used'.events >= used.events
  <2>1. used.events \in Nat
    BY <1>0, InformerAssumption DEF Inv, InformerTypeOK
  <2> QED BY <1>0, <1>2, <2>1, EventsGrow
<1>5. informers \in [AllViews -> [Clusters -> Informer]] /\ DOMAIN handling = AllViews
  BY <1>0 DEF Inv, InformerTypeOK
<1>6. Registered' /\ clusterNames' = clusterNames
  BY <1>0, <1>1 DEF Registered, clusterNames, GetReadyClusters
<1>7. NoInformer.spec = 0 /\ NoInformer.cached = 0 /\ added.cached = 0
  BY DEF NoInformer
<1> HIDE DEF c, added
<1>8. ASSUME ~Prompted', feature # "sync"
      PROVE  /\ ~Prompted
             /\ informers'["target"] = informers["target"]
  <2>1. ~all
    BY <1>3, <1>8 DEF Prompted
  <2>2. CASE v = "target"
    <3>1. ~Fires("target")
      BY <1>3, <1>8, <2>2 DEF Prompted
    <3>2. informers' = [informers EXCEPT ![v][c] = informers[v][c]]
      BY <1>2, <2>2, <3>1
    <3> QED BY <1>0, <1>5, <2>1, <2>2, <3>1, <3>2 DEF Prompted
  <2>3. CASE v # "target"
    <3>1. handling'["target"] = handling["target"]
      BY <1>0, <1>1, <1>5, <2>3
    <3>2. Fires("target")' <=> Fires("target")
      BY <1>1, <3>1 DEF Fires
    <3>3. informers'["target"] = informers["target"]
      BY <1>0, <1>2, <1>5, <2>3
    <3> QED BY <1>8, <2>1, <3>2, <3>3 DEF Prompted
  <2> QED BY <2>2, <2>3
<1>9. feature # "sync" => Attended'
  BY <1>1, <1>6, <1>8 DEF ReportInv, Attended
<1>10. ASSUME NEW d \in Clusters
       PROVE  GetByKey("endpoints", d)' \in {0, GetByKey("endpoints", d)}
  <2>1. informers'["endpoints"][d] \in {NoInformer, added, informers["endpoints"][d]}
    BY <1>0, <1>2, <1>5
  <2> QED BY <1>7, <2>1 DEF GetByKey
<1>11. ASSUME ~Prompted', ~pending', NoneLeft', feature # "sync"
       PROVE  /\ ~Prompted /\ ~pending /\ NoneLeft
              /\ \A r : Right(r) => Right(r)'
  <2>1. ~Prompted /\ informers'["target"] = informers["target"]
    BY <1>8, <1>11
  <2>2. NoneLeft
    BY <1>6, <1>11, <2>1 DEF NoneLeft
  <2>3. \A d \in clusterNames : GetByKey("target", d)' = GetByKey("target", d)
    BY <2>1 DEF GetByKey
  <2>4. clusterNames \subseteq Clusters
    BY DEF clusterNames, GetReadyClusters
  <2>5. \A r : Right(r) => Right(r)'
    BY <1>1, <1>6, <1>10, <2>3, <2>4, RightStays
  <2> QED BY <1>1, <1>11, <2>1, <2>2, <2>5
<1> QED BY <1>1, <1>4, <1>6, <1>9, <1>11, InformerReports

\* An informer hears of what there is in its member.
LEMMA TargetReports ==
  ASSUME CollectorsInv, ReportInv, NEW v \in AllViews, NEW c \in Clusters, TargetEvent(v, c)
  PROVE  ReportInv'
<1>0. Inv /\ Registered /\ "target" \in AllViews
  BY CollectorsAssumption DEF CollectorsInv, ReportInv
<1> DEFINE new == [informers[v][c] EXCEPT !.synced = TRUE, !.cached = objects[v][c]]
<1>1. /\ feature' = feature /\ host' = host /\ cache' = cache /\ checked' = checked /\ all' = all
      /\ known' = known /\ clusters' = clusters /\ handling' = handling /\ used' = used
      /\ informers' = [informers EXCEPT ![v][c] = new]
      /\ pending' = (feature # "sync" /\ (pending \/ informers'[v][c].cached # informers[v][c].cached))
  BY DEF TargetEvent, TargetInformed
<1>2. used.events \in Nat
  BY <1>0, InformerAssumption DEF Inv, InformerTypeOK
<1>3. informers \in [AllViews -> [Clusters -> Informer]] /\ informers[v][c] \in Informer
  BY <1>0 DEF Inv, InformerTypeOK
<1>4. new.spec = informers[v][c].spec
  BY <1>3 DEF Informer
<1> HIDE DEF new
<1>5. \A w \in AllViews : \A d \in Clusters : informers'[w][d] = IF w = v /\ d = c THEN new ELSE informers[w][d]
  BY <1>1, <1>3
<1>6. /\ Registered' /\ clusterNames' = clusterNames /\ (Prompted' <=> Prompted)
      /\ clusterNames \subseteq Clusters
  BY <1>0, <1>1 DEF Registered, clusterNames, GetReadyClusters, Prompted, Fires
<1>7. \A d \in Clusters : informers'["target"][d].spec = informers["target"][d].spec
  BY <1>0, <1>4, <1>5
<1>8. (NoneLeft' <=> NoneLeft) /\ (feature # "sync" => Attended')
  BY <1>1, <1>6, <1>7 DEF NoneLeft, ReportInv, Attended
<1>9. ASSUME ~pending', feature # "sync"
      PROVE  ~pending /\ \A r : Right(r) => Right(r)'
  <2>1. ~pending /\ new.cached = informers[v][c].cached
    BY <1>1, <1>5, <1>9
  <2>2. \A w \in AllViews : \A d \in Clusters : GetByKey(w, d)' = GetByKey(w, d)
    BY <1>4, <1>5, <2>1 DEF GetByKey
  <2>3. \A r : Right(r) => Right(r)'
    BY <1>1, <1>6, <2>2, RightStays, CollectorsAssumption
  <2> QED BY <2>1, <2>3
<1>10. used'.events \in Nat /\ used'.events >= used.events
  BY <1>1, <1>2
<1> QED BY <1>1, <1>6, <1>8, <1>9, <1>10, InformerReports

\* A step of a controller, or of the host cluster.
LEMMA HostReports ==
  ASSUME CollectorsInv, ReportInv, UNCHANGED infVars, feature' = feature,
         used.events \in Nat, used'.events \in Nat, used'.events >= used.events,
         cache'.fed \in {cache.fed, host.fed}, host'.fed.uid \in {0, host.fed.uid},
         Idle' => Noted', feature # "sync" /\ all /\ ~all' => isSynced
  PROVE  ReportInv'
<1>1. /\ Registered' /\ clusterNames' = clusterNames
      /\ (Fires("target")' <=> Fires("target"))
  BY InfSame DEF ReportInv
<1>2. informers' = informers /\ host.fed.uid \in Nat /\ cache.fed.uid \in Nat
  BY DEF infVars, CollectorsInv, HostOK, Fed
<1>3. Fresh'
  BY <1>2 DEF ReportInv, Fresh
<1>4. ASSUME feature # "sync" PROVE Attended'
  <2>1. Attended
    BY <1>4 DEF ReportInv
  <2>2. CASE all /\ ~all'
    <3>1. ClustersSynced("target")
      BY <1>4, <2>2 DEF isSynced, CollectorsInv, Inv, ViewsOf
    <3>2. \A c \in clusterNames : informers["target"][c].spec # 0
      BY <3>1 DEF ClustersSynced, clusterNames
    <3> QED BY <1>1, <1>2, <3>2 DEF Attended
  <2>3. CASE ~(all /\ ~all')
    <3>1. Prompted => Prompted'
      BY <1>1, <2>3 DEF Prompted
    <3> QED BY <1>1, <1>2, <2>1, <3>1 DEF Attended
  <2> QED BY <2>2, <2>3
<1> QED BY <1>1, <1>3, <1>4 DEF ReportInv

\* The same, of steps that do not bring the controller to rest and write no report.
LEMMA IdleStays ==
  ASSUME ReportInv, UNCHANGED infVars, feature' = feature, cache' = cache, host'.fed = host.fed,
         host'.report = host.report, all => all', pending => pending', checked => checked', Idle'
  PROVE  Noted'
<1>1. /\ (Fires("target")' <=> Fires("target")) /\ (NoneLeft' <=> NoneLeft)
      /\ \A r : Right(r)' <=> Right(r)
  BY InfSame
<1>2. Idle
  BY <1>1 DEF Idle, Prompted, Service
<1>3. Noted
  BY <1>2 DEF ReportInv
<1>4. Right(cache.report) => Right(cache.report)'
  <2>1. ASSUME NEW r, r = cache.report, Right(r) PROVE Right(cache.report)'
    <3>1. Right(r)'
      BY <1>1, <2>1
    <3> QED BY <2>1, <3>1 DEF Right, EntryOf
  <2> QED BY <2>1
<1> QED BY <1>3, <1>4 DEF Noted

\* The host cluster changes.
LEMMA UserReports ==
  ASSUME CollectorsInv, ReportInv, UserChanges \/ Finalized \/ GarbageCollect
  PROVE  ReportInv'
<1>0. Inv /\ host.fed \in Fed /\ cache.fed \in Fed
      /\ host \in [fed : Fed, domain : BOOLEAN, report : Reports, endpoint : {host.endpoint}]
  BY DEF CollectorsInv, HostOK
<1>1. /\ UNCHANGED infVars /\ feature' = feature /\ cache' = cache /\ pending' = pending /\ all' = all
      /\ checked' = checked
  BY DEF UserChanges, Finalized, GarbageCollect
<1>2. used.events \in Nat /\ host.fed.uid \in Nat /\ cache.fed.uid \in Nat
  <2>1. used \in [events : 0 .. MaxEvents, faults : 0 .. MaxFaults] /\ MaxEvents \in Nat
    BY <1>0, InformerAssumption DEF Inv, InformerTypeOK
  <2> QED BY <1>0, <2>1 DEF Fed
<1>3. cache.fed.uid < used.events + 2 /\ host.fed.uid < used.events + 2
  BY DEF ReportInv, Fresh
<1>4. (Registered' <=> Registered) /\ clusterNames' = clusterNames /\ (Fires("target")' <=> Fires("target"))
  BY <1>1, InfSame
<1>5. Registered' /\ (feature # "sync" => Attended')
  <2>1. informers' = informers
    BY <1>1 DEF infVars
  <2> QED BY <1>1, <1>4, <2>1 DEF ReportInv, Attended, Prompted
<1>6. CASE UserChanges
  <2>1. used'.events = used.events + 1
    <3>1. used' = [used EXCEPT !.events = @ + 1]
      BY <1>6 DEF UserChanges, Spend
    <3> QED BY <1>0, <3>1 DEF Inv, InformerTypeOK
  <2>2. \/ host'.fed = host.fed /\ host'.report = host.report
        \/ host'.fed.uid = used.events + 2
        \/ host'.fed.uid = 0
        \/ host'.fed.deleting /\ host'.fed.uid = host.fed.uid
    <3> DEFINE uid == used.events + 2
    <3>1. CASE host' = [host EXCEPT !.fed.uid = uid,
                          !.report = IF DNS THEN [NoReport EXCEPT !.owner = uid] ELSE @]
      BY <1>0, <3>1 DEF Fed
    <3>2. CASE host' = [host EXCEPT !.fed = NoFed, !.report = NoReport]
      BY <1>0, <3>2 DEF NoFed
    <3>3. CASE host' = [host EXCEPT !.fed.deleting = TRUE]
      BY <1>0, <3>3 DEF Fed
    <3>4. CASE host' = [host EXCEPT !.domain = ~@]
      BY <1>0, <3>4
    <3> QED BY <1>6, <3>1, <3>2, <3>3, <3>4 DEF UserChanges
  <2>3. Fresh'
    BY <1>1, <1>2, <1>3, <2>1, <2>2 DEF Fresh
  <2>4. ASSUME Idle' PROVE Noted'
    <3>1. cache.fed = host'.fed /\ cache.fed.uid # 0 /\ ~cache.fed.deleting
      BY <1>1, <2>4 DEF Idle
    <3>2. host'.fed = host.fed /\ host'.report = host.report
      BY <1>2, <1>3, <2>2, <3>1
    <3> QED BY <1>1, <2>4, <3>2, IdleStays
  <2> QED BY <1>1, <1>5, <2>3, <2>4 DEF ReportInv
<1>7. CASE Finalized
  <2>1. host' = [host EXCEPT !.fed = NoFed] /\ used' = used
    BY <1>7 DEF Finalized
  <2>2. host'.fed.uid = 0
    BY <1>0, <2>1 DEF NoFed
  <2>3. Fresh'
    BY <1>1, <1>2, <1>3, <2>1, <2>2 DEF Fresh
  <2>4. ~Idle'
    BY <2>2 DEF Idle
  <2> QED BY <1>1, <1>5, <2>3, <2>4 DEF ReportInv
<1>8. CASE GarbageCollect
  <2>1. host.report.owner \notin {0, host.fed.uid} /\ host' = [host EXCEPT !.report = NoReport] /\ used' = used
    BY <1>8 DEF GarbageCollect
  <2>2. host'.fed = host.fed /\ host'.report = NoReport /\ NoReport.owner = 0
    BY <1>0, <2>1 DEF NoReport
  <2>3. Fresh'
    BY <1>1, <1>3, <2>1, <2>2 DEF Fresh
  <2>4. ASSUME Idle' PROVE Noted'
    <3>1. NoneLeft' <=> NoneLeft
      BY <1>1, InfSame
    <3>2. Idle
      BY <1>1, <1>4, <2>2, <2>4, <3>1 DEF Idle, Prompted, Service
    <3>3. Noted
      BY <3>2 DEF ReportInv
    <3>4. CASE Right(cache.report)
      <4>1. ASSUME NEW r, r = cache.report, Right(r) PROVE Right(cache.report)'
        <5>1. Right(r)'
          BY <1>1, <4>1, InfSame
        <5> QED BY <1>1, <4>1, <5>1 DEF Right, EntryOf
      <4> QED BY <3>4, <4>1 DEF Noted
    <3>5. CASE ~Right(cache.report)
      <4>1. cache.report # NoReport
        BY <2>1, <3>3, <3>5 DEF Noted
      <4> QED BY <1>1, <2>2, <4>1 DEF Noted
    <3> QED BY <3>4, <3>5
  <2> QED BY <1>1, <1>5, <2>3, <2>4 DEF ReportInv
<1> QED BY <1>6, <1>7, <1>8

\* The informers of the host, and the two ways to a reconciliation.
LEMMA PromptReports ==
  ASSUME CollectorsInv, ReportInv,
         RecordInformed \/ StatusInformed \/ DomainInformed \/ reconcileOnClusterChange \/ Check
  PROVE  ReportInv'
<1>0. Inv /\ cache \in [fed : Fed, report : Reports, domain : BOOLEAN]
  BY DEF CollectorsInv, HostOK
<1>1. UNCHANGED infVars /\ feature' = feature /\ host' = host /\ used' = used
  BY DEF RecordInformed, StatusInformed, DomainInformed, reconcileOnClusterChange, Check
<1>2. used.events \in Nat /\ host.fed.uid \in Nat
  <2>1. used \in [events : 0 .. MaxEvents, faults : 0 .. MaxFaults] /\ MaxEvents \in Nat
    BY <1>0, InformerAssumption DEF Inv, InformerTypeOK
  <2> QED BY <2>1 DEF CollectorsInv, HostOK, Fed
<1>3. cache'.fed \in {cache.fed, host.fed}
  BY <1>0 DEF RecordInformed, StatusInformed, DomainInformed, reconcileOnClusterChange, Check
<1>4. ~Idle'
  <2>1. CASE RecordInformed \/ StatusInformed
    BY <2>1 DEF RecordInformed, StatusInformed, Idle
  <2>2. CASE DomainInformed
    BY <2>2 DEF DomainInformed, Idle, Prompted
  <2>3. CASE reconcileOnClusterChange
    BY <2>3 DEF reconcileOnClusterChange, Idle
  <2>4. CASE Check
    BY <2>4 DEF Check, Idle
  <2> QED BY <2>1, <2>2, <2>3, <2>4
<1>5. all /\ ~all' => isSynced
  BY DEF RecordInformed, StatusInformed, DomainInformed, reconcileOnClusterChange, Check
<1>6. used'.events \in Nat /\ used'.events >= used.events /\ host'.fed.uid \in {0, host.fed.uid}
  BY <1>1, <1>2
<1> QED BY <1>1, <1>2, <1>3, <1>4, <1>5, <1>6, HostReports

\* A report that is written is right, unless the write was refused.
LEMMA WriteReports ==
  ASSUME CollectorsInv, UNCHANGED infVars, feature' = feature, cache' = cache,
         NEW r, Write(r), Right(r), r.owner \in {cache.report.owner, cache.fed.uid}, r.owner # 0, Idle'
  PROVE  Noted'
<1>1. cache.fed = host'.fed /\ ~pending'
  BY DEF Idle
<1>2. Right(r)'
  BY InfSame
<1>3. CASE cache.report = r
  <2>1. Right(cache.report)'
    BY <1>2, <1>3 DEF Right, EntryOf
  <2> QED BY <2>1 DEF Noted
<1>4. CASE cache.report # r /\ host' = [host EXCEPT !.report = r]
  <2>1. host'.report = r
    BY <1>4 DEF CollectorsInv, HostOK
  <2>2. cache.report = NoReport => r.owner = cache.fed.uid
    BY DEF NoReport
  <2> QED BY <1>1, <1>4, <2>1, <2>2 DEF Noted
<1> QED BY <1>1, <1>3, <1>4 DEF Write

\* A reconciliation writes what the stores say.
LEMMA CollectReports ==
  ASSUME CollectorsInv, ReportInv, Collect
  PROVE  ReportInv'
<1>0. /\ Inv /\ Owned /\ cache.report.owner \in Nat
      /\ host \in [fed : Fed, domain : BOOLEAN, report : Reports, endpoint : {host.endpoint}]
  BY ReportType DEF CollectorsInv, HostOK
<1>1. UNCHANGED infVars /\ feature' = feature /\ cache' = cache /\ all' = all /\ feature # "sync"
  BY DEF Collect
<1>2. ASSUME NEW r, Write(r) PROVE (UNCHANGED used \/ Spend("faults", 1)) /\ host'.fed = host.fed
  BY <1>0, <1>2 DEF Write
<1>3. (UNCHANGED used \/ Spend("faults", 1)) /\ host'.fed = host.fed
  <2>1. Done => UNCHANGED used /\ host'.fed = host.fed
    BY DEF Done
  <2>2. statusReconcile \/ serviceReconcile \/ ingressReconcile
    BY DEF Collect
  <2>3. CASE statusReconcile
    BY <1>2, <2>1, <2>3 DEF statusReconcile
  <2>4. CASE serviceReconcile
    BY <1>2, <2>1, <2>4 DEF serviceReconcile
  <2>5. CASE ingressReconcile
    BY <1>2, <2>1, <2>5 DEF ingressReconcile
  <2> QED BY <2>2, <2>3, <2>4, <2>5
<1>4. used.events \in Nat /\ used'.events \in Nat /\ used'.events >= used.events
  <2>1. used.events \in Nat
    <3>1. used \in [events : 0 .. MaxEvents, faults : 0 .. MaxFaults] /\ MaxEvents \in Nat
      BY <1>0, InformerAssumption DEF Inv, InformerTypeOK
    <3> QED BY <3>1
  <2> QED BY <1>0, <1>3, <2>1, EventsGrow
<1>5. ASSUME Idle' PROVE Noted'
  <2>1. ~pending' /\ cache.fed.uid # 0 /\ ~cache.fed.deleting /\ (Service => cache.domain)
    BY <1>1, <1>5 DEF Idle, Service
  <2>2. ASSUME NEW o, NEW e, DOMAIN e = clusterNames, \A c \in clusterNames : EntryOf(c, e[c]),
               Write([owner |-> o, entries |-> e]), o \in {cache.report.owner, cache.fed.uid}, o # 0
        PROVE  Noted'
    <3> DEFINE r == [owner |-> o, entries |-> e]
    <3>1. r.owner = o /\ r.entries = e /\ Write(r)
      BY <2>2
    <3> HIDE DEF r
    <3>2. Right(r)
      BY <2>2, <3>1 DEF Right
    <3> QED BY <1>1, <1>5, <2>2, <3>1, <3>2, WriteReports
  <2>3. DNS => cache.report.owner = cache.fed.uid
    BY <1>0 DEF Owned
  <2>4. CASE feature = "status" /\ statusReconcile
    <3> DEFINE o == IF cache.report.owner = 0 THEN cache.fed.uid ELSE cache.report.owner
    <3>1. Write([owner |-> o, entries |-> clusterStatuses])
      BY <2>1, <2>4 DEF statusReconcile
    <3>2. o \in {cache.report.owner, cache.fed.uid} /\ o # 0
      BY <2>1
    <3>3. DOMAIN clusterStatuses = clusterNames /\ \A c \in clusterNames : EntryOf(c, clusterStatuses[c])
      BY <2>4 DEF clusterStatuses, EntryOf
    <3> HIDE DEF o
    <3> QED BY <2>2, <3>1, <3>2, <3>3
  <2>5. CASE feature \in {"service", "anyservice"} /\ serviceReconcile
    <3>1. Write([owner |-> cache.report.owner, entries |-> fedDNSStatus])
      BY <2>1, <2>5 DEF serviceReconcile, Service
    <3>2. cache.report.owner # 0
      BY <2>1, <2>3, <2>5 DEF DNS
    <3>3. DOMAIN fedDNSStatus = clusterNames
      BY DEF fedDNSStatus
    <3>4. ASSUME NEW c \in clusterNames PROVE EntryOf(c, fedDNSStatus[c])
      <4>1. fedDNSStatus[c] = IF feature = "anyservice" \/ serviceBackedByEndpointsInCluster(c)
                              THEN LoadBalancer(GetByKey("target", c)) ELSE 0
        BY DEF fedDNSStatus
      <4> QED BY <2>5, <4>1 DEF EntryOf, serviceBackedByEndpointsInCluster
    <3> QED BY <2>2, <3>1, <3>2, <3>3, <3>4
  <2>6. CASE feature = "ingress" /\ ingressReconcile
    <3> DEFINE e == [c \in clusterNames |-> LoadBalancer(GetByKey("target", c))]
    <3>1. Write([owner |-> cache.report.owner, entries |-> e])
      BY <2>1, <2>6 DEF ingressReconcile
    <3>2. cache.report.owner # 0
      BY <2>1, <2>3, <2>6 DEF DNS
    <3>3. DOMAIN e = clusterNames /\ \A c \in clusterNames : EntryOf(c, e[c])
      BY <2>6 DEF EntryOf
    <3> HIDE DEF e
    <3> QED BY <2>2, <3>1, <3>2, <3>3
  <2> QED BY <2>4, <2>5, <2>6 DEF Collect
<1> QED BY <1>1, <1>3, <1>4, <1>5, HostReports

\* The DNS endpoint controller leaves the reports alone.
LEMMA EndpointReports ==
  ASSUME CollectorsInv, ReportInv,
         DNSInformed \/ processItem \/ (\E c \in Clusters : GetClient(c)) \/ UNCHANGED vars
  PROVE  ReportInv'
<1>0. Inv /\ host \in [fed : Fed, domain : BOOLEAN, report : Reports, endpoint : {host.endpoint}]
  BY DEF CollectorsInv, HostOK
<1>1. used.events \in Nat
  <2>1. used \in [events : 0 .. MaxEvents, faults : 0 .. MaxFaults] /\ MaxEvents \in Nat
    BY <1>0, InformerAssumption DEF Inv, InformerTypeOK
  <2> QED BY <2>1
<1>2. CASE DNSInformed \/ processItem \/ UNCHANGED vars
  <2>1. /\ UNCHANGED infVars /\ feature' = feature /\ cache' = cache /\ all' = all
        /\ pending' = pending /\ checked' = checked /\ (UNCHANGED used \/ Spend("faults", 1))
    BY <1>2 DEF DNSInformed, processItem, vars, hostVars
  <2>2. host'.fed = host.fed /\ host'.report = host.report
    <3>1. CASE host' = host
      BY <3>1
    <3>2. ASSUME NEW o, host' = [host EXCEPT !.endpoint = Desired(o)] PROVE host'.fed = host.fed /\ host'.report = host.report
      BY <1>0, <3>2
    <3> QED BY <1>2, <3>1, <3>2 DEF DNSInformed, processItem, vars, hostVars
  <2>3. used'.events \in Nat /\ used'.events >= used.events
    BY <1>0, <1>1, <2>1, EventsGrow
  <2>4. Idle' => Noted'
    BY <2>1, <2>2, IdleStays
  <2> QED BY <1>1, <2>1, <2>2, <2>3, <2>4, HostReports
<1>3. ASSUME NEW c \in Clusters, GetClient(c) PROVE ReportInv'
  <2>1. /\ feature' = feature /\ feature = "sync" /\ host' = host /\ cache' = cache /\ used' = used
        /\ known' = known /\ clusters' = clusters
    BY <1>3 DEF GetClient, GetClientForCluster, hostVars
  <2>2. Registered' /\ Fresh' /\ ~Idle'
    BY <2>1 DEF ReportInv, Registered, Fresh, Idle
  <2> QED BY <2>1, <2>2 DEF ReportInv
<1> QED BY <1>2, <1>3

\* The invariant holds at first ...
LEMMA InitReports ==
  ASSUME Init PROVE ReportInv
<1>0. "target" \in AllViews /\ "endpoints" \in AllViews /\ Inv
  BY CollectorsAssumption, InitType
<1>1. feature \in Features /\ views = ViewsOf(feature) /\ InformerInit
  BY DEF Init
<1>2. /\ "target" \in views /\ (feature = "service" => "endpoints" \in views)
  BY <1>1 DEF ViewsOf
<1>3. \A c \in Clusters : clusters[c].spec = 1 /\ \A v \in views : known[v][c] = clusters[c]
  BY <1>1, <1>0 DEF InformerInit, Inv, InformerTypeOK
<1>4. \A v \in AllViews : \A c \in Clusters : known[v][c].ready => v \in views
  BY <1>1 DEF InformerInit, NoCluster
<1>5. Registered
  BY <1>3, <1>4 DEF Registered
<1>6. /\ \A v \in views : \A c \in Clusters : known[v][c].ready =>
           informers[v][c].spec = 1 /\ informers[v][c].cached = objects[v][c]
  BY <1>0, <1>1 DEF InformerInit, Inv, InformerTypeOK
<1>7. clusterNames = {d \in Clusters : clusters[d].ready}
  BY <1>2, <1>3 DEF clusterNames, GetReadyClusters
<1>8. Attended
  BY <1>2, <1>6 DEF Attended, clusterNames, GetReadyClusters
<1> DEFINE report == [owner |-> 1, entries |-> [c \in {d \in Clusters : clusters[d].ready} |-> Truth(c)]]
<1>9. host.fed.uid = 1 /\ cache.fed = host.fed /\ cache.report = report /\ used.events = 0
  BY <1>1 DEF Init, NoFed, InformerInit
<1>10. Fresh
  BY <1>9 DEF Fresh
<1>11. Right(report)
  <2>1. ASSUME NEW c \in clusterNames PROVE EntryOf(c, Truth(c))
    <3>1. c \in Clusters /\ clusters[c].ready
      BY <1>7
    <3>2. \A v \in views : GetByKey(v, c) = objects[v][c]
      BY <1>3, <1>6, <3>1 DEF GetByKey
    <3>3. GetByKey("target", c) = objects["target"][c]
          /\ (feature = "service" => GetByKey("endpoints", c) = objects["endpoints"][c])
      BY <1>2, <3>2
    <3>4. CASE feature = "status"
      BY <3>3, <3>4 DEF EntryOf, Truth
    <3>5. CASE feature = "service"
      BY <3>3, <3>5 DEF EntryOf, Truth
    <3>6. CASE feature \notin {"status", "service"}
      BY <3>3, <3>6 DEF EntryOf, Truth
    <3> QED BY <3>4, <3>5, <3>6
  <2>2. report.owner = 1 /\ DOMAIN report.entries = clusterNames
        /\ \A c \in clusterNames : report.entries[c] = Truth(c)
    BY <1>7
  <2> HIDE DEF report
  <2> QED BY <2>1, <2>2 DEF Right
<1> HIDE DEF report
<1> QED BY <1>5, <1>8, <1>9, <1>10, <1>11 DEF ReportInv, Noted

\* ... and every step keeps it.
LEMMA ReportStep ==
  ASSUME CollectorsInv, ReportInv, [Next]_vars PROVE ReportInv'
<1>1. CASE Environment
  BY <1>1, MemberReports, StoreReports DEF Environment
<1>2. CASE UserChanges \/ Finalized \/ GarbageCollect
  BY <1>2, UserReports
<1>3. CASE RecordInformed \/ StatusInformed \/ DomainInformed \/ reconcileOnClusterChange \/ Check
  BY <1>3, PromptReports
<1>4. CASE \E v \in AllViews : Lifecycle(v)
  BY <1>4, LifecycleReports
<1>5. CASE \E v \in AllViews, c \in Clusters : TargetEvent(v, c)
  BY <1>5, TargetReports
<1>6. CASE Collect
  BY <1>6, CollectReports
<1>7. CASE DNSInformed \/ processItem \/ (\E c \in Clusters : GetClient(c)) \/ UNCHANGED vars
  BY <1>7, EndpointReports
<1> QED BY <1>1, <1>2, <1>3, <1>4, <1>5, <1>6, <1>7 DEF Next

\* For any clusters, views and bounds, when the controller is at rest the report lists exactly
\* the ready clusters with what they have, in an object the resource owns: no change between
\* the check of the informers and the reading of the stores, no conflict, failed write or late
\* event leaves an earlier report, but for the address of a service whose Endpoints were
\* deleted while their informer was started anew (status/controller.go:233,
\* servicedns/controller.go:260, ingressdns/controller.go:204).
THEOREM ReportsAreTrue == Spec => []ReportedAtRest
<1> DEFINE I == CollectorsInv /\ ReportInv
<1>1. Init => I
  BY InitRecords, InitReports
<1>2. I /\ [Next]_vars => I'
  BY CollectorsStep, ReportStep
<1>3. I => ReportedAtRest
  <2> SUFFICES ASSUME I, AtRest, Reportable
               PROVE  /\ Listed
                      /\ \A c \in DOMAIN host.report.entries :
                           host.report.entries[c] \in {Truth(c)} \cup Outdated(c)
    BY DEF ReportedAtRest
  <2>0. "target" \in views /\ (feature = "service" => "endpoints" \in views)
    BY DEF CollectorsInv, Inv, ViewsOf
  <2>1. \A c \in Clusters : known["target"][c] = clusters[c]
    BY <2>0 DEF AtRest
  <2>2. clusterNames = {c \in Clusters : clusters[c].ready}
    BY <2>1 DEF clusterNames, GetReadyClusters
  <2>3. NoneLeft
    BY <2>0, <2>2 DEF NoneLeft, Reportable, Watched
  <2>4. ~Prompted
    BY <2>0 DEF Prompted, Fires, AtRest
  <2>5. Idle
    BY <2>3, <2>4 DEF Idle, Reportable, AtRest, Service
  <2>6. Right(host.report)
    BY <2>5 DEF ReportInv, Noted, AtRest
  <2>7. Listed
    BY <2>2, <2>6 DEF Listed, Right, AtRest
  <2>8. ASSUME NEW c \in DOMAIN host.report.entries
        PROVE  host.report.entries[c] \in {Truth(c)} \cup Outdated(c)
    <3>1. c \in Clusters /\ clusters[c].ready /\ EntryOf(c, host.report.entries[c])
      BY <2>2, <2>6, <2>7, <2>8 DEF Right, Listed
    <3>2. clusters[c].spec # 0
      BY <3>1 DEF ReportInv, Registered
    <3>3. \A v \in views : GetByKey(v, c) = objects[v][c]
      BY <3>1, <3>2 DEF AtRest, Reportable, Watched, GetByKey
    <3>4. GetByKey("target", c) = objects["target"][c]
          /\ (feature = "service" => GetByKey("endpoints", c) = objects["endpoints"][c])
      BY <2>0, <3>3
    <3>5. CASE feature = "status"
      BY <3>1, <3>4, <3>5 DEF EntryOf, Truth
    <3>6. CASE feature = "service"
      BY <3>1, <3>4, <3>6 DEF EntryOf, Truth, Outdated
    <3>7. CASE feature \notin {"status", "service"}
      BY <3>1, <3>4, <3>7 DEF EntryOf, Truth
    <3> QED BY <3>5, <3>6, <3>7
  <2> QED BY <2>7, <2>8
<1> QED BY <1>1, <1>2, <1>3, PTL DEF Spec
=============================================================================
