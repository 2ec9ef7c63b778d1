------------------------------ MODULE Collectors ------------------------------
(***************************************************************************)
(* The controllers that collect from the members into the host cluster:     *)
(* the status controller (pkg/controller/status), the service and ingress   *)
(* DNS controllers (servicedns, ingressdns) and the DNS endpoint            *)
(* controllers behind them (dnsendpoint), over FederatedInformer.  One      *)
(* resource is followed.  The sync controller stands for the users of the   *)
(* informer's clients.                                                      *)
(*                                                                         *)
(* A reconciliation first asks whether everything has synced and later      *)
(* reads the stores, and both may change in between.                        *)
(***************************************************************************)
EXTENDS FederatedInformer, DNSEndpoints

CONSTANT MaxRetries   \* maxRetries of dnsendpoint/controller.go

ASSUME CollectorsAssumption == {"target", "endpoints"} \subseteq AllViews /\ MaxRetries \in Nat

VARIABLES
  feature,    \* the controller that is running
  host,       \* the objects of the host cluster
  cache,      \* the stores of the controller for them
  pending,    \* the resource is in the worker's queue
  all,        \* clusterDeliverer: all resources are to be enqueued
  checked,    \* a reconciliation has found everything synced
  dns         \* the DNS endpoint controller: its store, queue and retries

hostVars == <<feature, host, cache, pending, all, checked, dns>>
vars == <<infVars, used, hostVars>>

Features == {"sync", "status", "service", "anyservice", "ingress"}
DNS == feature \in {"service", "anyservice", "ingress"}
ViewsOf(f) == IF f \in {"service", "anyservice"} THEN {"target", "endpoints"} ELSE {"target"}

\* The federated resource or the DNS record, and what is reported: by a status
\* object with an owner, or in the status of the record itself.
Fed == [uid : Nat, deleting : BOOLEAN]
NoFed == [uid |-> 0, deleting |-> FALSE]
NoReport == [owner |-> 0, entries |-> << >>]
Reports == [owner : Nat, entries : UNION {[some -> Values] : some \in SUBSET Clusters}]
NoEndpoints == [made |-> FALSE, of |-> << >>]

TypeOK ==
  /\ InformerTypeOK
  /\ feature \in Features
  /\ host.fed \in Fed /\ host.report \in Reports /\ host.domain \in BOOLEAN
  /\ cache.fed \in Fed /\ cache.report \in Reports /\ cache.domain \in BOOLEAN
  /\ {pending, all, checked} \subseteq BOOLEAN
  /\ dns.retries \in 0 .. MaxRetries /\ dns.pending \in BOOLEAN /\ dns.gaveUp \in BOOLEAN
  /\ dns.report \in Reports

\* getServiceStatusInCluster, getIngressStatusInCluster: an object of value 1 has
\* no address yet.
LoadBalancer(x) == IF x = 2 THEN 2 ELSE 0

\* What a report should say of a ready cluster.
Truth(c) ==
  CASE feature = "status" -> objects["target"][c]
    [] feature = "service" /\ objects["endpoints"][c] # 2 -> 0
    [] OTHER -> LoadBalancer(objects["target"][c])

\* The GetEndpointsFunc of the controller.
getEndpoints(r, order) ==
  IF feature = "ingress" THEN getIngressDNSEndpoints(r.entries)
                         ELSE getServiceDNSEndpoints(r.entries, order)

\* The controller has reported what there was when it started.
Init ==
  /\ feature \in Features
  /\ views = ViewsOf(feature)
  /\ InformerInit
  /\ LET report == [owner |-> 1, entries |-> [c \in {d \in Clusters : clusters[d].ready} |-> Truth(c)]]
     IN  /\ \E order \in SetToSeqs(DOMAIN report.entries) :
              host = [fed |-> [NoFed EXCEPT !.uid = 1], domain |-> TRUE, report |-> report,
                      endpoint |-> IF DNS THEN [made |-> TRUE, of |-> getEndpoints(report, order)]
                                          ELSE NoEndpoints]
         /\ dns = [report |-> report, pending |-> FALSE, retries |-> 0, gaveUp |-> FALSE]
  /\ cache = [fed |-> host.fed, report |-> host.report, domain |-> TRUE]
  /\ pending = FALSE /\ all = FALSE /\ checked = FALSE
-----------------------------------------------------------------------------
(* Users and the API server                                                *)

\* The federated resource has a finalizer, the record has none.
UserChanges ==
  /\ feature # "sync"
  /\ Spend("events", 1)
  /\ LET uid == used.events + 2
     IN  \/ /\ host.fed.uid = 0
            /\ host' = [host EXCEPT !.fed.uid = uid,
                          !.report = IF DNS THEN [NoReport EXCEPT !.owner = uid] ELSE @]
         \/ /\ host.fed.uid # 0
            /\ host' = IF DNS THEN [host EXCEPT !.fed = NoFed, !.report = NoReport]
                              ELSE [host EXCEPT !.fed.deleting = TRUE]
         \/ /\ feature = "service"
            /\ host' = [host EXCEPT !.domain = ~@]
  /\ UNCHANGED <<infVars, feature, cache, pending, all, checked, dns>>

\* The sync controller removes the finalizer of a federated resource.
Finalized ==
  /\ host.fed.deleting
  /\ host' = [host EXCEPT !.fed = NoFed]
  /\ UNCHANGED <<infVars, used, feature, cache, pending, all, checked, dns>>

\* The owner of the status object is gone.
GarbageCollect ==
  /\ host.report.owner \notin {0, host.fed.uid}
  /\ host' = [host EXCEPT !.report = NoReport]
  /\ UNCHANGED <<infVars, used, feature, cache, pending, all, checked, dns>>

\* The informers of the host cluster.  The resource, or the record with its status,
\* and the status object are enqueued; a Domain asks for all the records.
RecordInformed ==
  /\ LET new == IF DNS THEN [cache EXCEPT !.fed = host.fed, !.report = host.report]
                       ELSE [cache EXCEPT !.fed = host.fed]
     IN  cache # new /\ cache' = new
  /\ pending' = TRUE
  /\ UNCHANGED <<infVars, used, feature, host, all, checked, dns>>

StatusInformed ==
  /\ ~DNS /\ cache.report # host.report
  /\ cache' = [cache EXCEPT !.report = host.report]
  /\ pending' = TRUE
  /\ UNCHANGED <<infVars, used, feature, host, all, checked, dns>>

DomainInformed ==
  /\ cache.domain # host.domain
  /\ cache' = [cache EXCEPT !.domain = host.domain]
  /\ all' = TRUE
  /\ UNCHANGED <<infVars, used, feature, host, pending, checked, dns>>
-----------------------------------------------------------------------------
(* Events of the federated informer                                        *)

\* The lifecycle handlers, which the informer of Endpoints does not have.
Lifecycle(v) ==
  /\ HandlerRuns(v)
  /\ LET c == handling[v].cluster
         fires == HandlerDeletes(handling[v].old, known[v][c]) \/ HandlerAdds(handling[v].old, known[v][c])
     IN  all' = (all \/ (v = "target" /\ fires /\ feature # "sync"))
  /\ UNCHANGED <<feature, host, cache, pending, checked, dns>>

TargetEvent(v, c) ==
  /\ TargetInformed(v, c)
  /\ pending' = (feature # "sync" /\ (pending \/ informers'[v][c].cached # informers[v][c].cached))
  /\ UNCHANGED <<feature, host, cache, all, checked, dns>>

GetClient(c) ==
  /\ feature = "sync"
  /\ GetClientForCluster("target", c)
  /\ UNCHANGED hostVars

Environment ==
  /\ \/ \E c \in Clusters : ClusterChanges(c)
     \/ \E v \in AllViews, c \in Clusters : ObjectChanges(v, c)
     \/ \E v \in AllViews, c \in Clusters : ClusterInformed(v, c)
  /\ UNCHANGED hostVars
-----------------------------------------------------------------------------
(* reconcile                                                               *)

isSynced == \A v \in views : ClustersSynced(v)

\* mutant: resources are not enqueued while a cluster is not synced
reconcileOnClusterChangeOnce ==
  /\ all
  /\ all' = FALSE
  /\ pending' = (pending \/ (isSynced /\ cache.fed.uid # 0))
  /\ UNCHANGED <<infVars, used, feature, host, cache, checked, dns>>
reconcileOnClusterChange ==
  /\ all
  /\ all' = ~isSynced
  /\ pending' = (pending \/ cache.fed.uid # 0)
  /\ <<all', pending'>> # <<all, pending>>
  /\ UNCHANGED <<infVars, used, feature, host, cache, checked, dns>>

\* The first step of reconcile; the worker retries one that is not synced.
Check ==
  /\ pending /\ ~checked
  /\ feature # "sync"
  /\ isSynced
  /\ checked' = TRUE
  /\ pending' = FALSE
  /\ UNCHANGED <<infVars, used, feature, host, cache, all, dns>>

\* The clusters that get an entry.
clusterNames == GetReadyClusters("target")

\* A write is refused when the API has another version than the store, and it may
\* fail; the worker repeats the reconciliation then.
Write(report) ==
  \/ /\ cache.report = report
     /\ UNCHANGED <<host, pending, used>>
  \/ /\ cache.report # report /\ host.report = cache.report
     /\ host' = [host EXCEPT !.report = report]
     /\ UNCHANGED <<pending, used>>
  \/ /\ cache.report # report
     /\ IF host.report = cache.report THEN Spend("faults", 1) ELSE UNCHANGED used
     /\ pending' = TRUE
     /\ UNCHANGED host

Done == UNCHANGED <<host, pending, used>>

clusterStatuses == [c \in clusterNames |-> GetByKey("target", c)]

\* The status controller creates a status object with its owner, or changes the
\* entries of the one there is.
statusReconcile ==
  \/ (cache.fed.uid = 0 \/ cache.fed.deleting) /\ Done
  \/ /\ cache.fed.uid # 0 /\ ~cache.fed.deleting
     /\ Write([owner |-> IF cache.report.owner = 0 THEN cache.fed.uid ELSE cache.report.owner,
               entries |-> clusterStatuses])

serviceBackedByEndpointsInCluster(c) == GetByKey("endpoints", c) = 2

\* The load balancers of the services that have endpoints.  Of the clusters that are
\* not ready no entry is kept, because the record is built anew, without a status.
fedDNSStatus ==
  [c \in clusterNames |->
     IF feature = "anyservice" \/ serviceBackedByEndpointsInCluster(c)
     THEN LoadBalancer(GetByKey("target", c)) ELSE 0]

Zoned == \A c \in clusterNames : known["target"][c].zoned

\* Nothing is done without the record or its Domain; a cluster without region and
\* zones is an error.
serviceReconcile ==
  \/ (cache.fed.uid = 0 \/ ~cache.domain) /\ Done
  \/ /\ cache.fed.uid # 0 /\ cache.domain
     /\ \/ Zoned /\ Write([owner |-> cache.report.owner, entries |-> fedDNSStatus])
        \/ ~Zoned /\ pending' = TRUE /\ UNCHANGED <<host, used>>

ingressReconcile ==
  \/ cache.fed.uid = 0 /\ Done
  \/ /\ cache.fed.uid # 0
     /\ Write([owner |-> cache.report.owner,
               entries |-> [c \in clusterNames |-> LoadBalancer(GetByKey("target", c))]])

\* The rest of reconcile.
Collect ==
  /\ checked
  /\ checked' = FALSE
  /\ \/ feature = "status" /\ statusReconcile
     \/ feature \in {"service", "anyservice"} /\ serviceReconcile
     \/ feature = "ingress" /\ ingressReconcile
  /\ UNCHANGED <<infVars, feature, cache, all, dns>>
-----------------------------------------------------------------------------
(* The DNS endpoint controller                                             *)

DNSInformed ==
  /\ DNS
  /\ dns.report # host.report
  /\ dns' = [dns EXCEPT !.report = host.report, !.pending = TRUE]
  /\ UNCHANGED <<infVars, used, feature, host, cache, pending, all, checked>>

\* mutant: the endpoints of a record that is gone are kept
DesiredKept(order) ==
  IF dns.report.owner = 0 THEN host.endpoint
  ELSE [made |-> TRUE, of |-> getEndpoints(dns.report, order)]
Desired(order) ==
  IF dns.report.owner = 0 THEN NoEndpoints
  ELSE [made |-> TRUE, of |-> getEndpoints(dns.report, order)]

Requeues(n) == n < MaxRetries

\* processNextItem: a failure is retried, and given up after MaxRetries.
processItem ==
  /\ dns.pending
  /\ \/ /\ \E order \in SetToSeqs(DOMAIN dns.report.entries) :
             host' = [host EXCEPT !.endpoint = Desired(order)]
        /\ dns' = [dns EXCEPT !.pending = FALSE, !.retries = 0, !.gaveUp = FALSE]
        /\ UNCHANGED used
     \/ /\ Spend("faults", 1)
        /\ dns' = IF Requeues(dns.retries) THEN [dns EXCEPT !.retries = @ + 1]
                  ELSE [dns EXCEPT !.pending = FALSE, !.retries = 0, !.gaveUp = TRUE]
        /\ UNCHANGED host
  /\ UNCHANGED <<infVars, feature, cache, pending, all, checked>>
-----------------------------------------------------------------------------
Next ==
  \/ Environment
  \/ UserChanges
  \/ Finalized
  \/ GarbageCollect
  \/ RecordInformed
  \/ StatusInformed
  \/ DomainInformed
  \/ \E v \in AllViews : Lifecycle(v)
  \/ \E v \in AllViews, c \in Clusters : TargetEvent(v, c)
  \/ \E c \in Clusters : GetClient(c)
  \/ reconcileOnClusterChange
  \/ Check
  \/ Collect
  \/ DNSInformed
  \/ processItem

Spec == Init /\ [][Next]_vars

\* Informers deliver, workers reconcile and the garbage collector collects; nothing
\* makes users or faults happen.
Fairness ==
  /\ WF_vars(GarbageCollect)
  /\ WF_vars(RecordInformed) /\ WF_vars(StatusInformed) /\ WF_vars(DomainInformed)
  /\ \A v \in AllViews : /\ WF_vars((\E c \in Clusters : ClusterInformed(v, c)) /\ UNCHANGED hostVars)
                         /\ WF_vars(Lifecycle(v))
                         /\ \A c \in Clusters : WF_vars(TargetEvent(v, c))
  /\ WF_vars(reconcileOnClusterChange)
  /\ WF_vars(Check)
  /\ WF_vars(Collect)
  /\ WF_vars(DNSInformed)
  /\ WF_vars(processItem)

FairSpec == Spec /\ Fairness
-----------------------------------------------------------------------------
(* Properties                                                              *)

\* No informer is missing or left over: neither a tombstone nor a failure to start
\* one is repaired before the next change of that cluster.
Watched ==
  \A v \in views, c \in Clusters :
    informers[v][c].spec = IF clusters[c].ready THEN clusters[c].spec ELSE 0

Reportable ==
  /\ feature # "sync"
  /\ Watched /\ host.fed.uid # 0 /\ ~host.fed.deleting
  /\ feature \in {"service", "anyservice"} =>
       host.domain /\ \A c \in Clusters : clusters[c].ready => clusters[c].zoned

\* Endpoints that are deleted while their informer is started anew are not missed by anyone:
\* the new informer has nothing to tell, and no lifecycle handler asks for the records.
Outdated(c) ==
  IF feature = "service" /\ objects["endpoints"][c] = 0 THEN {LoadBalancer(objects["target"][c])} ELSE {}

Restarting == feature = "service" /\ \E c \in Clusters : clusters[c].ready /\ ~informers["endpoints"][c].synced

Listed ==
  /\ host.report.owner = host.fed.uid
  /\ DOMAIN host.report.entries = {c \in Clusters : clusters[c].ready}

\* When changes stop, the report lists exactly the ready clusters with what they
\* have, in an object the resource owns, although the check, the cluster list and
\* the stores were read at different times and writes conflict or fail.  The address of
\* a service whose Endpoints are gone may stay, if their informer was started anew.
Reported ==
  \/ <>[](Reportable => Listed /\ \A c \in DOMAIN host.report.entries : host.report.entries[c] = Truth(c))
  \/ /\ <>Restarting
     /\ <>[](Reportable => Listed /\ \A c \in DOMAIN host.report.entries :
                                      host.report.entries[c] \in {Truth(c)} \cup Outdated(c))

RecordServed ==
  /\ host.endpoint.made = (host.report.owner # 0)
  /\ host.endpoint.made => \E order \in SetToSeqs(DOMAIN host.report.entries) :
       host.endpoint.of = getEndpoints(host.report, order)

\* When changes stop, the DNSEndpoint is that of the record, and gone with it, unless
\* the last of the retries failed.
Served == <>[](DNS /\ ~dns.gaveUp => RecordServed)

\* "We should preserve ClusterDNS entries (without loadbalancers) for offline
\* clusters" (servicedns/controller.go:337): a write of the record keeps the entry
\* of a cluster that is registered and not ready.
OfflineKept ==
  [][feature = "service" /\ checked /\ ~checked' =>
       \A c \in DOMAIN host.report.entries :
         known["target"][c].spec # 0 /\ host'.fed = host.fed => c \in DOMAIN host'.report.entries]_vars

\* Whatever the order of the endpoints, the name of each cluster's zone leads to the
\* addresses that are nearest, as long as there is one, and a name that has an address
\* at its own level holds it and is not left to a CNAME (dnsendpoint/common.go:121).
\* No record is retried more often than MaxRetries (TypeOK).
NearestServed ==
  /\ TypeOK
  /\ feature \in {"service", "anyservice"} /\ ~dns.pending /\ ~dns.gaveUp =>
       LET entries == dns.report.entries
           some == {c \in DOMAIN entries : entries[c] # 0}
       IN  /\ some # {} => \A c \in DOMAIN entries :
                Resolve(host.endpoint.of, ZoneName(c)) = Nearest(entries, c)
           /\ \A c \in some : Targets(c, entries[c]) \subseteq host.endpoint.of[RegionName(c)].targets
=============================================================================
