----------------------------- MODULE DNSEndpoints -----------------------------
(***************************************************************************)
(* The endpoints of a DNS record (pkg/controller/dnsendpoint/common.go,     *)
(* service.go, ingress.go).  For a service each cluster of the record       *)
(* contributes an endpoint for its zone, its region and the whole domain,   *)
(* an A record where it has addresses and a CNAME of the next level up      *)
(* where it has none; endpoints of one name are then merged.                *)
(***************************************************************************)
EXTENDS Naturals, Sequences, FiniteSets, SequencesExt

CONSTANTS RegionOf, ZoneOf   \* where a cluster is, as its KubeFedCluster says

Global == <<"global">>
RegionName(c) == <<"region", RegionOf[c]>>
ZoneName(c) == <<"zone", RegionOf[c], ZoneOf[c]>>

\* generateEndpointForServiceDNSObject: the addresses, or the name one level up.
Endpoint(name, targets, uplevel) ==
  IF targets # {} THEN [name |-> name, type |-> "A", targets |-> targets]
                  ELSE [name |-> name, type |-> "CNAME", targets |-> uplevel]

\* ExtractLoadBalancerTargets: 0 stands for a load balancer without addresses.
Targets(c, lb) == IF lb = 0 THEN {} ELSE {<<"address", c, lb>>}

ServiceEndpoints(c, lb) ==
  << Endpoint(ZoneName(c), Targets(c, lb), {RegionName(c)}),
     Endpoint(RegionName(c), Targets(c, lb), {Global}),
     Endpoint(Global, Targets(c, lb), {}) >>

\* mutant: the record that comes first is kept
MergedFirst(a, b) == IF a.type # b.type THEN a ELSE [a EXCEPT !.targets = @ \cup b.targets]
\* Two endpoints of one name: an A record displaces a CNAME, equal types are merged.
Merged(a, b) ==
  IF a.type = b.type THEN [a EXCEPT !.targets = @ \cup b.targets]
  ELSE IF a.type = "CNAME" THEN b ELSE a

\* The endpoints of the name n, merged in the order of eps; those without targets are
\* left out.
MergedOf(eps, n) ==
  LET join(a, b) == IF a.targets = {} THEN b ELSE Merged(a, b)
      after[k \in 0 .. Len(eps)] ==
        IF k = 0 THEN [name |-> n, type |-> "CNAME", targets |-> {}]
        ELSE IF eps[k].name # n \/ eps[k].targets = {} THEN after[k - 1]
        ELSE join(after[k - 1], eps[k])
  IN  after[Len(eps)]

\* DedupeAndMergeEndpoints: one endpoint for each name.
DedupeAndMergeEndpoints(eps) ==
  LET names == {eps[k].name : k \in {j \in 1 .. Len(eps) : eps[j].targets # {}}}
  IN  [n \in names |-> MergedOf(eps, n)]

\* getServiceDNSEndpoints: entries is the load balancer of each cluster of the
\* record, order the one in which the sort by name, which is not stable, leaves those
\* of a name.
getServiceDNSEndpoints(entries, order) ==
  LET level(l) == [k \in 1 .. Len(order) |-> ServiceEndpoints(order[k], entries[order[k]])[l]]
  IN  DedupeAndMergeEndpoints(level(1) \o level(2) \o level(3))

\* getIngressDNSEndpoints: one A record for each host, with all the addresses.
getIngressDNSEndpoints(entries) ==
  LET all == UNION {Targets(c, entries[c]) : c \in DOMAIN entries}
  IN  IF all = {} THEN << >> ELSE Global :> [name |-> Global, type |-> "A", targets |-> all]
-----------------------------------------------------------------------------
\* What a name resolves to, following at most one CNAME for each level.
Resolve(eps, name) ==
  LET step(t) == UNION {IF n \in DOMAIN eps THEN eps[n].targets ELSE {n} : n \in t}
  IN  step(step(step({name})))

\* The reference: the addresses in the zone, or else in the region, or else anywhere.
Nearest(entries, c) ==
  LET within(near) == UNION {Targets(d, entries[d]) : d \in near}
      zone == within({d \in DOMAIN entries : ZoneName(d) = ZoneName(c)})
      region == within({d \in DOMAIN entries : RegionName(d) = RegionName(c)})
  IN  IF zone # {} THEN zone ELSE IF region # {} THEN region ELSE within(DOMAIN entries)
=============================================================================
