---------------------------- MODULE MCScheduling ----------------------------
EXTENDS Scheduling
MCHash == [c \in Clusters |-> IF c = "c2" THEN 1 ELSE IF c = "c1" THEN 2 ELSE 3]

Pref(w, n, m) == [weight |-> w, minimum |-> n, maxima |-> m]
Prefs == {Pref(1, 0, {}), Pref(2, 1, {}), Pref(1, 0, {1}), Pref(0, 1, {2})}

\* Preferences a user changes to: all clusters alike, or two with a minimum.
Alike == [total |-> 3, rebalance |-> FALSE, clusters |-> << >>]
Rebalanced ==
  [total |-> 3, rebalance |-> TRUE,
   clusters |-> [c \in {"c1", "c2"} |-> Pref(IF c = "c1" THEN 2 ELSE 1, 1, {})]]
MCSpecs == {Alike, Rebalanced}

\* Two clusters, one of them with room for a single pod, and an event or a fault.
Start(specs, enabled, plugins, events, faults) ==
  [spec : specs, ready : {{"c1", "c2"}}, types : enabled, plugins : {plugins},
   replicas : {[c \in {"c1"} |-> 2]}, room : {[c \in Clusters |-> IF c = "c1" THEN 1 ELSE 3]},
   events : {events}, faults : {faults}]

\* The manager starts, for one type or for two.
Starting == Start(MCSpecs, {{Target}}, {}, 1, 0) \cup Start(MCSpecs, {Kinds}, {}, 0, 1)

\* One of the types that are scheduled has just been disabled, and may be enabled again.
Stopping ==
  Start(MCSpecs, {{}}, {Target}, 1, 0) \cup Start({Rebalanced}, {{k} : k \in Kinds}, Kinds, 1, 0)

\* Many preferences for three clusters, as the type has just been disabled.
Wide ==
  [spec : [total : {5}, rebalance : BOOLEAN, clusters : [{"c1", "c2", "*"} -> Prefs]],
   ready : {Clusters}, types : {{}}, plugins : {{Target}},
   replicas : {<< >>, [c \in Clusters |-> 2], [c \in {"c1", "c3"} |-> 3]},
   room : {[c \in Clusters |-> 5], [c \in Clusters |-> IF c = "c1" THEN 1 ELSE 2]},
   events : {0}, faults : {0}]

MCStarts == Starting \cup Stopping \cup Wide
=============================================================================
