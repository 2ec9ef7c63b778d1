---------------------------- MODULE MCCollectors ----------------------------
EXTENDS Collectors
\* Two clusters of one region.
MCRegionOf == [c \in Clusters |-> "region"]
MCZoneOf == [c \in Clusters |-> c]
=============================================================================
