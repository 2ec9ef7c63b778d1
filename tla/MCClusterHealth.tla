-------------------------- MODULE MCClusterHealth --------------------------
EXTENDS ClusterHealth

\* An edit of everything, of the spec alone and of the metadata alone.
Edits == {Fields, {"spec"}, {"annotations", "labels"}}
=============================================================================
