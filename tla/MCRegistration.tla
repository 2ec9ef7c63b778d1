--------------------------- MODULE MCRegistration ---------------------------
EXTENDS Registration
\* The defaults, joins that take what exists, with a generated or a given name, dry runs.
Flags(e, n, d) == [errorOnExisting |-> e, named |-> n, dryRun |-> d]
MCJoinOptions == {Flags(TRUE, FALSE, FALSE), Flags(FALSE, FALSE, FALSE), Flags(FALSE, TRUE, FALSE),
                  Flags(TRUE, FALSE, TRUE)}
MCUnjoinOptions == {o \in [force : BOOLEAN, dryRun : BOOLEAN, configured : BOOLEAN] :
                      (o.dryRun => ~o.force) /\ (~o.configured => o.force)}
=============================================================================
