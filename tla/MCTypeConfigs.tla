---------------------------- MODULE MCTypeConfigs ----------------------------
EXTENDS TypeCommands
\* t and u are equivalent.
MCCRD == [t \in Types |-> IF t = "u" THEN "t" ELSE t]
=============================================================================
