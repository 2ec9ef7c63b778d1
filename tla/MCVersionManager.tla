--------------------------- MODULE MCVersionManager ---------------------------
(* VersionManager for TLC.  Every constant is given its value by a .cfg. *)
EXTENDS VersionManager
=============================================================================
