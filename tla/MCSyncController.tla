--------------------------- MODULE MCSyncController ---------------------------
(* SyncController for TLC.  Every constant is given its value by a .cfg. *)
EXTENDS SyncController
CONSTANTS c1, c2
=============================================================================
