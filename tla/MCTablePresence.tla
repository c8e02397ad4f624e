--------------------------- MODULE MCTablePresence ---------------------------
(* TablePresence for TLC.                                                   *)
EXTENDS TablePresence
=============================================================================
