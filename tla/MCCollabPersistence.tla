------------------------ MODULE MCCollabPersistence ------------------------
(* CollabPersistence for TLC.                                               *)
EXTENDS CollabPersistence
=============================================================================
