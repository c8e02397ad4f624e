----------------------------- MODULE MCTableSync -----------------------------
(* TableSync for TLC.                                                       *)
EXTENDS TableSync, TLC

Symmetry == Permutations(Clients)
=============================================================================
