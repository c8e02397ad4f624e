---------------------------- MODULE MCTableScripts ----------------------------
(* TableScripts for TLC: scripts, transactions and workers are anonymous.    *)
EXTENDS TableScripts, TLC

Symmetry == Permutations(Scripts) \cup Permutations(Txns) \cup Permutations(Workers)
=============================================================================
