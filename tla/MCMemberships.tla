--------------------------- MODULE MCMemberships ---------------------------
(* Memberships for TLC.                                                     *)
EXTENDS Memberships, TLC

\* Documents and memberships are interchangeable.
Symmetry == Permutations(Docs) \cup Permutations(Grants)
=============================================================================
