--------------------------- MODULE MCDocumentTree ---------------------------
(* DocumentTree for TLC.                                                    *)
EXTENDS DocumentTree, TLC

\* Documents and collections are interchangeable.
Symmetry == Permutations(Docs) \cup Permutations(Collections)

\* Once a document is parted, the invariants claim nothing any more, so that nothing
\* need be explored from there.
Whole == ~parted
=============================================================================
