--------------------------- MODULE MCDraftStorage ---------------------------
(* DraftStorage for TLC.                                                    *)
EXTENDS DraftStorage
=============================================================================
