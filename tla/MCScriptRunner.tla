--------------------------- MODULE MCScriptRunner ---------------------------
(* ScriptRunner for TLC.  Liveness is checked, so that nothing is symmetric. *)
EXTENDS ScriptRunner
=============================================================================
