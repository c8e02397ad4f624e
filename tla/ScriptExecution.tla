--------------------------- MODULE ScriptExecution ---------------------------
(***************************************************************************)
(* What the isolated script runner promises to the Outline worker that     *)
(* dispatches table scripts: an execution ID is used at most once, and an  *)
(* ID whose end has been reported to a caller has nothing left running.    *)
(*                                                                         *)
(*   life[i]   "fresh"      the ID was never accepted                      *)
(*             "executing"  accepted, and code may be running              *)
(*             "over"       nothing runs under this ID, and nothing will   *)
(*   reported  the IDs of which a POST was answered with a result, or a    *)
(*             DELETE was acknowledged                                     *)
(*                                                                         *)
(* ScriptRunner implements this specification; TableScripts relies on it.  *)
(***************************************************************************)
CONSTANT Ids          \* execution UUIDs

VARIABLES life, reported

vars == <<life, reported>>

TypeOK ==
    /\ life \in [Ids -> {"fresh", "executing", "over"}]
    /\ reported \subseteq Ids

Init ==
    /\ life = [i \in Ids |-> "fresh"]
    /\ reported = {}

\* A POST claims a fresh ID.
Accept(i) ==
    /\ life[i] = "fresh"
    /\ life' = [life EXCEPT ![i] = "executing"]
    /\ UNCHANGED reported

\* The executions of S end (or are cancelled before they begin), and callers
\* learn that those of A are over.  A restart of the runner ends several.
Settle(S, A) ==
    /\ life' = [i \in Ids |-> IF i \in S THEN "over" ELSE life[i]]
    /\ \A i \in A : life'[i] = "over"
    /\ reported' = reported \cup A

Next ==
    \/ \E i \in Ids : Accept(i)
    \/ \E S, A \in SUBSET Ids : Settle(S, A)

Spec == Init /\ [][Next]_vars

\* A Stop that was acknowledged, or a result that was delivered, is the end of
\* the execution: no code runs under that ID any more.
ReportedIsOver == \A i \in reported : life[i] = "over"
=============================================================================
