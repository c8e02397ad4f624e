-------------------------- MODULE TableScriptsProofs --------------------------
(* Proofs about TableScripts, for any scripts, transactions and workers, any  *)
(* limits and any number of runs.                                             *)
EXTENDS TableScripts, FiniteSetTheorems, TLAPS

-----------------------------------------------------------------------------
(* The inductive invariant.                                                *)

\* The rows of the database.
Status == {"unused", "purged"} \cup Active \cup Result
RunRows == [status : Status, script : Scripts \cup {NoScript}, trigger : {"manual", "schedule"}]
ScriptRows == [state : {"absent", "live", "deleted"}, enabled : BOOLEAN, due : BOOLEAN]
TxRows == [phase : {"idle", "locked", "counted"}, trigger : {"manual", "schedule"},
           script : Scripts \cup {NoScript}, free : BOOLEAN]

\* TypeOK in terms of the rows.
TypeParts ==
    /\ script \in [Scripts -> ScriptRows] /\ run \in [Runs -> RunRows] /\ made \in 0..MaxRuns
    /\ occurred \in [Scripts -> 0..MaxOccurrences] /\ tx \in [Txns -> TxRows]
    /\ claim \in [Workers -> {"idle", "counted"}]
    /\ perf \in [Runs -> {"none", "checking", "stopSeen", "posting", "posted"} \cup Result]
    /\ wire \subseteq Runs /\ stops \in [Runs -> {"idle", "deleting", "acknowledged"}]
    /\ life \in [Runs -> {"fresh", "executing", "over"}] /\ reported \subseteq Runs

\* What the dispatcher and the enqueuing transactions count.
Executing == WithStatus({"running", "stopping"})
Queued == WithStatus({"queued"})

\* Rows are handed out in order.
MadeInOrder ==
    \A r \in Runs : /\ run[r].status = "unused" <=> r > made
                    /\ run[r].status = "unused" => run[r].trigger = "manual"

\* What a run's row says of performTableScriptRun, the POST, Stop and the runner.
NotClaimedYet(r) ==
    run[r].status \in {"unused", "queued"} =>
        perf[r] = "none" /\ stops[r] = "idle" /\ r \notin wire /\ life[r] = "fresh"
NotPostedYet(r) ==
    perf[r] \in {"checking", "stopSeen", "posting"} => r \notin wire /\ life[r] # "executing"
AnsweredIsOver(r) ==
    /\ perf[r] \in {"succeeded", "cancelled"} => life[r] = "over"
    /\ stops[r] = "acknowledged" => life[r] = "over"
StopSeenIsKept(r) == perf[r] = "stopSeen" => run[r].status \notin {"succeeded", "failed"}

\* A cancelled run does not execute, and neither does one that will be found over.
Truth(r) ==
    /\ NotClaimedYet(r) /\ NotPostedYet(r) /\ AnsweredIsOver(r) /\ StopSeenIsKept(r)
    /\ run[r].status = "cancelled" =>
           life[r] # "executing" /\ (r \in wire \/ perf[r] = "posting" => life[r] = "over")
    /\ run[r].status = "succeeded" => life[r] = "over"

\* The locks: a transaction keeps its script live and to itself, and what it has
\* counted stays true until it commits.
TxHoldsScript ==
    \A t \in Txns : tx[t].phase # "idle" =>
        /\ tx[t].script \in Scripts
        /\ script[tx[t].script].state = "live"
        /\ tx[t].trigger = "schedule" => script[tx[t].script].due
        /\ \A u \in Txns : tx[u].phase # "idle" /\ tx[u].script = tx[t].script => t = u
TxCounts ==
    \A t \in Txns : tx[t].phase = "counted" =>
        /\ \A u \in Txns : tx[u].phase = "counted" => t = u
        /\ tx[t].free => ActiveOf(tx[t].script) = {} /\ Cardinality(Queued) < MaxQueue

\* Two active runs of one script are the same run.
ActiveIsUnique ==
    \A q, r \in WithStatus(Active) : run[q].script = run[r].script => q = r

\* An occurrence that is due has not yet been served.
Scheduled(s) == {r \in Runs : run[r].script = s /\ run[r].trigger = "schedule"}
OccurrencesServed ==
    \A s \in Scripts :
        Cardinality(Scheduled(s)) + (IF script[s].due THEN 1 ELSE 0) <= occurred[s]

\* The dispatch lock: one worker claims, and its count stays true.
ClaimCounts ==
    \A w \in Workers : claim[w] = "counted" =>
        /\ \A v \in Workers : claim[v] = "counted" => w = v
        /\ Cardinality(Executing) < Concurrency

\* The three concerns of the invariant: enqueuing, dispatching, and the runner.
EnqueueInv == /\ TxHoldsScript /\ TxCounts /\ ActiveIsUnique /\ DeletedScriptIdle
              /\ QueueBounded /\ OccurrencesServed
DispatchInv == ClaimCounts /\ ActiveWithinConcurrency
TruthInv == \A r \in Runs : Truth(r)

\* Each of them is inductive only together with the others.
IInv == TypeParts /\ MadeInOrder /\ EnqueueInv /\ DispatchInv /\ TruthInv

-----------------------------------------------------------------------------
(* Type correctness.                                                       *)

\* TypeOK says the same of the rows.
LEMMA TypeIsParts == TypeOK <=> TypeParts
  BY DEF TypeOK, TypeParts, ScriptRows, RunRows, TxRows, Status, Runner!TypeOK

\* The initial state satisfies the inductive invariant.
LEMMA InitInv == Init => IInv
<1> SUFFICES ASSUME Init PROVE IInv
  OBVIOUS
<1>1. TypeOK
  BY BoundsAssumption DEF Init, TypeOK, IdleTx, Runner!Init, Runner!TypeOK
<1>2. MadeInOrder
  BY DEF Init, MadeInOrder, Runs
<1>3. WithStatus(Active) = {} /\ Queued = {} /\ Executing = {}
  BY DEF Init, WithStatus, Active, Queued, Executing
<1>4. Cardinality(Queued) = 0 /\ Cardinality(Executing) = 0
  BY <1>3, FS_EmptySet
<1>5. \A s \in Scripts : Cardinality(Scheduled(s)) = 0
  <2>1. \A s \in Scripts : Scheduled(s) = {}
    BY DEF Init, Scheduled
  <2> QED
    BY <2>1, FS_EmptySet
<1>6. EnqueueInv
  BY <1>3, <1>4, <1>5, BoundsAssumption
     DEF Init, EnqueueInv, TxHoldsScript, TxCounts, ActiveIsUnique, DeletedScriptIdle,
         QueueBounded, OccurrencesServed, ActiveOf, IdleTx, Queued
<1>7. DispatchInv
  BY <1>4, BoundsAssumption
     DEF Init, DispatchInv, ClaimCounts, ActiveWithinConcurrency, Executing
<1>8. TruthInv
  BY DEF Init, TruthInv, Truth, NotClaimedYet, NotPostedYet, AnsweredIsOver, StopSeenIsKept, Runner!Init
<1> QED
  BY <1>1, <1>2, <1>6, <1>7, <1>8, TypeIsParts DEF IInv

-----------------------------------------------------------------------------
(* Updates of the records in the database.                                 *)

\* SetStatus changes the status of one run and nothing else.
LEMMA StatusUpdate ==
  ASSUME run \in [Runs -> RunRows], NEW r \in Runs, NEW new \in Status, SetStatus(r, new)
  PROVE  /\ run' \in [Runs -> RunRows]
         /\ \A q \in Runs : /\ run'[q].status = IF q = r THEN new ELSE run[q].status
                            /\ run'[q].script = run[q].script
                            /\ run'[q].trigger = run[q].trigger
<1> DEFINE row == [run[r] EXCEPT !.status = new]
<1>1. /\ row \in RunRows
      /\ row.status = new /\ row.script = run[r].script /\ row.trigger = run[r].trigger
  <2>1. run[r] \in RunRows
    OBVIOUS
  <2> QED
    BY <2>1 DEF RunRows
<1>2. run' = [run EXCEPT ![r] = row]
  BY DEF SetStatus
<1> HIDE DEF row
<1> QED
  BY <1>1, <1>2

\* Scheduling, due and enabled flags of one script.
LEMMA ScriptUpdate ==
  ASSUME script \in [Scripts -> ScriptRows], NEW s \in Scripts, NEW e \in BOOLEAN,
         NEW d \in BOOLEAN, script' = [script EXCEPT ![s].enabled = e, ![s].due = d]
  PROVE  /\ script' \in [Scripts -> ScriptRows]
         /\ \A z \in Scripts : /\ script'[z].state = script[z].state
                               /\ z # s => script'[z] = script[z]
         /\ script'[s].enabled = e /\ script'[s].due = d
<1> DEFINE row == [[script[s] EXCEPT !.enabled = e] EXCEPT !.due = d]
<1>1. row \in ScriptRows /\ row.enabled = e /\ row.due = d /\ row.state = script[s].state
  <2>1. script[s] \in ScriptRows
    OBVIOUS
  <2> QED
    BY <2>1 DEF ScriptRows
<1>2. script' = [script EXCEPT ![s] = row]
  OBVIOUS
<1> HIDE DEF row
<1> QED
  BY <1>1, <1>2

\* The due flag alone.
LEMMA DueUpdate ==
  ASSUME script \in [Scripts -> ScriptRows], NEW s \in Scripts,
         NEW d \in BOOLEAN, script' = [script EXCEPT ![s].due = d]
  PROVE  /\ script' \in [Scripts -> ScriptRows]
         /\ \A z \in Scripts : /\ script'[z].state = script[z].state
                               /\ z # s => script'[z] = script[z]
         /\ script'[s].due = d
<1> DEFINE row == [script[s] EXCEPT !.due = d]
<1>1. row \in ScriptRows /\ row.due = d /\ row.state = script[s].state
  <2>1. script[s] \in ScriptRows
    OBVIOUS
  <2> QED
    BY <2>1 DEF ScriptRows
<1>2. script' = [script EXCEPT ![s] = row]
  OBVIOUS
<1> HIDE DEF row
<1> QED
  BY <1>1, <1>2

\* Counting changes the phase and the result of the count.
LEMMA CountUpdate ==
  ASSUME tx \in [Txns -> TxRows], NEW t \in Txns, NEW f \in BOOLEAN,
         tx' = [tx EXCEPT ![t].phase = "counted", ![t].free = f]
  PROVE  /\ tx' \in [Txns -> TxRows]
         /\ \A u \in Txns : /\ u # t => tx'[u] = tx[u]
                            /\ tx'[u].script = tx[u].script /\ tx'[u].trigger = tx[u].trigger
         /\ tx'[t].phase = "counted" /\ tx'[t].free = f
<1> DEFINE row == [[tx[t] EXCEPT !.phase = "counted"] EXCEPT !.free = f]
<1>1. /\ row \in TxRows /\ row.phase = "counted" /\ row.free = f
      /\ row.script = tx[t].script /\ row.trigger = tx[t].trigger
  <2>1. tx[t] \in TxRows
    OBVIOUS
  <2> QED
    BY <2>1 DEF TxRows
<1>2. tx' = [tx EXCEPT ![t] = row]
  OBVIOUS
<1> HIDE DEF row
<1> QED
  BY <1>1, <1>2

-----------------------------------------------------------------------------
(* Type correctness.                                                       *)

\* Every step keeps the type invariant.
LEMMA TypeStep == TypeParts /\ [Next]_vars => TypeParts'
<1> SUFFICES ASSUME TypeParts, [Next]_vars PROVE TypeParts'
  OBVIOUS
<1> USE DEF TypeParts, Result, WithStatus, handlers, runner
<1>1. ASSUME NEW s \in Scripts, CreateScript(s) PROVE TypeParts'
  <2>1. script' \in [Scripts -> ScriptRows]
    <3>1. [script[s] EXCEPT !.state = "live"] \in ScriptRows
      BY DEF ScriptRows
    <3> QED
      BY <1>1, <3>1 DEF CreateScript
  <2> QED
    BY <1>1, <2>1 DEF CreateScript
<1>2. ASSUME NEW s \in Scripts, DeleteScript(s) PROVE TypeParts'
  <2>1. script' \in [Scripts -> ScriptRows]
    BY <1>2 DEF DeleteScript, ScriptRows
  <2> QED
    BY <1>2, <2>1 DEF DeleteScript
<1>3. ASSUME NEW s \in Scripts, FallDue(s) PROVE TypeParts'
  <2>1. script' \in [Scripts -> ScriptRows]
    BY <1>3, DueUpdate DEF FallDue
  <2>2. occurred' \in [Scripts -> 0..MaxOccurrences]
    BY <1>3, BoundsAssumption DEF FallDue
  <2> QED
    BY <1>3, <2>1, <2>2 DEF FallDue
<1>4. ASSUME NEW s \in Scripts, NEW enable \in BOOLEAN, ScheduleScript(s, enable)
      PROVE  TypeParts'
  <2>1. script' \in [Scripts -> ScriptRows]
    BY <1>4, ScriptUpdate DEF ScheduleScript
  <2> QED
    BY <1>4, <2>1 DEF ScheduleScript
<1>5. ASSUME NEW s \in Scripts, NEW t \in Txns, NEW trigger \in {"manual", "schedule"}, BeginEnqueue(t, s, trigger)
      PROVE  TypeParts'
  <2>1. tx' \in [Txns -> TxRows]
    BY <1>5 DEF BeginEnqueue, TxRows
  <2> QED
    BY <1>5, <2>1 DEF BeginEnqueue
<1>6. ASSUME NEW t \in Txns, CountQueue(t) PROVE TypeParts'
  <2>1. tx' \in [Txns -> TxRows]
    BY <1>6, CountUpdate DEF CountQueue
  <2> QED
    BY <1>6, <2>1 DEF CountQueue
<1>7. ASSUME NEW t \in Txns, CommitEnqueue(t) PROVE TypeParts'
  <2>1. tx' \in [Txns -> TxRows]
    BY <1>7 DEF CommitEnqueue, IdleTx, TxRows
  <2>2. made' \in 0..MaxRuns
    BY <1>7, BoundsAssumption DEF CommitEnqueue
  <2>3. run' \in [Runs -> RunRows]
    <3>1. tx[t] \in TxRows
      OBVIOUS
    <3>2. [status |-> "queued", script |-> tx[t].script, trigger |-> tx[t].trigger] \in RunRows
      BY <3>1 DEF TxRows, RunRows, Status, Active
    <3> QED
      BY <1>7, <3>2 DEF CommitEnqueue
  <2>4. script' \in [Scripts -> ScriptRows]
    <3>1. CASE UNCHANGED script
      BY <3>1
    <3>2. CASE script' = [script EXCEPT ![tx[t].script].due = FALSE] /\ tx[t].script \in Scripts
      BY <3>2, DueUpdate
    <3>3. CASE script' = [script EXCEPT ![tx[t].script].due = FALSE] /\ tx[t].script \notin Scripts
      BY <3>3
    <3> QED
      BY <1>7, <3>1, <3>2, <3>3 DEF CommitEnqueue
  <2> QED
    BY <1>7, <2>1, <2>2, <2>3, <2>4 DEF CommitEnqueue
<1>8. ASSUME NEW t \in Txns, DisableDue(t) PROVE TypeParts'
  <2>1. tx' \in [Txns -> TxRows]
    BY <1>8 DEF DisableDue, IdleTx, TxRows
  <2>2. script' \in [Scripts -> ScriptRows]
    <3>1. CASE tx[t].script \in Scripts
      BY <1>8, <3>1, ScriptUpdate DEF DisableDue
    <3>2. CASE tx[t].script \notin Scripts
      BY <1>8, <3>2 DEF DisableDue
    <3> QED
      BY <3>1, <3>2
  <2> QED
    BY <1>8, <2>1, <2>2 DEF DisableDue
<1>9. ASSUME NEW t \in Txns, RollBack(t) PROVE TypeParts'
  <2>1. tx' \in [Txns -> TxRows]
    BY <1>9 DEF RollBack, IdleTx, TxRows
  <2> QED
    BY <1>9, <2>1 DEF RollBack
<1>10. ASSUME NEW w \in Workers, BeginClaim(w) PROVE TypeParts'
  BY <1>10 DEF BeginClaim
<1>11. ASSUME NEW w \in Workers, CommitClaim(w) PROVE TypeParts'
  <2>1. PICK r \in Runs : SetStatus(r, "running") /\ perf' = [perf EXCEPT ![r] = "checking"]
    BY <1>11 DEF CommitClaim, WithStatus
  <2>2. run' \in [Runs -> RunRows]
    BY <2>1, StatusUpdate DEF Status, Active
  <2> QED
    BY <1>11, <2>1, <2>2 DEF CommitClaim
<1>12. ASSUME NEW w \in Workers, AbandonClaim(w) PROVE TypeParts'
  BY <1>12 DEF AbandonClaim
<1>13. ASSUME NEW r \in Runs, Expire(r) PROVE TypeParts'
  <2>1. run' \in [Runs -> RunRows]
    BY <1>13, StatusUpdate DEF Expire, Status, Active, Result
  <2> QED
    BY <1>13, <2>1 DEF Expire
<1>14. ASSUME NEW r \in Runs, Purge(r) PROVE TypeParts'
  <2>1. run' \in [Runs -> RunRows]
    BY <1>14, StatusUpdate DEF Purge, Status, Active, Result
  <2> QED
    BY <1>14, <2>1 DEF Purge
<1>15. ASSUME NEW r \in Runs, Unauthorized(r) PROVE TypeParts'
  <2>1. run' \in [Runs -> RunRows]
    <3>1. UNCHANGED run \/ SetStatus(r, "failed")
      BY <1>15 DEF Unauthorized, Finish, SetStatus
    <3> QED
      BY <1>15, <3>1, StatusUpdate DEF Status, Active, Result, Unauthorized
  <2> QED
    BY <1>15, <2>1 DEF Unauthorized, Finish
<1>16. ASSUME NEW r \in Runs, Reload(r) PROVE TypeParts'
  BY <1>16 DEF Reload
<1>17. ASSUME NEW r \in Runs, WriteCancelled(r) PROVE TypeParts'
  <2>1. run' \in [Runs -> RunRows]
    <3>1. UNCHANGED run \/ SetStatus(r, "cancelled")
      BY <1>17 DEF WriteCancelled, SetStatus, SetStatus
    <3> QED
      BY <1>17, <3>1, StatusUpdate DEF Status, Active, Result, WriteCancelled
  <2> QED
    BY <1>17, <2>1 DEF WriteCancelled
<1>18. ASSUME NEW r \in Runs, Post(r) PROVE TypeParts'
  BY <1>18 DEF Post
<1>19. ASSUME NEW r \in Runs, PostFails(r) PROVE TypeParts'
  BY <1>19 DEF PostFails
<1>20. ASSUME NEW r \in Runs, WriteResult(r) PROVE TypeParts'
  <2>1. run' \in [Runs -> RunRows]
    <3>1. UNCHANGED run \/ SetStatus(r, perf[r])
      BY <1>20 DEF WriteResult, Finish, SetStatus
    <3> QED
      BY <1>20, <3>1, StatusUpdate DEF Status, Active, Result, WriteResult
  <2> QED
    BY <1>20, <2>1 DEF WriteResult, Finish
<1>21. ASSUME NEW r \in Runs, WorkerLost(r) PROVE TypeParts'
  BY <1>21 DEF WorkerLost
<1>22. ASSUME NEW r \in Runs, Stop(r) PROVE TypeParts'
  <2>1. run' \in [Runs -> RunRows]
    <3>1. SetStatus(r, "cancelled") \/ SetStatus(r, "stopping")
      BY <1>22 DEF Stop
    <3> QED
      BY <3>1, StatusUpdate DEF Status, Active, Result
  <2> QED
    BY <1>22, <2>1 DEF Stop
<1>23. ASSUME NEW r \in Runs, StopFails(r) PROVE TypeParts'
  BY <1>23 DEF StopFails
<1>24. ASSUME NEW r \in Runs, WriteStopped(r) PROVE TypeParts'
  <2>1. run' \in [Runs -> RunRows]
    <3>1. UNCHANGED run \/ SetStatus(r, "cancelled")
      BY <1>24 DEF WriteStopped, SetStatus
    <3> QED
      BY <1>24, <3>1, StatusUpdate DEF Status, Active, Result, WriteStopped
  <2> QED
    BY <1>24, <2>1 DEF WriteStopped
<1>25. ASSUME NEW r \in Runs, RunnerAccepts(r) PROVE TypeParts'
  BY <1>25 DEF RunnerAccepts, Runner!Accept
<1>26. ASSUME NEW r \in Runs, RunnerAnswersTombstone(r) PROVE TypeParts'
  BY <1>26 DEF RunnerAnswersTombstone, Answer, Runner!Settle
<1>27. ASSUME NEW r \in Runs, PostLost(r) PROVE TypeParts'
  BY <1>27 DEF PostLost
<1>28. ASSUME NEW r \in Runs, RunnerRestarts(r) PROVE TypeParts'
  BY <1>28 DEF RunnerRestarts, Runner!Settle
<1>29. ASSUME NEW r \in Runs, RunnerStops(r) PROVE TypeParts'
  BY <1>29 DEF RunnerStops, Runner!Settle
<1>30. ASSUME NEW r \in Runs, NEW result \in Result, RunnerFinishes(r, result)
      PROVE  TypeParts'
  BY <1>30 DEF RunnerFinishes, Answer, Runner!Settle
<1>31. CASE UNCHANGED vars
  BY <1>31 DEF vars
<1> QED
  BY <1>1, <1>2, <1>3, <1>4, <1>5, <1>6, <1>7, <1>8, <1>9, <1>10, <1>11,
     <1>12, <1>13, <1>14, <1>15, <1>16, <1>17, <1>18, <1>19, <1>20, <1>21,
     <1>22, <1>23, <1>24, <1>25, <1>26, <1>27, <1>28, <1>29, <1>30, <1>31 DEF Next

-----------------------------------------------------------------------------
(* What the rows say.                                                      *)

\* Every step keeps what the row of a run says true of its execution.
LEMMA TruthStep == TypeParts /\ MadeInOrder /\ TruthInv /\ [Next]_vars => TruthInv'
<1> SUFFICES ASSUME TypeParts, MadeInOrder, TruthInv, [Next]_vars, NEW q \in Runs
             PROVE  Truth(q)'
  BY DEF TruthInv
<1> USE DEF TypeParts, TruthInv, Truth, NotClaimedYet, NotPostedYet, AnsweredIsOver,
        StopSeenIsKept, Result, handlers, runner
<1>1. ASSUME NEW s \in Scripts, CreateScript(s) PROVE Truth(q)'
  BY <1>1 DEF CreateScript
<1>2. ASSUME NEW s \in Scripts, DeleteScript(s) PROVE Truth(q)'
  BY <1>2 DEF DeleteScript
<1>3. ASSUME NEW s \in Scripts, FallDue(s) PROVE Truth(q)'
  BY <1>3 DEF FallDue
<1>4. ASSUME NEW s \in Scripts, NEW enable \in BOOLEAN, ScheduleScript(s, enable)
      PROVE  Truth(q)'
  BY <1>4 DEF ScheduleScript
<1>5. ASSUME NEW s \in Scripts, NEW t \in Txns, NEW trigger \in {"manual", "schedule"}, BeginEnqueue(t, s, trigger)
      PROVE  Truth(q)'
  BY <1>5 DEF BeginEnqueue
<1>6. ASSUME NEW t \in Txns, CountQueue(t) PROVE Truth(q)'
  BY <1>6 DEF CountQueue
<1>7. ASSUME NEW t \in Txns, CommitEnqueue(t) PROVE Truth(q)'
  <2>1. CASE tx[t].free
    <3>1. /\ made + 1 \in Runs /\ run[made + 1].status = "unused"
          /\ run'[made + 1].status = "queued"
          /\ \A p \in Runs \ {made + 1} : run'[p] = run[p]
      BY <1>7, <2>1, BoundsAssumption DEF CommitEnqueue, MadeInOrder, Runs
    <3> QED
      BY <1>7, <2>1, <3>1 DEF CommitEnqueue
  <2>2. CASE ~tx[t].free
    BY <1>7, <2>2 DEF CommitEnqueue
  <2> QED
    BY <2>1, <2>2
<1>8. ASSUME NEW t \in Txns, DisableDue(t) PROVE Truth(q)'
  BY <1>8 DEF DisableDue, IdleTx
<1>9. ASSUME NEW t \in Txns, RollBack(t) PROVE Truth(q)'
  BY <1>9 DEF RollBack, IdleTx
<1>10. ASSUME NEW w \in Workers, BeginClaim(w) PROVE Truth(q)'
  BY <1>10 DEF BeginClaim
<1>11. ASSUME NEW w \in Workers, CommitClaim(w) PROVE Truth(q)'
  <2>1. PICK r \in Runs : /\ SetStatus(r, "running") /\ perf' = [perf EXCEPT ![r] = "checking"]
                          /\ run[r].status = "queued"
    BY <1>11 DEF CommitClaim, WithStatus
  <2>2. \A p \in Runs : run'[p].status = IF p = r THEN "running" ELSE run[p].status
    BY <2>1, StatusUpdate DEF Status, Active
  <2> QED
    BY <1>11, <2>1, <2>2 DEF CommitClaim
<1>12. ASSUME NEW w \in Workers, AbandonClaim(w) PROVE Truth(q)'
  BY <1>12 DEF AbandonClaim
<1>13. ASSUME NEW r \in Runs, Expire(r) PROVE Truth(q)'
  <2>1. \A p \in Runs : run'[p].status = IF p = r THEN "timed_out" ELSE run[p].status
    BY <1>13, StatusUpdate DEF Expire, Status, Active
  <2> QED
    BY <1>13, <2>1 DEF Expire
<1>14. ASSUME NEW r \in Runs, Purge(r) PROVE Truth(q)'
  <2>1. \A p \in Runs : run'[p].status = IF p = r THEN "purged" ELSE run[p].status
    BY <1>14, StatusUpdate DEF Purge, Status, Active
  <2> QED
    BY <1>14, <2>1 DEF Purge
<1>15. ASSUME NEW r \in Runs, Unauthorized(r) PROVE Truth(q)'
  <2>1. CASE run[r].status \in {"running", "stopping"}
    <3>1. SetStatus(r, "failed")
      BY <1>15, <2>1 DEF Unauthorized, Finish, SetStatus
    <3>2. \A p \in Runs : run'[p].status = IF p = r THEN "failed" ELSE run[p].status
      BY <1>15, <3>1, StatusUpdate DEF Status, Unauthorized
    <3> QED
      BY <1>15, <2>1, <3>2 DEF Unauthorized, Finish
  <2>2. CASE ~(run[r].status \in {"running", "stopping"})
    BY <1>15, <2>2 DEF Unauthorized, Finish
  <2> QED
    BY <2>1, <2>2
<1>16. ASSUME NEW r \in Runs, Reload(r) PROVE Truth(q)'
  BY <1>16 DEF Reload
<1>17. ASSUME NEW r \in Runs, WriteCancelled(r) PROVE Truth(q)'
  <2>1. CASE run[r].status # "purged"
    <3>1. SetStatus(r, "cancelled")
      BY <1>17, <2>1 DEF WriteCancelled, SetStatus
    <3>2. \A p \in Runs : run'[p].status = IF p = r THEN "cancelled" ELSE run[p].status
      BY <1>17, <3>1, StatusUpdate DEF Status, WriteCancelled
    <3> QED
      BY <1>17, <2>1, <3>2 DEF WriteCancelled
  <2>2. CASE ~(run[r].status # "purged")
    BY <1>17, <2>2 DEF WriteCancelled
  <2> QED
    BY <2>1, <2>2
<1>18. ASSUME NEW r \in Runs, Post(r) PROVE Truth(q)'
  BY <1>18 DEF Post
<1>19. ASSUME NEW r \in Runs, PostFails(r) PROVE Truth(q)'
  BY <1>19 DEF PostFails
<1>20. ASSUME NEW r \in Runs, WriteResult(r) PROVE Truth(q)'
  <2>1. CASE run[r].status \in {"running", "stopping"}
    <3>1. SetStatus(r, perf[r])
      BY <1>20, <2>1 DEF WriteResult, Finish, SetStatus
    <3>2. \A p \in Runs : run'[p].status = IF p = r THEN perf[r] ELSE run[p].status
      BY <1>20, <3>1, StatusUpdate DEF Status, WriteResult
    <3> QED
      BY <1>20, <2>1, <3>2 DEF WriteResult, Finish
  <2>2. CASE ~(run[r].status \in {"running", "stopping"})
    BY <1>20, <2>2 DEF WriteResult, Finish
  <2> QED
    BY <2>1, <2>2
<1>21. ASSUME NEW r \in Runs, WorkerLost(r) PROVE Truth(q)'
  BY <1>21 DEF WorkerLost
<1>22. ASSUME NEW r \in Runs, Stop(r) PROVE Truth(q)'
  <2>1. CASE run[r].status = "queued"
    <3>1. SetStatus(r, "cancelled") /\ UNCHANGED stops
      BY <1>22, <2>1 DEF Stop
    <3>2. \A p \in Runs : run'[p].status = IF p = r THEN "cancelled" ELSE run[p].status
      BY <3>1, StatusUpdate DEF Status
    <3> QED
      BY <1>22, <2>1, <3>1, <3>2 DEF Stop
  <2>2. CASE run[r].status # "queued"
    <3>1. /\ SetStatus(r, "stopping") /\ stops' = [stops EXCEPT ![r] = "deleting"]
          /\ run[r].status \in {"running", "stopping"}
      BY <1>22, <2>2 DEF Stop
    <3>2. \A p \in Runs : run'[p].status = IF p = r THEN "stopping" ELSE run[p].status
      BY <3>1, StatusUpdate DEF Status, Active
    <3> QED
      BY <1>22, <2>2, <3>1, <3>2 DEF Stop
  <2> QED
    BY <2>1, <2>2
<1>23. ASSUME NEW r \in Runs, StopFails(r) PROVE Truth(q)'
  BY <1>23 DEF StopFails
<1>24. ASSUME NEW r \in Runs, WriteStopped(r) PROVE Truth(q)'
  <2>1. CASE run[r].status \in {"running", "stopping"}
    <3>1. SetStatus(r, "cancelled")
      BY <1>24, <2>1 DEF WriteStopped, SetStatus
    <3>2. \A p \in Runs : run'[p].status = IF p = r THEN "cancelled" ELSE run[p].status
      BY <1>24, <3>1, StatusUpdate DEF Status, WriteStopped
    <3> QED
      BY <1>24, <2>1, <3>2 DEF WriteStopped
  <2>2. CASE ~(run[r].status \in {"running", "stopping"})
    BY <1>24, <2>2 DEF WriteStopped
  <2> QED
    BY <2>1, <2>2
<1>25. ASSUME NEW r \in Runs, RunnerAccepts(r) PROVE Truth(q)'
  BY <1>25 DEF RunnerAccepts, Runner!Accept
<1>26. ASSUME NEW r \in Runs, RunnerAnswersTombstone(r) PROVE Truth(q)'
  BY <1>26 DEF RunnerAnswersTombstone, Answer, Runner!Settle
<1>27. ASSUME NEW r \in Runs, PostLost(r) PROVE Truth(q)'
  BY <1>27 DEF PostLost
<1>28. ASSUME NEW r \in Runs, RunnerRestarts(r) PROVE Truth(q)'
  BY <1>28 DEF RunnerRestarts, Runner!Settle
<1>29. ASSUME NEW r \in Runs, RunnerStops(r) PROVE Truth(q)'
  BY <1>29 DEF RunnerStops, Runner!Settle
<1>30. ASSUME NEW r \in Runs, NEW result \in Result, RunnerFinishes(r, result)
      PROVE  Truth(q)'
  BY <1>30 DEF RunnerFinishes, Answer, Runner!Settle
<1>31. CASE UNCHANGED vars
  BY <1>31 DEF vars
<1> QED
  BY <1>1, <1>2, <1>3, <1>4, <1>5, <1>6, <1>7, <1>8, <1>9, <1>10, <1>11,
     <1>12, <1>13, <1>14, <1>15, <1>16, <1>17, <1>18, <1>19, <1>20, <1>21,
     <1>22, <1>23, <1>24, <1>25, <1>26, <1>27, <1>28, <1>29, <1>30, <1>31 DEF Next

-----------------------------------------------------------------------------
(* Most steps only move runs towards their end.                            *)

\* The steps that are about one run.
RunStep(r) ==
    \/ Expire(r) \/ Purge(r)
    \/ Unauthorized(r) \/ Reload(r) \/ WriteCancelled(r)
    \/ Post(r) \/ PostFails(r) \/ WriteResult(r) \/ WorkerLost(r)
    \/ Stop(r) \/ StopFails(r) \/ WriteStopped(r)
    \/ RunnerAccepts(r) \/ RunnerAnswersTombstone(r) \/ PostLost(r)
    \/ RunnerRestarts(r) \/ RunnerStops(r)
    \/ \E result \in Result : RunnerFinishes(r, result)

\* No run becomes queued or running, and none changes its script or its trigger.
Ages(q) ==
    /\ run'[q].script = run[q].script /\ run'[q].trigger = run[q].trigger
    /\ \/ run'[q].status = run[q].status
       \/ run[q].status # "unused" /\ run'[q].status \in Result \cup {"purged"}
       \/ run[q].status \in {"running", "stopping"} /\ run'[q].status = "stopping"

\* A quiet step disturbs neither scripts, transactions nor what they counted.
Quiet == UNCHANGED <<script, made, occurred, tx, claim>> /\ \A q \in Runs : Ages(q)

\* Every step about one run is quiet.
LEMMA RunStepIsQuiet ==
  ASSUME TypeParts, TruthInv, NEW r \in Runs, RunStep(r)
  PROVE  Quiet
<1> USE DEF TypeParts, TruthInv, Quiet, Ages, Result
<1>1. ASSUME Expire(r) PROVE Quiet
  <2>1. UNCHANGED run \/ (SetStatus(r, "timed_out") /\ run[r].status \in {"running", "stopping"})
    BY <1>1 DEF Expire, SetStatus
  <2> QED
    BY <1>1, <2>1, StatusUpdate DEF Expire, Status, Active
<1>2. ASSUME Purge(r) PROVE Quiet
  <2>1. UNCHANGED run \/ (SetStatus(r, "purged") /\ run[r].status # "unused")
    BY <1>2 DEF Purge, SetStatus
  <2> QED
    BY <1>2, <2>1, StatusUpdate DEF Purge, Status, Active
<1>3. ASSUME Unauthorized(r) PROVE Quiet
  <2>1. UNCHANGED run \/ (SetStatus(r, "failed") /\ run[r].status \in {"running", "stopping"})
    BY <1>3 DEF Unauthorized, Finish, SetStatus
  <2> QED
    BY <1>3, <2>1, StatusUpdate DEF Unauthorized, Finish, Status, Active
<1>4. ASSUME Reload(r) PROVE Quiet
  BY <1>4 DEF Reload
<1>5. ASSUME WriteCancelled(r) PROVE Quiet
  <2>1. UNCHANGED run \/ (SetStatus(r, "cancelled") /\ run[r].status # "unused")
    BY <1>5 DEF Truth, NotClaimedYet, WriteCancelled, SetStatus
  <2> QED
    BY <1>5, <2>1, StatusUpdate DEF WriteCancelled, Status, Active
<1>6. ASSUME Post(r) PROVE Quiet
  BY <1>6 DEF Post
<1>7. ASSUME PostFails(r) PROVE Quiet
  BY <1>7 DEF PostFails
<1>8. ASSUME WriteResult(r) PROVE Quiet
  <2>1. UNCHANGED run \/ (SetStatus(r, perf[r]) /\ run[r].status \in {"running", "stopping"})
    BY <1>8 DEF WriteResult, Finish, SetStatus
  <2> QED
    BY <1>8, <2>1, StatusUpdate DEF WriteResult, Finish, Status, Active
<1>9. ASSUME WorkerLost(r) PROVE Quiet
  BY <1>9 DEF WorkerLost
<1>10. ASSUME Stop(r) PROVE Quiet
  <2>1. \/ SetStatus(r, "cancelled") /\ run[r].status = "queued"
        \/ SetStatus(r, "stopping") /\ run[r].status \in {"running", "stopping"}
    BY <1>10 DEF Stop
  <2> QED
    BY <1>10, <2>1, StatusUpdate DEF Stop, Status, Active
<1>11. ASSUME StopFails(r) PROVE Quiet
  BY <1>11 DEF StopFails
<1>12. ASSUME WriteStopped(r) PROVE Quiet
  <2>1. UNCHANGED run \/ (SetStatus(r, "cancelled") /\ run[r].status \in {"running", "stopping"})
    BY <1>12 DEF WriteStopped, SetStatus
  <2> QED
    BY <1>12, <2>1, StatusUpdate DEF WriteStopped, Status, Active
<1>13. ASSUME RunnerAccepts(r) PROVE Quiet
  BY <1>13 DEF RunnerAccepts, Runner!Accept
<1>14. ASSUME RunnerAnswersTombstone(r) PROVE Quiet
  BY <1>14 DEF RunnerAnswersTombstone, Answer, Runner!Settle
<1>15. ASSUME PostLost(r) PROVE Quiet
  BY <1>15 DEF PostLost
<1>16. ASSUME RunnerRestarts(r) PROVE Quiet
  BY <1>16 DEF RunnerRestarts, Runner!Settle
<1>17. ASSUME RunnerStops(r) PROVE Quiet
  BY <1>17 DEF RunnerStops, Runner!Settle
<1>18. ASSUME NEW result \in Result, RunnerFinishes(r, result) PROVE Quiet
  BY <1>18 DEF RunnerFinishes, Answer, Runner!Settle
<1> QED
  BY <1>1, <1>2, <1>3, <1>4, <1>5, <1>6, <1>7, <1>8, <1>9, <1>10, <1>11,
     <1>12, <1>13, <1>14, <1>15, <1>16, <1>17, <1>18 DEF RunStep

\* Claiming moves one run from the queue to the running ones.
LEMMA ClaimStep ==
  ASSUME TypeParts, NEW w \in Workers, CommitClaim(w)
  PROVE  /\ UNCHANGED <<script, made, occurred, tx>> /\ claim' = [claim EXCEPT ![w] = "idle"]
         /\ \E r \in Runs :
              /\ run[r].status = "queued"
              /\ \A q \in Runs :
                   /\ run'[q].status = IF q = r THEN "running" ELSE run[q].status
                   /\ run'[q].script = run[q].script /\ run'[q].trigger = run[q].trigger
<1>1. PICK r \in Runs : SetStatus(r, "running") /\ run[r].status = "queued"
  BY DEF CommitClaim, WithStatus
<1> QED
  BY <1>1, StatusUpdate DEF CommitClaim, TypeParts, Status, Active

\* With room, committing turns the next unused row into a queued run.
LEMMA EnqueueStep ==
  ASSUME TypeParts, MadeInOrder, NEW t \in Txns, CommitEnqueue(t), tx[t].free
  PROVE  /\ made + 1 \in Runs /\ made' = made + 1 /\ run[made + 1].status = "unused"
         /\ run'[made + 1].status = "queued" /\ run'[made + 1].script = tx[t].script
         /\ run'[made + 1].trigger = tx[t].trigger
         /\ \A q \in Runs \ {made + 1} : run'[q] = run[q]
  BY BoundsAssumption DEF CommitEnqueue, TypeParts, MadeInOrder, Runs

\* Rows are handed out in order.
LEMMA OrderStep == TypeParts /\ MadeInOrder /\ TruthInv /\ [Next]_vars => MadeInOrder'
<1> SUFFICES ASSUME TypeParts, MadeInOrder, TruthInv, [Next]_vars PROVE MadeInOrder'
  OBVIOUS
<1>1. ASSUME NEW r \in Runs, RunStep(r) PROVE MadeInOrder'
  BY <1>1, RunStepIsQuiet DEF Quiet, Ages, MadeInOrder, Result
<1>2. ASSUME NEW w \in Workers, CommitClaim(w) PROVE MadeInOrder'
  BY <1>2, ClaimStep DEF MadeInOrder
<1>3. ASSUME NEW t \in Txns, CommitEnqueue(t) PROVE MadeInOrder'
  <2>1. CASE tx[t].free
    <3>1. made \in Nat /\ made' = made + 1
      BY <1>3, <2>1, BoundsAssumption DEF CommitEnqueue, TypeParts
    <3> QED
      BY <1>3, <2>1, <3>1, EnqueueStep, BoundsAssumption DEF MadeInOrder, Runs
  <2>2. CASE ~tx[t].free
    BY <1>3, <2>2 DEF CommitEnqueue, MadeInOrder
  <2> QED
    BY <2>1, <2>2
<1>4. CASE UNCHANGED <<run, made>>
  BY <1>4 DEF MadeInOrder
<1> QED
  BY <1>1, <1>2, <1>3, <1>4
     DEF Next, RunStep, vars, CreateScript, DeleteScript, FallDue, ScheduleScript,
         BeginEnqueue, CountQueue, DisableDue, RollBack, BeginClaim, AbandonClaim

-----------------------------------------------------------------------------
(* Enqueueing.                                                             *)

\* Sets of runs are finite, and smaller if they are contained in one another.
LEMMA RunSets ==
  ASSUME NEW S \in SUBSET Runs
  PROVE  /\ IsFiniteSet(S) /\ Cardinality(S) \in Nat
         /\ \A T \in SUBSET S : Cardinality(T) \in Nat /\ Cardinality(T) <= Cardinality(S)
<1>1. IsFiniteSet(Runs)
  BY FS_Interval, BoundsAssumption DEF Runs
<1>2. IsFiniteSet(S) /\ Cardinality(S) \in Nat
  BY <1>1, FS_Subset, FS_CardinalityType
<1>3. \A T \in SUBSET S : Cardinality(T) \in Nat /\ Cardinality(T) <= Cardinality(S)
  BY <1>2, FS_Subset, FS_CardinalityType
<1> QED
  BY <1>2, <1>3

\* What the enqueueing invariants need of a step that leaves scripts and
\* transactions alone: no run becomes queued or active.
LEMMA EnqueueQuiet ==
  ASSUME EnqueueInv, UNCHANGED <<script, occurred, tx>>,
         \A q \in Runs : /\ run'[q].script = run[q].script /\ run'[q].trigger = run[q].trigger
                         /\ run'[q].status = "queued" => run[q].status = "queued"
                         /\ run'[q].status \in Active => run[q].status \in Active
  PROVE  EnqueueInv'
<1> USE DEF EnqueueInv
<1>1. Queued' \subseteq Queued /\ Queued \in SUBSET Runs
  BY DEF Queued, WithStatus
<1>2. /\ Cardinality(Queued') <= Cardinality(Queued)
      /\ Cardinality(Queued') \in Nat /\ Cardinality(Queued) \in Nat
  BY <1>1, RunSets
<1>3. \A s : ActiveOf(s)' \subseteq ActiveOf(s)
  BY DEF ActiveOf, WithStatus
<1>4. TxHoldsScript'
  BY DEF TxHoldsScript
<1>5. TxCounts'
  BY <1>2, <1>3, BoundsAssumption DEF TxCounts
<1>6. ActiveIsUnique'
  BY DEF ActiveIsUnique, WithStatus
<1>7. DeletedScriptIdle'
  BY <1>3 DEF DeletedScriptIdle
<1>8. QueueBounded'
  BY <1>2, BoundsAssumption DEF QueueBounded, Queued
<1>9. OccurrencesServed'
  <2>1. \A s \in Scripts : Scheduled(s)' = Scheduled(s)
    BY DEF Scheduled
  <2> QED
    BY <2>1 DEF OccurrencesServed
<1> QED
  BY <1>4, <1>5, <1>6, <1>7, <1>8, <1>9

\* Steps that change one script, or one transaction, but no run.
LEMMA EditStep ==
  ASSUME TypeParts, EnqueueInv, UNCHANGED run, TxHoldsScript', TxCounts',
         DeletedScriptIdle', OccurrencesServed'
  PROVE  EnqueueInv'
<1>1. ActiveIsUnique'
  BY DEF EnqueueInv, ActiveIsUnique, WithStatus
<1>2. QueueBounded'
  BY DEF EnqueueInv, QueueBounded, WithStatus
<1> QED
  BY <1>1, <1>2 DEF EnqueueInv

\* Sets of runs do not change with scripts and transactions.
LEMMA SameRuns ==
  ASSUME UNCHANGED run
  PROVE  Queued' = Queued /\ \A s : ActiveOf(s)' = ActiveOf(s) /\ Scheduled(s)' = Scheduled(s)
  BY DEF Queued, ActiveOf, Scheduled, WithStatus

\* Creating, deleting, scheduling: the row lock keeps transactions out.
LEMMA ScriptStep ==
  ASSUME TypeParts, EnqueueInv, NEW s \in Scripts,
         \/ CreateScript(s) \/ DeleteScript(s) \/ FallDue(s)
         \/ \E enable \in BOOLEAN : ScheduleScript(s, enable)
  PROVE  EnqueueInv'
<1> USE DEF TypeParts, EnqueueInv
<1>1. UNCHANGED <<run, tx>> /\ Queued' = Queued
      /\ \A z : ActiveOf(z)' = ActiveOf(z) /\ Scheduled(z)' = Scheduled(z)
  BY SameRuns DEF CreateScript, DeleteScript, FallDue, ScheduleScript
<1>2. TxCounts'
  BY <1>1 DEF TxCounts
<1>3. /\ script'[s].due => script[s].due \/ occurred'[s] = occurred[s] + 1
      /\ \A z \in Scripts \ {s} : script'[z] = script[z] /\ occurred'[z] = occurred[z]
      /\ occurred'[s] \in {occurred[s], occurred[s] + 1}
      /\ script'[s].state # "live" => ActiveOf(s) = {}
      /\ \/ RowLocked(s) => script'[s].state = script[s].state /\ script[s].due = script'[s].due
         \/ FallDue(s) /\ script'[s].due /\ script'[s].state = script[s].state
         \/ CreateScript(s) /\ script[s].state = "absent"
  <2>1. CASE CreateScript(s)
    BY <2>1 DEF CreateScript, ScriptRows
  <2>2. CASE DeleteScript(s)
    BY <2>2 DEF DeleteScript, ScriptRows
  <2>3. CASE FallDue(s)
    <3>1. /\ \A z \in Scripts : script'[z].state = script[z].state /\ (z # s => script'[z] = script[z])
          /\ script'[s].due = TRUE
      BY <2>3, DueUpdate DEF FallDue
    <3> QED
      BY <2>3, <3>1 DEF FallDue
  <2>4. ASSUME NEW enable \in BOOLEAN, ScheduleScript(s, enable)
        PROVE  /\ ~RowLocked(s) /\ ~script'[s].due /\ script'[s].state = "live"
               /\ \A z \in Scripts \ {s} : script'[z] = script[z]
               /\ UNCHANGED occurred
    BY <2>4, ScriptUpdate DEF ScheduleScript
  <2> QED
    BY <2>1, <2>2, <2>3, <2>4
<1>4. TxHoldsScript'
  BY <1>1, <1>3 DEF TxHoldsScript, RowLocked, ScriptRows, CreateScript
<1>5. DeletedScriptIdle'
  BY <1>1, <1>3 DEF DeletedScriptIdle
<1>6. OccurrencesServed'
  <2>1. \A z \in Scripts : Cardinality(Scheduled(z)) \in Nat
    BY RunSets DEF Scheduled
  <2>2. FallDue(s) => ~script[s].due
    BY DEF FallDue
  <2>3. \A z \in Scripts : occurred[z] \in Int /\ script[z].due \in BOOLEAN
    BY BoundsAssumption DEF ScriptRows
  <2> QED
    BY <1>1, <1>3, <2>1, <2>2, <2>3 DEF OccurrencesServed
<1> QED
  BY <1>1, <1>2, <1>4, <1>5, <1>6, EditStep

\* Locking a script that nobody holds.
LEMMA BeginStep ==
  ASSUME TypeParts, EnqueueInv, NEW t \in Txns, NEW s \in Scripts,
         NEW trigger \in {"manual", "schedule"}, BeginEnqueue(t, s, trigger)
  PROVE  EnqueueInv'
<1> USE DEF TypeParts, EnqueueInv
<1>1. /\ UNCHANGED <<run, script, occurred>> /\ ~RowLocked(s) /\ script[s].state = "live"
      /\ trigger = "schedule" => script[s].due
      /\ tx[t].phase = "idle"
      /\ tx'[t] = [phase |-> "locked", trigger |-> trigger, script |-> s, free |-> FALSE]
      /\ \A u \in Txns \ {t} : tx'[u] = tx[u]
  BY DEF BeginEnqueue
<1>2. Queued' = Queued /\ \A z : ActiveOf(z)' = ActiveOf(z) /\ Scheduled(z)' = Scheduled(z)
  BY <1>1, SameRuns
<1>3. TxHoldsScript'
  BY <1>1 DEF TxHoldsScript, RowLocked
<1>4. TxCounts'
  <2> SUFFICES ASSUME NEW u \in Txns, tx'[u].phase = "counted"
               PROVE  /\ \A v \in Txns : tx'[v].phase = "counted" => u = v
                      /\ tx'[u].free => /\ ActiveOf(tx[u].script)' = {}
                                        /\ Cardinality(Queued)' < MaxQueue
    BY DEF TxCounts
  <2>1. u # t /\ tx'[u] = tx[u]
    BY <1>1
  <2>2. tx'[u].free => ActiveOf(tx[u].script)' = {}
    BY <1>1, <2>1 DEF TxCounts, ActiveOf, WithStatus
  <2> QED
    BY <1>1, <1>2, <2>1, <2>2 DEF TxCounts
<1>5. DeletedScriptIdle' /\ OccurrencesServed'
  BY <1>1, <1>2 DEF DeletedScriptIdle, OccurrencesServed
<1> QED
  BY <1>1, <1>3, <1>4, <1>5, EditStep

\* Counting under the advisory lock.
LEMMA CountStep ==
  ASSUME TypeParts, EnqueueInv, NEW t \in Txns, CountQueue(t)
  PROVE  EnqueueInv'
<1> USE DEF TypeParts, EnqueueInv
<1> DEFINE f == ActiveOf(tx[t].script) = {} /\ Cardinality(WithStatus({"queued"})) < MaxQueue
<1>1. /\ UNCHANGED <<run, script, occurred>>
      /\ tx[t].phase = "locked" /\ \A u \in Txns : tx[u].phase # "counted"
      /\ tx' = [tx EXCEPT ![t].phase = "counted", ![t].free = f]
  BY DEF CountQueue
<1>2. /\ \A u \in Txns : /\ u # t => tx'[u] = tx[u]
                         /\ tx'[u].script = tx[u].script /\ tx'[u].trigger = tx[u].trigger
      /\ tx'[t].phase = "counted" /\ tx'[t].free = f
  BY <1>1, CountUpdate
<1>3. Queued' = Queued /\ \A z : ActiveOf(z)' = ActiveOf(z) /\ Scheduled(z)' = Scheduled(z)
  BY <1>1, SameRuns
<1>4. TxHoldsScript'
  <2>1. tx[t].phase # "idle"
    BY <1>1
  <2> HIDE DEF f
  <2> QED
    BY <1>1, <1>2, <2>1 DEF TxHoldsScript
<1>5. TxCounts'
  <2>1. \A u \in Txns : tx'[u].phase = "counted" => u = t
    BY <1>1, <1>2
  <2>2. f => ActiveOf(tx[t].script)' = {}
    <3>1. tx'[t].script = tx[t].script /\ run' = run
      BY <1>1, <1>2
    <3>2. f => ActiveOf(tx[t].script) = {}
      OBVIOUS
    <3> HIDE DEF f
    <3>3. ActiveOf(tx[t].script)' = ActiveOf(tx[t].script)
      BY <3>1 DEF ActiveOf, WithStatus
    <3> QED
      BY <3>2, <3>3
  <2>3. f => Cardinality(Queued)' < MaxQueue
    BY <1>3 DEF Queued
  <2> HIDE DEF f
  <2> QED
    BY <1>2, <2>1, <2>2, <2>3 DEF TxCounts
<1>6. DeletedScriptIdle' /\ OccurrencesServed'
  BY <1>1, <1>3 DEF DeletedScriptIdle, OccurrencesServed
<1> QED
  BY <1>1, <1>4, <1>5, <1>6, EditStep

\* Ending a transaction without a run: no room, no access, or a rollback.
LEMMA GiveUpStep ==
  ASSUME TypeParts, EnqueueInv, NEW t \in Txns,
         DisableDue(t) \/ RollBack(t) \/ (CommitEnqueue(t) /\ ~tx[t].free)
  PROVE  EnqueueInv'
<1> USE DEF TypeParts, EnqueueInv
<1>1. /\ UNCHANGED <<run, occurred>> /\ tx[t].phase # "idle"
      /\ tx'[t].phase = "idle" /\ \A u \in Txns \ {t} : tx'[u] = tx[u]
  BY DEF DisableDue, RollBack, CommitEnqueue, IdleTx
<1>2. tx[t].script \in Scripts
  BY <1>1 DEF TxHoldsScript
<1>3. \A z \in Scripts : /\ script'[z].state = script[z].state
                         /\ z # tx[t].script => script'[z] = script[z]
                         /\ script'[z].due => script[z].due
  <2>1. CASE UNCHANGED script
    BY <2>1
  <2>2. CASE script' = [script EXCEPT ![tx[t].script].due = FALSE]
    BY <1>2, <2>2, DueUpdate
  <2>3. CASE script' = [script EXCEPT ![tx[t].script].enabled = FALSE,
                                      ![tx[t].script].due = FALSE]
    BY <1>2, <2>3, ScriptUpdate
  <2> QED
    BY <2>1, <2>2, <2>3 DEF DisableDue, RollBack, CommitEnqueue
<1>4. Queued' = Queued /\ \A z : ActiveOf(z)' = ActiveOf(z) /\ Scheduled(z)' = Scheduled(z)
  BY <1>1, SameRuns
<1>5. TxHoldsScript'
  BY <1>1, <1>3 DEF TxHoldsScript
<1>6. TxCounts'
  BY <1>1, <1>4 DEF TxCounts
<1>7. DeletedScriptIdle'
  BY <1>3, <1>4 DEF DeletedScriptIdle
<1>8. OccurrencesServed'
  <2>1. \A z \in Scripts : /\ Cardinality(Scheduled(z)) \in Nat
                           /\ occurred[z] \in Int /\ script[z].due \in BOOLEAN
    BY RunSets, BoundsAssumption DEF Scheduled, ScriptRows
  <2> QED
    BY <1>1, <1>3, <1>4, <2>1 DEF OccurrencesServed
<1> QED
  BY <1>1, <1>5, <1>6, <1>7, <1>8, EditStep

\* Committing a run: what was counted still holds.
LEMMA CommitStep ==
  ASSUME TypeParts, MadeInOrder, EnqueueInv, NEW t \in Txns, CommitEnqueue(t), tx[t].free
  PROVE  EnqueueInv'
<1> USE DEF TypeParts, EnqueueInv
<1> DEFINE s == tx[t].script
           n == made + 1
<1>1. /\ n \in Runs /\ run[n].status = "unused" /\ run'[n].status = "queued"
      /\ run'[n].script = s /\ run'[n].trigger = tx[t].trigger
      /\ \A q \in Runs \ {n} : run'[q] = run[q]
  BY EnqueueStep
<1>2. /\ tx[t].phase = "counted" /\ UNCHANGED occurred
      /\ tx'[t].phase = "idle" /\ \A u \in Txns \ {t} : tx'[u] = tx[u]
  BY DEF CommitEnqueue, IdleTx
<1>3. s \in Scripts /\ script[s].state = "live"
      /\ (tx[t].trigger = "schedule" => script[s].due)
  BY <1>2 DEF TxHoldsScript
<1>4. /\ \A z \in Scripts : /\ script'[z].state = script[z].state
                            /\ z # s => script'[z] = script[z]
      /\ script'[s].due = IF tx[t].trigger = "schedule" THEN FALSE ELSE script[s].due
  BY <1>3, DueUpdate DEF CommitEnqueue
<1>5. ActiveOf(s) = {} /\ Cardinality(Queued) < MaxQueue
      /\ \A u \in Txns : tx[u].phase = "counted" => t = u
  BY <1>2 DEF TxCounts
<1>6. TxHoldsScript'
  BY <1>2, <1>4 DEF TxHoldsScript
<1>7. TxCounts'
  BY <1>2, <1>5 DEF TxCounts
<1>8. ActiveIsUnique'
  <2>1. \A q \in Runs : q \in WithStatus(Active)' <=> q \in WithStatus(Active) \/ q = n
    BY <1>1 DEF WithStatus, Active
  <2>2. \A q \in WithStatus(Active) : run[q].script # s
    BY <1>5 DEF ActiveOf
  <2>3. n \notin WithStatus(Active)
    BY <1>1 DEF WithStatus, Active
  <2> QED
    BY <1>1, <2>1, <2>2, <2>3 DEF ActiveIsUnique, WithStatus
<1>9. DeletedScriptIdle'
  <2>1. \A z : z # s => ActiveOf(z)' = ActiveOf(z)
    BY <1>1 DEF ActiveOf, WithStatus, Active
  <2> QED
    BY <1>3, <1>4, <2>1 DEF DeletedScriptIdle
<1>10. QueueBounded'
  <2>1. Queued' = Queued \cup {n} /\ n \notin Queued
    BY <1>1 DEF Queued, WithStatus
  <2>2. IsFiniteSet(Queued) /\ Cardinality(Queued) \in Nat
    BY RunSets DEF Queued, WithStatus
  <2>3. Cardinality(Queued') = Cardinality(Queued) + 1
    BY <2>1, <2>2, FS_AddElement
  <2> QED
    BY <1>5, <2>2, <2>3, BoundsAssumption DEF QueueBounded, Queued
<1>11. OccurrencesServed'
  <2> SUFFICES ASSUME NEW z \in Scripts
               PROVE  Cardinality(Scheduled(z)') + (IF script'[z].due THEN 1 ELSE 0)
                          <= occurred[z]
    BY <1>2 DEF OccurrencesServed
  <2>1. /\ Cardinality(Scheduled(z)) + (IF script[z].due THEN 1 ELSE 0) <= occurred[z]
        /\ occurred[z] \in Int /\ script[z].due \in BOOLEAN
    BY BoundsAssumption DEF OccurrencesServed, ScriptRows
  <2>2. CASE z = s /\ tx[t].trigger = "schedule"
    <3>1. Scheduled(z)' = Scheduled(z) \cup {n} /\ n \notin Scheduled(z)
      BY <1>1, <2>2 DEF Scheduled, MadeInOrder
    <3>2. IsFiniteSet(Scheduled(z)) /\ Cardinality(Scheduled(z)) \in Nat
      BY RunSets DEF Scheduled
    <3>3. Cardinality(Scheduled(z)') = Cardinality(Scheduled(z)) + 1
      BY <3>1, <3>2, FS_AddElement
    <3>4. script[z].due /\ ~script'[z].due
      BY <1>3, <1>4, <2>2
    <3> QED
      BY <2>1, <3>2, <3>3, <3>4
  <2>3. CASE ~(z = s /\ tx[t].trigger = "schedule")
    <3>1. Scheduled(z)' = Scheduled(z)
      BY <1>1, <2>3 DEF Scheduled, MadeInOrder
    <3>2. script'[z].due = script[z].due
      BY <1>4, <2>3
    <3> QED
      BY <2>1, <3>1, <3>2
  <2> QED
    BY <2>2, <2>3
<1> QED
  BY <1>6, <1>7, <1>8, <1>9, <1>10, <1>11

\* Every step keeps the enqueueing invariants.
LEMMA EnqueueInvStep ==
  TypeParts /\ MadeInOrder /\ TruthInv /\ EnqueueInv /\ [Next]_vars => EnqueueInv'
<1> SUFFICES ASSUME TypeParts, MadeInOrder, TruthInv, EnqueueInv, [Next]_vars
             PROVE  EnqueueInv'
  OBVIOUS
<1>1. ASSUME NEW s \in Scripts,
             \/ CreateScript(s) \/ DeleteScript(s) \/ FallDue(s)
             \/ \E enable \in BOOLEAN : ScheduleScript(s, enable)
      PROVE  EnqueueInv'
  BY <1>1, ScriptStep
<1>2. ASSUME NEW s \in Scripts, NEW t \in Txns, NEW trigger \in {"manual", "schedule"},
             BeginEnqueue(t, s, trigger)
      PROVE  EnqueueInv'
  BY <1>2, BeginStep
<1>3. ASSUME NEW t \in Txns, CountQueue(t) PROVE EnqueueInv'
  BY <1>3, CountStep
<1>4. ASSUME NEW t \in Txns, CommitEnqueue(t) \/ DisableDue(t) \/ RollBack(t)
      PROVE  EnqueueInv'
  BY <1>4, CommitStep, GiveUpStep
<1>5. ASSUME NEW w \in Workers, CommitClaim(w) PROVE EnqueueInv'
  BY <1>5, ClaimStep, EnqueueQuiet DEF Active
<1>6. ASSUME NEW r \in Runs, RunStep(r) PROVE EnqueueInv'
  <2>1. Quiet
    BY <1>6, RunStepIsQuiet
  <2>2. \A q \in Runs : /\ run'[q].script = run[q].script /\ run'[q].trigger = run[q].trigger
                        /\ run'[q].status = "queued" => run[q].status = "queued"
                        /\ run'[q].status \in Active => run[q].status \in Active
    BY <2>1 DEF Quiet, Ages, Active, Result
  <2> QED
    BY <2>1, <2>2, EnqueueQuiet DEF Quiet
<1>7. CASE UNCHANGED <<script, run, occurred, tx>>
  BY <1>7, EnqueueQuiet
<1> QED
  BY <1>1, <1>2, <1>3, <1>4, <1>5, <1>6, <1>7
     DEF Next, RunStep, vars, BeginClaim, AbandonClaim

-----------------------------------------------------------------------------
(* Dispatching.                                                            *)

\* What the dispatching invariants need of a step that claims nothing: no run
\* starts executing, and no worker holds a count.
LEMMA DispatchQuiet ==
  ASSUME DispatchInv, \A w \in Workers : claim'[w] = "counted" => claim[w] = "counted",
         \A q \in Runs : run'[q].status \in {"running", "stopping"} =>
                             run[q].status \in {"running", "stopping"}
  PROVE  DispatchInv'
<1>1. Executing' \subseteq Executing /\ Executing \in SUBSET Runs
  BY DEF Executing, WithStatus
<1>2. /\ Cardinality(Executing') <= Cardinality(Executing)
      /\ Cardinality(Executing') \in Nat /\ Cardinality(Executing) \in Nat
  BY <1>1, RunSets
<1>3. ClaimCounts'
  BY <1>2, BoundsAssumption DEF DispatchInv, ClaimCounts
<1>4. ActiveWithinConcurrency'
  BY <1>2, BoundsAssumption DEF DispatchInv, ActiveWithinConcurrency, Executing
<1> QED
  BY <1>3, <1>4 DEF DispatchInv

\* Claiming adds one executing run to a count that is below the limit.
LEMMA DispatchClaim ==
  ASSUME TypeParts, DispatchInv, NEW w \in Workers, CommitClaim(w)
  PROVE  DispatchInv'
<1>1. PICK r \in Runs :
        /\ run[r].status = "queued"
        /\ \A q \in Runs : run'[q].status = IF q = r THEN "running" ELSE run[q].status
  BY ClaimStep
<1>2. /\ claim[w] = "counted" /\ claim'[w] = "idle"
      /\ \A v \in Workers \ {w} : claim'[v] = claim[v]
  BY DEF CommitClaim, TypeParts
<1>3. /\ \A v \in Workers : claim[v] = "counted" => w = v
      /\ Cardinality(Executing) < Concurrency
  BY <1>2 DEF DispatchInv, ClaimCounts
<1>4. Executing' = Executing \cup {r} /\ r \notin Executing
  BY <1>1 DEF Executing, WithStatus
<1>5. IsFiniteSet(Executing) /\ Cardinality(Executing) \in Nat
  BY RunSets DEF Executing, WithStatus
<1>6. Cardinality(Executing') = Cardinality(Executing) + 1
  BY <1>4, <1>5, FS_AddElement
<1>7. ActiveWithinConcurrency'
  BY <1>3, <1>5, <1>6, BoundsAssumption DEF ActiveWithinConcurrency, Executing
<1>8. ClaimCounts'
  BY <1>2, <1>3 DEF ClaimCounts
<1> QED
  BY <1>7, <1>8 DEF DispatchInv

\* Every step keeps the dispatching invariants.
LEMMA DispatchInvStep ==
  TypeParts /\ MadeInOrder /\ TruthInv /\ DispatchInv /\ [Next]_vars => DispatchInv'
<1> SUFFICES ASSUME TypeParts, MadeInOrder, TruthInv, DispatchInv, [Next]_vars
             PROVE  DispatchInv'
  OBVIOUS
<1>1. ASSUME NEW w \in Workers, BeginClaim(w) PROVE DispatchInv'
  <2>1. /\ UNCHANGED run /\ \A v \in Workers : claim[v] = "idle"
        /\ Cardinality(Executing) < Concurrency
        /\ claim' = [claim EXCEPT ![w] = "counted"]
    BY <1>1 DEF BeginClaim, Executing
  <2>2. Executing' = Executing
    BY <2>1 DEF Executing, WithStatus
  <2>3. ClaimCounts'
    BY <2>1, <2>2 DEF ClaimCounts, TypeParts
  <2>4. ActiveWithinConcurrency'
    BY <2>2 DEF DispatchInv, ActiveWithinConcurrency, Executing
  <2> QED
    BY <2>3, <2>4 DEF DispatchInv
<1>2. ASSUME NEW w \in Workers, CommitClaim(w) PROVE DispatchInv'
  BY <1>2, DispatchClaim
<1>3. ASSUME NEW w \in Workers, AbandonClaim(w) PROVE DispatchInv'
  BY <1>3, DispatchQuiet DEF AbandonClaim, TypeParts
<1>4. ASSUME NEW r \in Runs, RunStep(r) PROVE DispatchInv'
  <2>1. Quiet
    BY <1>4, RunStepIsQuiet
  <2> QED
    BY <2>1, DispatchQuiet DEF Quiet, Ages, Result
<1>5. ASSUME NEW t \in Txns, CommitEnqueue(t) PROVE DispatchInv'
  <2>1. CASE tx[t].free
    <3>1. \A q \in Runs : run'[q].status \in {"running", "stopping"} =>
                             run[q].status \in {"running", "stopping"}
      BY <1>5, <2>1, EnqueueStep
    <3> QED
      BY <1>5, <3>1, DispatchQuiet DEF CommitEnqueue
  <2>2. CASE ~tx[t].free
    BY <1>5, <2>2, DispatchQuiet DEF CommitEnqueue
  <2> QED
    BY <2>1, <2>2
<1>6. CASE UNCHANGED <<run, claim>>
  BY <1>6, DispatchQuiet
<1> QED
  BY <1>1, <1>2, <1>3, <1>4, <1>5, <1>6
     DEF Next, RunStep, vars, CreateScript, DeleteScript, FallDue, ScheduleScript,
         BeginEnqueue, CountQueue, DisableDue, RollBack

-----------------------------------------------------------------------------
(* The theorems.                                                           *)

\* Every step keeps the inductive invariant.
LEMMA InvStep == IInv /\ [Next]_vars => IInv'
  BY TypeStep, OrderStep, EnqueueInvStep, DispatchInvStep, TruthStep DEF IInv

\* The inductive invariant holds in every state.
THEOREM Invariance == Spec => []IInv
  BY InitInv, InvStep, PTL DEF Spec

\* Type correctness.
THEOREM TypeCorrect == Spec => []TypeOK
<1>1. IInv => TypeOK
  BY TypeIsParts DEF IInv
<1> QED
  BY <1>1, Invariance, PTL

\* A script never has two active runs: a count under the row lock and the advisory
\* lock stays true until its transaction commits (tableScriptManager.ts:281).
THEOREM SingleActiveRun == Spec => []OneActiveRunPerScript
<1>1. IInv => OneActiveRunPerScript
  <2> SUFFICES ASSUME IInv, NEW s \in Scripts PROVE Cardinality(ActiveOf(s)) <= 1
    BY DEF OneActiveRunPerScript
  <2>1. CASE ActiveOf(s) = {}
    BY <2>1, FS_EmptySet
  <2>2. ASSUME NEW r \in ActiveOf(s) PROVE Cardinality(ActiveOf(s)) <= 1
    <3>1. ActiveOf(s) = {r}
      BY <2>2 DEF IInv, EnqueueInv, ActiveIsUnique, ActiveOf
    <3> QED
      BY <3>1, FS_Singleton
  <2> QED
    BY <2>1, <2>2
<1> QED
  BY <1>1, Invariance, PTL

\* The queue never exceeds its limit (tableScriptManager.ts:293).
THEOREM QueueIsBounded == Spec => []QueueBounded
<1>1. IInv => QueueBounded
  BY DEF IInv, EnqueueInv
<1> QED
  BY <1>1, Invariance, PTL

\* Deleted scripts are idle and stay idle (tableScriptManager.ts:217).
THEOREM DeletedStaysIdle == Spec => []DeletedScriptIdle
<1>1. IInv => DeletedScriptIdle
  BY DEF IInv, EnqueueInv
<1> QED
  BY <1>1, Invariance, PTL

\* An occurrence of a schedule is served at most once (tableScriptExecutor.ts:31).
THEOREM OccurrencesServedOnce == Spec => []ScheduledOncePerOccurrence
<1>1. IInv => ScheduledOncePerOccurrence
  <2> SUFFICES ASSUME IInv, NEW s \in Scripts PROVE Cardinality(Scheduled(s)) <= occurred[s]
    BY DEF ScheduledOncePerOccurrence, Scheduled
  <2>1. Cardinality(Scheduled(s)) \in Nat
    BY RunSets DEF Scheduled
  <2>2. occurred[s] \in Int
    BY BoundsAssumption DEF IInv, TypeParts
  <2> QED
    BY <2>1, <2>2 DEF IInv, EnqueueInv, OccurrencesServed
<1> QED
  BY <1>1, Invariance, PTL

\* The workers together respect the concurrency limit (tableScriptExecutor.ts:100).
THEOREM WithinConcurrency == Spec => []ActiveWithinConcurrency
<1>1. IInv => ActiveWithinConcurrency
  BY DEF IInv, DispatchInv
<1> QED
  BY <1>1, Invariance, PTL

\* A cancelled run does not execute and never will (tableScriptExecutor.ts:148).
THEOREM CancelledStaysStopped == Spec => []CancelledIsStopped
<1>1. IInv => CancelledIsStopped
  BY DEF IInv, TruthInv, Truth, CancelledIsStopped, WithStatus
<1> QED
  BY <1>1, Invariance, PTL

\* What has succeeded is over, and what is queued has never executed.
THEOREM RowsAgreeWithRunner == Spec => []RowAgrees
<1>1. IInv => RowAgrees
  BY DEF IInv, TruthInv, Truth, NotClaimedYet, RowAgrees, WithStatus
<1> QED
  BY <1>1, Invariance, PTL

\* A result is final (FinalIsFinal): only Purge removes it, and only the unguarded
\* update of tableScriptExecutor.ts:151 replaces one, never a success.
Final ==
    \A q \in Runs : run[q].status \in Result /\ run'[q].status # run[q].status =>
        \/ run'[q].status = "purged"
        \/ run[q].status # "succeeded" /\ run'[q].status = "cancelled"

\* No step about one run replaces its result.
LEMMA RunStepKeepsResults ==
  ASSUME TypeParts, TruthInv, NEW r \in Runs, RunStep(r)
  PROVE  Final
<1> USE DEF TypeParts, TruthInv, Final, Result
<1>1. ASSUME Expire(r) PROVE Final
  <2>1. UNCHANGED run \/ (SetStatus(r, "timed_out") /\ run[r].status \in {"running", "stopping"})
    BY <1>1 DEF Expire, SetStatus
  <2> QED
    BY <2>1, StatusUpdate DEF Status, Active
<1>2. ASSUME Purge(r) PROVE Final
  <2>1. UNCHANGED run \/ SetStatus(r, "purged")
    BY <1>2 DEF Purge, SetStatus
  <2> QED
    BY <2>1, StatusUpdate DEF Status, Active
<1>3. ASSUME Unauthorized(r) PROVE Final
  <2>1. UNCHANGED run \/ (SetStatus(r, "failed") /\ run[r].status \in {"running", "stopping"})
    BY <1>3 DEF Unauthorized, Finish, SetStatus
  <2> QED
    BY <2>1, StatusUpdate DEF Status, Active
<1>4. ASSUME Reload(r) PROVE Final
  BY <1>4 DEF Reload
<1>5. ASSUME WriteCancelled(r) PROVE Final
  <2>1. UNCHANGED run \/ (SetStatus(r, "cancelled") /\ run[r].status # "succeeded")
    BY <1>5 DEF Truth, StopSeenIsKept, WriteCancelled, SetStatus
  <2> QED
    BY <2>1, StatusUpdate DEF Status, Active
<1>6. ASSUME Post(r) PROVE Final
  BY <1>6 DEF Post
<1>7. ASSUME PostFails(r) PROVE Final
  BY <1>7 DEF PostFails
<1>8. ASSUME WriteResult(r) PROVE Final
  <2>1. UNCHANGED run \/ (SetStatus(r, perf[r]) /\ run[r].status \in {"running", "stopping"})
    BY <1>8 DEF WriteResult, Finish, SetStatus
  <2> QED
    BY <1>8, <2>1, StatusUpdate DEF WriteResult, Status, Active
<1>9. ASSUME WorkerLost(r) PROVE Final
  BY <1>9 DEF WorkerLost
<1>10. ASSUME Stop(r) PROVE Final
  <2>1. \/ SetStatus(r, "cancelled") /\ run[r].status = "queued"
        \/ SetStatus(r, "stopping") /\ run[r].status \in {"running", "stopping"}
    BY <1>10 DEF Stop
  <2> QED
    BY <2>1, StatusUpdate DEF Status, Active
<1>11. ASSUME StopFails(r) PROVE Final
  BY <1>11 DEF StopFails
<1>12. ASSUME WriteStopped(r) PROVE Final
  <2>1. UNCHANGED run \/ (SetStatus(r, "cancelled") /\ run[r].status \in {"running", "stopping"})
    BY <1>12 DEF WriteStopped, SetStatus
  <2> QED
    BY <2>1, StatusUpdate DEF Status, Active
<1>13. ASSUME RunnerAccepts(r) PROVE Final
  BY <1>13 DEF RunnerAccepts, Runner!Accept
<1>14. ASSUME RunnerAnswersTombstone(r) PROVE Final
  BY <1>14 DEF RunnerAnswersTombstone, Answer, Runner!Settle
<1>15. ASSUME PostLost(r) PROVE Final
  BY <1>15 DEF PostLost
<1>16. ASSUME RunnerRestarts(r) PROVE Final
  BY <1>16 DEF RunnerRestarts, Runner!Settle
<1>17. ASSUME RunnerStops(r) PROVE Final
  BY <1>17 DEF RunnerStops, Runner!Settle
<1>18. ASSUME NEW result \in Result, RunnerFinishes(r, result) PROVE Final
  BY <1>18 DEF RunnerFinishes, Answer, Runner!Settle
<1> QED
  BY <1>1, <1>2, <1>3, <1>4, <1>5, <1>6, <1>7, <1>8, <1>9, <1>10, <1>11,
     <1>12, <1>13, <1>14, <1>15, <1>16, <1>17, <1>18 DEF RunStep

\* Nor does any other step.
LEMMA FinalStep == IInv /\ [Next]_vars => Final
<1> SUFFICES ASSUME IInv, [Next]_vars PROVE Final
  OBVIOUS
<1>1. TypeParts /\ MadeInOrder /\ TruthInv
  BY DEF IInv
<1>2. ASSUME NEW r \in Runs, RunStep(r) PROVE Final
  BY <1>1, <1>2, RunStepKeepsResults
<1>3. ASSUME NEW w \in Workers, CommitClaim(w) PROVE Final
  BY <1>1, <1>3, ClaimStep DEF Final, Result
<1>4. ASSUME NEW t \in Txns, CommitEnqueue(t) PROVE Final
  <2>1. CASE tx[t].free
    BY <1>1, <1>4, <2>1, EnqueueStep DEF Final, Result
  <2>2. CASE ~tx[t].free
    BY <1>4, <2>2 DEF CommitEnqueue, Final
  <2> QED
    BY <2>1, <2>2
<1>5. CASE UNCHANGED run
  BY <1>5 DEF Final
<1> QED
  BY <1>2, <1>3, <1>4, <1>5
     DEF Next, RunStep, vars, CreateScript, DeleteScript, FallDue, ScheduleScript,
         BeginEnqueue, CountQueue, DisableDue, RollBack, BeginClaim, AbandonClaim

\* No result is ever replaced, with the one exception above.
THEOREM ResultsAreFinal == Spec => FinalIsFinal
<1>1. IInv /\ [Next]_vars =>
        [\A r \in Runs : run[r].status \in Result /\ run'[r].status # run[r].status =>
           \/ run'[r].status = "purged"
           \/ run[r].status # "succeeded" /\ run'[r].status = "cancelled"]_vars
  BY FinalStep DEF Final
<1> QED
  BY <1>1, Invariance, PTL DEF Spec, FinalIsFinal

=============================================================================
