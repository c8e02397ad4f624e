----------------------------- MODULE TableScripts -----------------------------
(***************************************************************************)
(* Table scripts in the Outline server: scripts and their runs in the      *)
(* database, the API requests and the dispatcher ticks that change them,   *)
(* each in its own transaction, and the HTTP calls to the isolated runner. *)
(* The runner is used through its specification, ScriptExecution.          *)
(***************************************************************************)
EXTENDS Integers, FiniteSets

CONSTANTS
    Scripts,         \* rows of table_scripts
    MaxRuns,         \* bound: rows of table_script_runs, in order of creation
    Txns,            \* concurrent enqueueing transactions
    Workers,         \* dispatcher processes
    Concurrency,     \* TableScriptLimits.concurrency
    MaxQueue,        \* the limit of 100 queued runs
    MaxOccurrences,  \* bound: a schedule that fell due so often is not enabled again
    MaxDeleted       \* bound: scripts deleted

Runs == 1..MaxRuns

ASSUME BoundsAssumption ==
    /\ MaxRuns \in Nat /\ Concurrency \in Nat \ {0}
    /\ MaxQueue \in Nat \ {0} /\ MaxOccurrences \in Nat
    /\ MaxDeleted \in Nat

VARIABLES
    script,     \* [state, enabled (scheduleEnabled), due (nextRunAt <= now)]
    run,        \* [status, script, trigger]
    made,       \* how many runs have been created
    occurred,   \* history: how often a script's schedule fell due
    tx,         \* enqueueing transactions: manual runs and due schedules
    claim,      \* per worker: the claiming transaction
    perf,       \* progress of performTableScriptRun for a run
    wire,       \* runs whose POST is on its way to the runner
    stops,      \* progress of the tableScripts.stop handler for a run
    life, reported   \* the runner: see ScriptExecution

vars == <<script, run, made, occurred, tx, claim, perf, wire, stops, life, reported>>
runner == <<life, reported>>
handlers == <<perf, wire, stops>>

Runner == INSTANCE ScriptExecution WITH Ids <- Runs

Result == {"succeeded", "failed", "cancelled", "timed_out"}
Active == {"queued", "running", "stopping"}        \* activeTableScriptStates
NoScript == "none"
IdleTx == [phase |-> "idle", trigger |-> "manual", script |-> NoScript, free |-> FALSE]

TypeOK ==
    /\ script \in [Scripts -> [state : {"absent", "live", "deleted"},
                               enabled : BOOLEAN, due : BOOLEAN]]
    /\ run \in [Runs -> [status : {"unused", "purged"} \cup Active \cup Result,
                         script : Scripts \cup {NoScript},
                         trigger : {"manual", "schedule"}]]
    /\ made \in 0..MaxRuns
    /\ occurred \in [Scripts -> 0..MaxOccurrences]
    /\ tx \in [Txns -> [phase : {"idle", "locked", "counted"},
                        trigger : {"manual", "schedule"},
                        script : Scripts \cup {NoScript}, free : BOOLEAN]]
    /\ claim \in [Workers -> {"idle", "counted"}]
    /\ perf \in [Runs -> {"none", "checking", "stopSeen", "posting", "posted"} \cup Result]
    /\ wire \subseteq Runs
    /\ stops \in [Runs -> {"idle", "deleting", "acknowledged"}]
    /\ Runner!TypeOK

Init ==
    /\ script = [s \in Scripts |-> [state |-> "absent", enabled |-> FALSE, due |-> FALSE]]
    /\ run = [r \in Runs |-> [status |-> "unused", script |-> NoScript, trigger |-> "manual"]]
    /\ made = 0
    /\ occurred = [s \in Scripts |-> 0]
    /\ tx = [t \in Txns |-> IdleTx]
    /\ claim = [w \in Workers |-> "idle"]
    /\ perf = [r \in Runs |-> "none"]
    /\ wire = {}
    /\ stops = [r \in Runs |-> "idle"]
    /\ Runner!Init

WithStatus(S) == {r \in Runs : run[r].status \in S}
ActiveOf(s) == {r \in WithStatus(Active) : run[r].script = s}

\* A transaction holds the script's row lock from its first statement to its end.
RowLocked(s) == \E t \in Txns : tx[t].phase # "idle" /\ tx[t].script = s

SetStatus(r, new) == run' = [run EXCEPT ![r].status = new]

-----------------------------------------------------------------------------
(* Editing scripts: transactions that hold only the row lock.              *)

CreateScript(s) ==
    /\ script[s].state = "absent"
    /\ script' = [script EXCEPT ![s].state = "live"]
    /\ UNCHANGED <<run, made, occurred, tx, claim, handlers, runner>>

\* scheduleTableScript: enabling computes the next occurrence, pausing clears it.
ScheduleScript(s, enable) ==
    /\ script[s].state = "live" /\ ~RowLocked(s)
    /\ enable => occurred[s] < MaxOccurrences
    /\ script' = [script EXCEPT ![s].enabled = enable, ![s].due = FALSE]
    /\ UNCHANGED <<run, made, occurred, tx, claim, handlers, runner>>

\* deleteTableScript refuses while a run is active.
DeleteScript(s) ==
    /\ script[s].state = "live" /\ ~RowLocked(s)
    /\ ActiveOf(s) = {}
    /\ Cardinality({x \in Scripts : script[x].state = "deleted"}) < MaxDeleted
    /\ script' = [script EXCEPT ![s] = [state |-> "deleted", enabled |-> FALSE, due |-> FALSE]]
    /\ UNCHANGED <<run, made, occurred, tx, claim, handlers, runner>>

\* The clock passes nextRunAt.
FallDue(s) ==
    /\ script[s].state = "live" /\ script[s].enabled /\ ~script[s].due
    /\ occurred[s] < MaxOccurrences
    /\ script' = [script EXCEPT ![s].due = TRUE]
    /\ occurred' = [occurred EXCEPT ![s] = @ + 1]
    /\ UNCHANGED <<run, made, tx, claim, handlers, runner>>

-----------------------------------------------------------------------------
(* Enqueueing: runTableScript and scheduleDueTableScripts.                 *)

\* Lock the script's row; a dispatcher skips rows that are locked.
BeginEnqueue(t, s, trigger) ==
    /\ tx[t].phase = "idle" /\ ~RowLocked(s) /\ made < MaxRuns
    /\ script[s].state = "live"
    /\ trigger = "schedule" => script[s].enabled /\ script[s].due
    /\ tx' = [tx EXCEPT ![t] = [phase |-> "locked", trigger |-> trigger,
                                script |-> s, free |-> FALSE]]
    /\ UNCHANGED <<script, run, made, occurred, claim, handlers, runner>>

\* Mutant: only the length of the queue is counted.
CountQueueOnly(t) ==
    /\ tx[t].phase = "locked"
    /\ \A u \in Txns : tx[u].phase # "counted"
    /\ tx' = [tx EXCEPT ![t].phase = "counted",
                        ![t].free = Cardinality(WithStatus({"queued"})) < MaxQueue]
    /\ UNCHANGED <<script, run, made, occurred, claim, handlers, runner>>

\* Mutant: no advisory lock; the row locks of two scripts do not exclude each other.
CountQueueUnlocked(t) ==
    /\ tx[t].phase = "locked"
    /\ tx' = [tx EXCEPT ![t].phase = "counted",
                        ![t].free = /\ ActiveOf(tx[t].script) = {}
                                    /\ Cardinality(WithStatus({"queued"})) < MaxQueue]
    /\ UNCHANGED <<script, run, made, occurred, claim, handlers, runner>>

\* Take the advisory lock "tableScripts:queue" and count.
CountQueue(t) ==
    /\ tx[t].phase = "locked"
    /\ \A u \in Txns : tx[u].phase # "counted"
    /\ tx' = [tx EXCEPT ![t].phase = "counted",
                        ![t].free = /\ ActiveOf(tx[t].script) = {}
                                    /\ Cardinality(WithStatus({"queued"})) < MaxQueue]
    /\ UNCHANGED <<script, run, made, occurred, claim, handlers, runner>>

\* Mutant: nextRunAt is left where it is.
CommitEnqueueStillDue(t) ==
    /\ tx[t].phase = "counted"
    /\ IF tx[t].free
       THEN /\ made < MaxRuns
            /\ made' = made + 1
            /\ run' = [run EXCEPT ![made + 1] = [status |-> "queued", script |-> tx[t].script,
                                                 trigger |-> tx[t].trigger]]
       ELSE UNCHANGED <<made, run>>
    /\ tx' = [tx EXCEPT ![t] = IdleTx]
    /\ UNCHANGED <<script, occurred, claim, handlers, runner>>

\* Insert the run if the counts allow it, advance the schedule, commit.  Without
\* room a manual request fails and a scheduled occurrence is skipped.
CommitEnqueue(t) ==
    LET s == tx[t].script IN
    /\ tx[t].phase = "counted"
    /\ IF tx[t].free
       THEN /\ made < MaxRuns
            /\ made' = made + 1
            /\ run' = [run EXCEPT ![made + 1] = [status |-> "queued", script |-> s,
                                                 trigger |-> tx[t].trigger]]
       ELSE UNCHANGED <<made, run>>
    /\ script' = IF tx[t].trigger = "schedule" THEN [script EXCEPT ![s].due = FALSE] ELSE script
    /\ tx' = [tx EXCEPT ![t] = IdleTx]
    /\ UNCHANGED <<occurred, claim, handlers, runner>>

\* A due script whose owner lost access is disabled instead.
DisableDue(t) ==
    /\ tx[t].phase = "locked" /\ tx[t].trigger = "schedule"
    /\ script' = [script EXCEPT ![tx[t].script].enabled = FALSE, ![tx[t].script].due = FALSE]
    /\ tx' = [tx EXCEPT ![t] = IdleTx]
    /\ UNCHANGED <<run, made, occurred, claim, handlers, runner>>

\* The process dies or a statement fails: the database rolls back.
RollBack(t) ==
    /\ tx[t].phase # "idle"
    /\ tx' = [tx EXCEPT ![t] = IdleTx]
    /\ UNCHANGED <<script, run, made, occurred, claim, handlers, runner>>

-----------------------------------------------------------------------------
(* Dispatching: claimTableScriptRun and expireTableScriptRuns.             *)

\* tryAcquire("tableScripts:dispatch"), then count the active executions.
BeginClaim(w) ==
    /\ \A v \in Workers : claim[v] = "idle"
    /\ Cardinality(WithStatus({"running", "stopping"})) < Concurrency
    /\ WithStatus({"queued"}) # {}
    /\ claim' = [claim EXCEPT ![w] = "counted"]
    /\ UNCHANGED <<script, run, made, occurred, tx, handlers, runner>>

\* Take the oldest queued run, commit, and start performing it in the background.
\* A row that a Stop holds is skipped, as if the Stop had committed before.
CommitClaim(w) ==
    /\ claim[w] = "counted"
    /\ \E r \in WithStatus({"queued"}) :
         /\ \A q \in WithStatus({"queued"}) : r <= q
         /\ SetStatus(r, "running")
         /\ perf' = [perf EXCEPT ![r] = "checking"]
    /\ claim' = [claim EXCEPT ![w] = "idle"]
    /\ UNCHANGED <<script, made, occurred, tx, wire, stops, runner>>

\* No queued run is left by now, or the worker died: nothing is claimed.
AbandonClaim(w) ==
    /\ claim[w] = "counted"
    /\ claim' = [claim EXCEPT ![w] = "idle"]
    /\ UNCHANGED <<script, run, made, occurred, tx, handlers, runner>>

\* Mutant: a run whose Stop was never acknowledged does not expire.
ExpireRunning(r) ==
    /\ run[r].status = "running"
    /\ SetStatus(r, "timed_out")
    /\ UNCHANGED <<script, made, occurred, tx, claim, handlers, runner>>

\* Mutant: the worker that performs a run expires it.
ExpireByWorker(r) ==
    /\ run[r].status \in {"running", "stopping"} /\ perf[r] # "none"
    /\ SetStatus(r, "timed_out")
    /\ UNCHANGED <<script, made, occurred, tx, claim, handlers, runner>>

\* startedAt lies 80 seconds back: the worker stopped or is late.
Expire(r) ==
    /\ run[r].status \in {"running", "stopping"}
    /\ SetStatus(r, "timed_out")
    /\ UNCHANGED <<script, made, occurred, tx, claim, handlers, runner>>

\* finishedAt lies seven days back: the row is deleted.
Purge(r) ==
    /\ run[r].status \in Result
    /\ SetStatus(r, "purged")
    /\ UNCHANGED <<script, made, occurred, tx, claim, handlers, runner>>

-----------------------------------------------------------------------------
(* performTableScriptRun, one instance per claimed run.                    *)

\* Mutant: the last update has no status predicate.
FinishUnguarded(r, result) ==
    /\ SetStatus(r, result)
    /\ perf' = [perf EXCEPT ![r] = "none"]

\* The guarded update of the last step: only an active run takes the result.
Finish(r, result) ==
    /\ run' = IF run[r].status \in {"running", "stopping"}
              THEN [run EXCEPT ![r].status = result] ELSE run
    /\ perf' = [perf EXCEPT ![r] = "none"]

\* The owner lost access, or the script or spreadsheet is gone.
Unauthorized(r) ==
    /\ perf[r] = "checking"
    /\ Finish(r, "failed")
    /\ UNCHANGED <<script, made, occurred, tx, claim, wire, stops, runner>>

\* run.reload() after the checks decides whether the runner is called at all.
Reload(r) ==
    /\ perf[r] = "checking"
    /\ perf' = [perf EXCEPT ![r] = CASE run[r].status = "running"  -> "posting"
                                     [] run[r].status = "stopping" -> "stopSeen"
                                     [] OTHER -> "none"]
    /\ UNCHANGED <<script, run, made, occurred, tx, claim, wire, stops, runner>>

\* The reloaded run was stopping: run.update() writes without a status predicate.
WriteCancelled(r) ==
    /\ perf[r] = "stopSeen"
    /\ IF run[r].status = "purged" THEN UNCHANGED run ELSE SetStatus(r, "cancelled")
    /\ perf' = [perf EXCEPT ![r] = "none"]
    /\ UNCHANGED <<script, made, occurred, tx, claim, wire, stops, runner>>

\* executeTableScript: one POST, never retried.
Post(r) ==
    /\ perf[r] = "posting"
    /\ perf' = [perf EXCEPT ![r] = "posted"]
    /\ wire' = wire \cup {r}
    /\ UNCHANGED <<script, run, made, occurred, tx, claim, stops, runner>>

\* Mutant: an error response is parsed as a result.
PostUnchecked(r) ==
    /\ perf[r] \in {"posting", "posted"}
    /\ perf' = [perf EXCEPT ![r] = "succeeded"]
    /\ UNCHANGED <<script, run, made, occurred, tx, claim, wire, stops, runner>>

\* An update before the POST fails, the connection breaks, the runner answers 409
\* or 503, or 75 seconds pass.
PostFails(r) ==
    /\ perf[r] \in {"posting", "posted"}
    /\ perf' = [perf EXCEPT ![r] = "failed"]
    /\ UNCHANGED <<script, run, made, occurred, tx, claim, wire, stops, runner>>

WriteResult(r) ==
    /\ perf[r] \in Result
    /\ Finish(r, perf[r])
    /\ UNCHANGED <<script, made, occurred, tx, claim, wire, stops, runner>>

\* The worker process dies with the run in its hands.
WorkerLost(r) ==
    /\ perf[r] # "none"
    /\ perf' = [perf EXCEPT ![r] = "none"]
    /\ UNCHANGED <<script, run, made, occurred, tx, claim, wire, stops, runner>>

-----------------------------------------------------------------------------
(* tableScripts.stop.                                                      *)

\* The transaction under the run's row lock.
Stop(r) ==
    /\ stops[r] = "idle"
    /\ \/ /\ run[r].status = "queued"
          /\ SetStatus(r, "cancelled")
          /\ UNCHANGED stops
       \/ /\ run[r].status \in {"running", "stopping"}
          /\ SetStatus(r, "stopping")
          /\ stops' = [stops EXCEPT ![r] = "deleting"]
    /\ UNCHANGED <<script, made, occurred, tx, claim, perf, wire, runner>>

\* The DELETE fails or takes longer than terminationMs, or the API process dies.
StopFails(r) ==
    /\ stops[r] # "idle"
    /\ stops' = [stops EXCEPT ![r] = "idle"]
    /\ UNCHANGED <<script, run, made, occurred, tx, claim, perf, wire, runner>>

\* Mutant: "cancelled" is written whether or not the DELETE was acknowledged.
WriteStoppedUnacknowledged(r) ==
    /\ stops[r] # "idle"
    /\ run' = IF run[r].status \in {"running", "stopping"}
              THEN [run EXCEPT ![r].status = "cancelled"] ELSE run
    /\ stops' = [stops EXCEPT ![r] = "idle"]
    /\ UNCHANGED <<script, made, occurred, tx, claim, perf, wire, runner>>

\* After the acknowledgement, an update guarded by the status.
WriteStopped(r) ==
    /\ stops[r] = "acknowledged"
    /\ run' = IF run[r].status \in {"running", "stopping"}
              THEN [run EXCEPT ![r].status = "cancelled"] ELSE run
    /\ stops' = [stops EXCEPT ![r] = "idle"]
    /\ UNCHANGED <<script, made, occurred, tx, claim, perf, wire, runner>>

-----------------------------------------------------------------------------
(* The runner, through its specification.                                  *)

\* The answer reaches performTableScriptRun only if it still waits for one.
Answer(r, result) ==
    perf' = IF perf[r] = "posted" THEN [perf EXCEPT ![r] = result] ELSE perf

RunnerAccepts(r) ==
    /\ r \in wire
    /\ Runner!Accept(r)
    /\ wire' = wire \ {r}
    /\ UNCHANGED <<script, run, made, occurred, tx, claim, perf, stops>>

\* The ID carries a tombstone: answered "cancelled".
RunnerAnswersTombstone(r) ==
    /\ r \in wire /\ life[r] = "over"
    /\ wire' = wire \ {r}
    /\ Answer(r, "cancelled")
    /\ Runner!Settle({}, {r})
    /\ UNCHANGED <<script, run, made, occurred, tx, claim, stops>>

\* The request is lost, or refused.
PostLost(r) ==
    /\ r \in wire
    /\ wire' = wire \ {r}
    /\ UNCHANGED <<script, run, made, occurred, tx, claim, perf, stops, runner>>

RunnerFinishes(r, result) ==
    /\ life[r] = "executing"
    /\ Runner!Settle({r}, {r})
    /\ Answer(r, result)
    /\ UNCHANGED <<script, run, made, occurred, tx, claim, wire, stops>>

\* The runner crashed and its restart removed the container.
RunnerRestarts(r) ==
    /\ life[r] = "executing"
    /\ Runner!Settle({r}, {})
    /\ UNCHANGED <<script, run, made, occurred, tx, claim, handlers>>

\* DELETE is acknowledged: at once for an ID that is not active, which leaves a
\* tombstone, and otherwise when the execution is over.
RunnerStops(r) ==
    /\ stops[r] = "deleting" /\ life[r] # "executing"
    /\ Runner!Settle({r}, {r})
    /\ stops' = [stops EXCEPT ![r] = "acknowledged"]
    /\ UNCHANGED <<script, run, made, occurred, tx, claim, perf, wire>>

-----------------------------------------------------------------------------
Next ==
    \/ \E s \in Scripts :
         \/ CreateScript(s) \/ DeleteScript(s) \/ FallDue(s)
         \/ \E enable \in BOOLEAN : ScheduleScript(s, enable)
         \/ \E t \in Txns, trigger \in {"manual", "schedule"} : BeginEnqueue(t, s, trigger)
    \/ \E t \in Txns : CountQueue(t) \/ CommitEnqueue(t) \/ DisableDue(t) \/ RollBack(t)
    \/ \E w \in Workers : BeginClaim(w) \/ CommitClaim(w) \/ AbandonClaim(w)
    \/ \E r \in Runs :
         \/ Expire(r) \/ Purge(r)
         \/ Unauthorized(r) \/ Reload(r) \/ WriteCancelled(r)
         \/ Post(r) \/ PostFails(r) \/ WriteResult(r) \/ WorkerLost(r)
         \/ Stop(r) \/ StopFails(r) \/ WriteStopped(r)
         \/ RunnerAccepts(r) \/ RunnerAnswersTombstone(r) \/ PostLost(r)
         \/ RunnerRestarts(r) \/ RunnerStops(r)
         \/ \E result \in Result : RunnerFinishes(r, result)

Spec == Init /\ [][Next]_vars

\* The dispatcher's tick runs every second and expires every ten; claiming does
\* not fail for ever.  Nothing else is assumed to happen.
FairSpec ==
    /\ Spec
    /\ WF_vars(\E w \in Workers : BeginClaim(w))
    /\ SF_vars(\E w \in Workers : CommitClaim(w))
    /\ \A w \in Workers : WF_vars(AbandonClaim(w))
    /\ \A r \in Runs : WF_vars(Expire(r))

-----------------------------------------------------------------------------
(* Properties.                                                             *)

\* enqueueTableScriptSnapshot "reserves a single pending execution": two requests,
\* or a request and a due schedule, never leave a script with two active runs.
OneActiveRunPerScript == \A s \in Scripts : Cardinality(ActiveOf(s)) <= 1

\* claimTableScriptRun enforces "a shared concurrency limit" over all workers.
ActiveWithinConcurrency == Cardinality(WithStatus({"running", "stopping"})) <= Concurrency

\* The queue limit holds although each request counts before it inserts.
QueueBounded == Cardinality(WithStatus({"queued"})) <= MaxQueue

\* A run shown as cancelled is not executing and never will: whoever wrote
\* "cancelled" had stopped it before its POST, or knew that it was over.
CancelledIsStopped ==
    \A r \in WithStatus({"cancelled"}) :
        /\ life[r] # "executing"
        /\ r \in wire \/ perf[r] = "posting" => life[r] = "over"

\* The row agrees with the runner: what it shows as succeeded is over there, and a run
\* that has not been claimed is unknown there, so that the database never queues an ID
\* that may already execute.
RowAgrees ==
    /\ \A r \in WithStatus({"succeeded"}) : life[r] = "over"
    /\ \A r \in WithStatus({"unused", "queued"}) : life[r] = "fresh" /\ r \notin wire

\* deleteTableScript only deletes idle scripts, and nothing enqueues them later.
DeletedScriptIdle == \A s \in Scripts : script[s].state # "live" => ActiveOf(s) = {}

\* "an outage never replays missed occurrences": an occurrence of a schedule
\* yields at most one run, whatever the dispatchers of several processes do.
ScheduledOncePerOccurrence ==
    \A s \in Scripts :
        Cardinality({r \in Runs : run[r].script = s /\ run[r].trigger = "schedule"})
            <= occurred[s]

\* A result is final: it is only ever purged.  The one exception is the cancelled
\* written by WriteCancelled, which may replace an expiry that came in between.
FinalIsFinal ==
    [][\A r \in Runs : run[r].status \in Result /\ run'[r].status # run[r].status =>
           \/ run'[r].status = "purged"
           \/ run[r].status # "succeeded" /\ run'[r].status = "cancelled"]_vars

\* No run waits in the queue forever, and none stays active forever.
QueuedIsServed == \A r \in Runs : run[r].status = "queued" ~> run[r].status # "queued"
ActiveEnds ==
    \A r \in Runs : run[r].status \in {"running", "stopping"} ~>
                        run[r].status \in Result \cup {"purged"}
=============================================================================
