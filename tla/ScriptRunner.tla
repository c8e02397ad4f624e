----------------------------- MODULE ScriptRunner -----------------------------
(***************************************************************************)
(* The isolated Python execution service (server/scriptRunner): the        *)
(* registry with its durable per-ID files, the Docker sandbox driver, and  *)
(* the crash and restart of the manager process.  The Docker daemon is a   *)
(* separate process: containers survive a crash of the manager.            *)
(***************************************************************************)
EXTENDS Integers, FiniteSets

CONSTANTS
    Ids,             \* execution UUIDs
    Concurrency      \* TableScriptLimits.concurrency

ASSUME ConcurrencyAssumption == Concurrency \in Nat \ {0}
ASSUME IdsAssumption == IsFiniteSet(Ids)

Result == {"succeeded", "failed", "cancelled", "timed_out"}

VARIABLES
    file,       \* the ID's file in RUNNER_STATE_DIR; "accepted" also stands for
                \* a file created but not completely written
    up,         \* the manager process has finished prepare() and listens
    ready,      \* DockerScriptSandbox.ready
    stopping,   \* ScriptExecutionRegistry.stopping
    exec,       \* progress of the promise in `active`; "none" = not in the map
    aborted,    \* IDs whose AbortController has fired
    verdict,    \* the local `status` of DockerScriptSandbox.execute
    box,        \* the daemon's container for the ID; "requested" and "starting"
                \* are a `docker create` and a `docker start` on their way to it
    waiting,    \* IDs with a DELETE awaiting active.result
    reported,   \* IDs whose end was reported: 204 to a DELETE, a result to a POST
    starts      \* history: how often the ID's container was started

vars == <<file, up, ready, stopping, exec, aborted, verdict, box, waiting,
          reported, starts>>

process == <<up, ready, stopping>>

Phase == {"none", "entered", "creating", "attached", "killing", "cleanup",
          "unremoved", "stuck"}
Started == {"starting", "running", "exited"}

TypeOK ==
    /\ file \in [Ids -> {"absent", "accepted", "cancelled"}]
    /\ up \in BOOLEAN /\ ready \in BOOLEAN /\ stopping \in BOOLEAN
    /\ exec \in [Ids -> Phase]
    /\ aborted \subseteq Ids
    /\ verdict \in [Ids -> Result \cup {"unset"}]
    /\ box \in [Ids -> {"none", "requested", "created"} \cup Started]
    /\ waiting \subseteq Ids
    /\ reported \subseteq Ids
    /\ starts \in [Ids -> Nat]

Init ==
    /\ file = [i \in Ids |-> "absent"]
    /\ up = TRUE /\ ready = TRUE /\ stopping = FALSE
    /\ exec = [i \in Ids |-> "none"]
    /\ aborted = {}
    /\ verdict = [i \in Ids |-> "unset"]
    /\ box = [i \in Ids |-> "none"]
    /\ waiting = {}
    /\ reported = {}
    /\ starts = [i \in Ids |-> 0]

Active == {i \in Ids : exec[i] # "none"}

\* `docker rm --force`: "No such container" counts as removed, so a container
\* whose creation is still under way in the daemon outlives it.
AfterRemoval(b) == IF b = "requested" THEN b ELSE "none"

-----------------------------------------------------------------------------
(* The registry: POST and DELETE of /runs/:id.                             *)

\* Mutant: the recorded file is not consulted, only `active`.
ExecuteUnchecked(i) ==
    /\ up /\ exec[i] = "none"
    /\ ~stopping /\ Cardinality(Active) < Concurrency
    /\ file' = [file EXCEPT ![i] = "accepted"]
    /\ exec' = [exec EXCEPT ![i] = "entered"]
    /\ verdict' = [verdict EXCEPT ![i] = "unset"]
    /\ aborted' = aborted \ {i}
    /\ UNCHANGED <<process, box, waiting, reported, starts>>

\* execute(): the file is on disk before any work starts.  A POST for an ID
\* whose file says "accepted", or without capacity, is refused and changes nothing.
Execute(i) ==
    /\ up /\ file[i] = "absent"
    /\ ~stopping /\ Cardinality(Active) < Concurrency
    /\ file' = [file EXCEPT ![i] = "accepted"]
    /\ exec' = [exec EXCEPT ![i] = "entered"]
    /\ verdict' = [verdict EXCEPT ![i] = "unset"]
    /\ aborted' = aborted \ {i}
    /\ UNCHANGED <<process, box, waiting, reported, starts>>

\* execute() after an early Stop: answered without touching the sandbox.
AnswerCancelled(i) ==
    /\ up /\ file[i] = "cancelled"
    /\ reported' = reported \cup {i}
    /\ UNCHANGED <<file, process, exec, aborted, verdict, box, waiting, starts>>

\* record() throws after openSync created the file: an empty file refuses
\* every later POST, and neither the POST nor the DELETE is answered with success.
RecordFails(i) ==
    /\ up /\ file[i] = "absent"
    /\ file' = [file EXCEPT ![i] = "accepted"]
    /\ UNCHANGED <<process, exec, aborted, verdict, box, waiting, reported, starts>>

\* The abort listener of sandbox.execute calls stop("cancelled"): the first
\* status wins, and a child that is attached has its container removed.
Abort(S) ==
    /\ aborted' = aborted \cup S
    /\ verdict' = [i \in Ids |->
                     IF /\ i \in S /\ exec[i] \in {"creating", "attached"}
                        /\ verdict[i] = "unset"
                     THEN "cancelled" ELSE verdict[i]]
    /\ exec' = [i \in Ids |-> IF i \in S /\ exec[i] = "attached"
                              THEN "killing" ELSE exec[i]]

\* Mutant: cancel() aborts, but does not await the result.
CancelUnawaited(i) ==
    /\ up /\ exec[i] # "none"
    /\ exec[i] # "stuck"
    /\ Abort({i})
    /\ reported' = reported \cup {i}
    /\ UNCHANGED <<file, process, box, waiting, starts>>

\* cancel() of an active execution, by DELETE or because the POST's connection closed.
Cancel(i) ==
    /\ up /\ exec[i] # "none"
    /\ exec[i] # "stuck"              \* its result has rejected: 503, no change
    /\ Abort({i})
    /\ waiting' = waiting \cup {i}
    /\ UNCHANGED <<file, process, box, reported, starts>>

\* Mutant: an early Stop is acknowledged without a tombstone.
CancelInactiveUnrecorded(i) ==
    /\ up /\ exec[i] = "none"
    /\ reported' = reported \cup {i}
    /\ UNCHANGED <<file, process, exec, aborted, verdict, box, waiting, starts>>

\* cancel() of an ID that is not active: an early Stop leaves a tombstone.
CancelInactive(i) ==
    /\ up /\ exec[i] = "none"
    /\ file' = [file EXCEPT ![i] = IF @ = "absent" THEN "cancelled" ELSE @]
    /\ reported' = reported \cup {i}
    /\ UNCHANGED <<process, exec, aborted, verdict, box, waiting, starts>>

-----------------------------------------------------------------------------
(* The sandbox driver: DockerScriptSandbox.execute.                        *)

\* The deferred entry into the driver.
Enter(i) ==
    /\ up /\ exec[i] = "entered" /\ ready
    /\ IF i \in aborted
       THEN /\ verdict' = [verdict EXCEPT ![i] = "cancelled"]
            /\ exec' = [exec EXCEPT ![i] = "cleanup"]
            /\ UNCHANGED box
       ELSE /\ exec' = [exec EXCEPT ![i] = "creating"]
            /\ box' = [box EXCEPT ![i] = "requested"]
            /\ UNCHANGED verdict
    /\ UNCHANGED <<file, process, aborted, waiting, reported, starts>>

\* The daemon completes `docker create`, possibly long after its caller gave up.
DaemonCreates(i) ==
    /\ box[i] = "requested"
    /\ box' = [box EXCEPT ![i] = "created"]
    /\ UNCHANGED <<file, process, exec, aborted, verdict, waiting, reported, starts>>

\* `docker create` has returned: a stop that came meanwhile skips the start.
Created(i) ==
    /\ up /\ exec[i] = "creating" /\ box[i] = "created"
    /\ IF verdict[i] = "unset"
       THEN /\ exec' = [exec EXCEPT ![i] = "attached"]
            /\ box' = [box EXCEPT ![i] = "starting"]
       ELSE /\ exec' = [exec EXCEPT ![i] = "cleanup"]
            /\ UNCHANGED box
    /\ UNCHANGED <<file, process, aborted, verdict, waiting, reported, starts>>

\* Mutant: the catch block reports "failed", not `status ?? "failed"`.
CreateFailsAnyway(i) ==
    /\ up /\ exec[i] = "creating"
    /\ \E b \in {"none", box[i]} : box' = [box EXCEPT ![i] = b]
    /\ verdict' = [verdict EXCEPT ![i] = "failed"]
    /\ exec' = [exec EXCEPT ![i] = "cleanup"]
    /\ UNCHANGED <<file, process, aborted, waiting, reported, starts>>

\* `docker create` is refused, or runs into its 10 second limit whatever the
\* daemon does with it.
CreateFails(i) ==
    /\ up /\ exec[i] = "creating"
    /\ \E b \in {"none", box[i]} : box' = [box EXCEPT ![i] = b]
    /\ verdict' = [verdict EXCEPT ![i] = IF @ = "unset" THEN "failed" ELSE @]
    /\ exec' = [exec EXCEPT ![i] = "cleanup"]
    /\ UNCHANGED <<file, process, aborted, waiting, reported, starts>>

\* The daemon starts the container, also when a removal is already under way or
\* the manager has died.
DaemonStarts(i) ==
    /\ box[i] = "starting"
    /\ box' = [box EXCEPT ![i] = "running"]
    /\ starts' = [starts EXCEPT ![i] = @ + 1]
    /\ UNCHANGED <<file, process, exec, aborted, verdict, waiting, reported>>

\* The attached client closes by itself: the program ended, or the start failed.
ChildCloses(i) ==
    /\ up /\ exec[i] = "attached"
    /\ \/ /\ box[i] = "running"
          /\ box' = [box EXCEPT ![i] = "exited"]
          /\ \E v \in {"succeeded", "failed"} : verdict' = [verdict EXCEPT ![i] = v]
       \/ /\ box[i] = "starting"
          /\ verdict' = [verdict EXCEPT ![i] = "failed"]
          /\ UNCHANGED box
    /\ exec' = [exec EXCEPT ![i] = "cleanup"]
    /\ UNCHANGED <<file, process, aborted, waiting, reported, starts>>

\* Mutant: the timer is armed when the program runs, not before the creation.
TimeOutRunning(i) ==
    /\ up /\ exec[i] = "attached" /\ verdict[i] = "unset" /\ box[i] = "running"
    /\ verdict' = [verdict EXCEPT ![i] = "timed_out"]
    /\ exec' = [exec EXCEPT ![i] = "killing"]
    /\ UNCHANGED <<file, process, aborted, box, waiting, reported, starts>>

\* The 60 second timer calls stop("timed_out").
TimeOut(i) ==
    /\ up /\ exec[i] \in {"creating", "attached"} /\ verdict[i] = "unset"
    /\ verdict' = [verdict EXCEPT ![i] = "timed_out"]
    /\ exec' = [exec EXCEPT ![i] = IF @ = "attached" THEN "killing" ELSE @]
    /\ UNCHANGED <<file, process, aborted, box, waiting, reported, starts>>

\* The program violates the protocol or an output limit: stop("failed").
Violate(i) ==
    /\ up /\ exec[i] = "attached" /\ box[i] = "running"
    /\ verdict' = [verdict EXCEPT ![i] = "failed"]
    /\ exec' = [exec EXCEPT ![i] = "killing"]
    /\ UNCHANGED <<file, process, aborted, box, waiting, reported, starts>>

\* `docker rm --force` succeeded (or there was no container): the result is
\* delivered and every waiting DELETE is acknowledged.
Removed(i) ==
    /\ up /\ exec[i] \in {"killing", "cleanup"}
    /\ box' = [box EXCEPT ![i] = AfterRemoval(@)]
    /\ exec' = [exec EXCEPT ![i] = "none"]
    /\ reported' = reported \cup {i}
    /\ waiting' = waiting \ {i}
    /\ UNCHANGED <<file, process, aborted, verdict, starts>>

\* The removal fails or times out, whatever the daemon did.
RemovalFails(i) ==
    /\ up /\ exec[i] \in {"killing", "cleanup"}
    /\ \E b \in {box[i], AfterRemoval(box[i])} : box' = [box EXCEPT ![i] = b]
    /\ exec' = [exec EXCEPT ![i] = "unremoved"]
    /\ ready' = FALSE
    /\ UNCHANGED <<file, up, stopping, aborted, verdict, waiting, reported, starts>>

\* execute() throws at entry once a removal has failed.
EnterUnready(i) ==
    /\ up /\ exec[i] = "entered" /\ ~ready
    /\ exec' = [exec EXCEPT ![i] = "unremoved"]
    /\ UNCHANGED <<file, process, aborted, verdict, box, waiting, reported, starts>>

\* Mutant: the rejection is swallowed, so no DELETE learns of it.
RejectSwallowed(i) ==
    /\ up /\ exec[i] = "unremoved"
    /\ exec' = [exec EXCEPT ![i] = "stuck"]
    /\ stopping' = TRUE
    /\ UNCHANGED <<file, up, ready, aborted, verdict, box, waiting, reported, starts>>

\* The promise rejects: the ID stays in `active`, waiting DELETEs fail, and the
\* service refuses new work.
Reject(i) ==
    /\ up /\ exec[i] = "unremoved"
    /\ exec' = [exec EXCEPT ![i] = "stuck"]
    /\ waiting' = waiting \ {i}
    /\ stopping' = TRUE
    /\ UNCHANGED <<file, up, ready, aborted, verdict, box, reported, starts>>

-----------------------------------------------------------------------------
(* The manager process.                                                    *)

\* close() on SIGTERM: refuse new work and abort what runs.
Close ==
    /\ up
    /\ stopping' = TRUE
    /\ Abort(Active \ {i \in Ids : exec[i] = "stuck"})
    /\ UNCHANGED <<file, up, ready, box, waiting, reported, starts>>

\* The process exits, after close() or by a crash; only files and containers remain.
Exit ==
    /\ up
    /\ up' = FALSE
    /\ exec' = [i \in Ids |-> "none"]
    /\ waiting' = {}
    /\ UNCHANGED <<file, ready, stopping, aborted, verdict, box, reported, starts>>

\* main(): prepare() removes every container labelled by the runner, then listen.
Restart ==
    /\ ~up
    /\ box' = [i \in Ids |-> AfterRemoval(box[i])]
    /\ up' = TRUE /\ ready' = TRUE /\ stopping' = FALSE
    /\ aborted' = {}
    /\ UNCHANGED <<file, exec, verdict, waiting, reported, starts>>

Progress(i) ==
    \/ Enter(i) \/ EnterUnready(i)
    \/ Created(i) \/ CreateFails(i) \/ TimeOut(i)
    \/ Removed(i) \/ RemovalFails(i) \/ Reject(i)

Next ==
    \/ \E i \in Ids :
         \/ Execute(i) \/ AnswerCancelled(i) \/ RecordFails(i)
         \/ Cancel(i) \/ CancelInactive(i)
         \/ Enter(i) \/ EnterUnready(i) \/ DaemonCreates(i) \/ Created(i)
         \/ CreateFails(i) \/ DaemonStarts(i) \/ ChildCloses(i) \/ TimeOut(i) \/ Violate(i)
         \/ Removed(i) \/ RemovalFails(i) \/ Reject(i)
    \/ Close \/ Exit \/ Restart

Spec == Init /\ [][Next]_vars

\* The driver's own steps keep happening while the process is up: the event loop
\* runs deferred callbacks, every docker call has a limit, and the 60 second timer
\* ends a program that does not end by itself.
FairSpec == Spec /\ \A i \in Ids : WF_vars(Progress(i))

-----------------------------------------------------------------------------
(* Properties.                                                             *)

\* "Durable run IDs prevent execution replay" (registry.ts:35): the program of an
\* execution ID is started at most once, whatever crashes, restarts, repeated
\* POSTs and Stops happen in between.
StartedAtMostOnce == \A i \in Ids : starts[i] <= 1

\* "Acknowledges Stop only after runtime termination" (registry.ts:96): once a
\* DELETE was acknowledged or a result was delivered, no started container of the
\* ID exists, and none is ever started again, even if its creation comes late.
ReportedIsTerminated == \A i \in reported : box[i] \notin Started

\* An early Stop wins over a POST that arrives later: an ID with a cancellation
\* tombstone never starts.
TombstoneBlocksStart ==
    \A i \in Ids : file[i] = "cancelled" => starts[i] = 0 /\ exec[i] = "none"

\* The number of started containers never exceeds the concurrency limit, those
\* of a crashed process and those whose removal failed included.
CapacityHeld == Cardinality({i \in Ids : box[i] \in Started}) <= Concurrency

\* A started container lacks its entry in `active` only while the process is
\* down; a listening runner supervises every one.
Supervised == up => \A i \in Ids : box[i] \in Started => exec[i] # "none"

\* Every accepted execution leaves the driver: it ends, or its failed removal has
\* put the service out of use, or the process has gone.
EveryExecutionEnds ==
    \A i \in Ids : exec[i] # "none" ~> exec[i] \in {"none", "stuck"}

\* `status ??= nextStatus`: what ended an execution first is what its caller is told,
\* however a Stop, the timer, a failing creation and the end of the program race; once
\* a Stop has come, nothing else can still be the first.
FirstStatusWins ==
    [][\A i \in Ids : exec[i] # "none" /\ exec'[i] # "none" =>
          /\ verdict[i] # "unset" => verdict'[i] = verdict[i]
          /\ i \in aborted => verdict'[i] \in {verdict[i], "cancelled"}]_vars

\* No Stop request waits forever.
EveryStopIsAnswered == \A i \in Ids : i \in waiting ~> i \notin waiting

\* The runner implements ScriptExecution: an ID is over when its file exists and
\* neither a promise nor a started container is left.
Life == [i \in Ids |-> IF file[i] = "absent" THEN "fresh"
                       ELSE IF exec[i] = "none" /\ box[i] \notin Started THEN "over"
                       ELSE "executing"]
Abstract == INSTANCE ScriptExecution WITH life <- Life
ImplementsExecution == Abstract!Spec

-----------------------------------------------------------------------------
(* The parts of the inductive invariant that the properties rest on.       *)

\* Nothing happens under an ID before its file is on disk.
UnrecordedIsFresh ==
    \A i \in Ids : file[i] = "absent" =>
        exec[i] = "none" /\ box[i] = "none" /\ starts[i] = 0 /\ i \notin reported

TombstoneIsIdle ==
    \A i \in Ids : file[i] = "cancelled" =>
        exec[i] = "none" /\ box[i] = "none" /\ starts[i] = 0

DownIsIdle == ~up => \A i \in Ids : exec[i] = "none"

\* Until `docker start` is sent the container has not been started, and once the
\* promise has gone it is never sent.
NotYetStarted ==
    \A i \in Ids :
        /\ exec[i] \in {"entered", "creating"} => box[i] \notin Started /\ starts[i] = 0
        /\ box[i] \in {"requested", "created", "starting"} => starts[i] = 0

ReportedIsOver == \A i \in reported : exec[i] = "none" /\ box[i] \notin Started

\* Room is kept for the containers whose process crashed.
Occupied == {i \in Ids : exec[i] # "none" \/ box[i] \in Started}
RoomForAll == Cardinality(Occupied) <= Concurrency

IInv ==
    /\ TypeOK /\ UnrecordedIsFresh /\ TombstoneIsIdle /\ DownIsIdle
    /\ Supervised /\ NotYetStarted /\ StartedAtMostOnce /\ ReportedIsOver
=============================================================================
