# Formal models of outlineAll

TLA+ models of the parts of this Outline fork whose correctness depends on the order in
which several processes act: the isolated runner of table scripts, the jobs that feed it, the
collaborative editing of spreadsheets and documents, and where documents are and with whom
they are shared. TLC checks the models on small instances;
TLAPS proves some of the results for every instance.

Contents: [the system](#1-the-system) · [the plan](#2-plan) · [modules](#3-the-modules-and-the-code)
· [runs](#4-runs) · [fairness](#5-fairness) · [proofs](#6-proofs) · [findings](#7-findings)
· [limits](#8-what-is-not-modelled).

## 1. The system

The repository is a wiki: a Koa/Sequelize server over PostgreSQL and Redis, in several
process kinds (web, websockets, collaboration, worker, cron, table script dispatcher, and
the separate runner manager), and a MobX/React client. The fork adds "table documents":
spreadsheets edited by several people, with Python scripts that run in Docker containers.

| Component | State | Operations and partners | What is hard, and what makes it correct |
|---|---|---|---|
| **Isolated script runner** (`server/scriptRunner`) | one durable file per execution ID; `active` map; Docker containers | POST and DELETE `/runs/:id` from the server; Docker CLI calls; crash, restart, shutdown | containers survive the manager; calls fail or are answered late; Stop races start, timeout and end. *An ID executes at most once; an acknowledged Stop is true; capacity holds.* |
| Runner network and output protocol (`protocol.ts`, `network.ts`) | buffers of one execution | frames from the container, brokered fetches | limits and malformed frames end the execution. |
| **Table script jobs** (`tableScriptManager`, `tableScriptExecutor`, `services/tableScripts`) | `table_scripts`, `table_script_runs`; row locks and two advisory locks | API requests, dispatcher ticks in several processes, HTTP to the runner | counting before inserting, schedules seen by several processes, Stop against dispatch, dead workers. *One active run per script; queue and concurrency limits; the row tells the truth; everything ends.* |
| **Spreadsheet synchronization** (`TableCollaborationSession`, `tableCollaborativeUpdater`) | Yjs document, saves, revisions and draft in each tab; `TableCollaboration` row with barrier and receipts | info and update requests, change notices, polls, outside replacements | lost and replayed requests, reloads, exclusive operations, replaced workbooks. *No edit lost; no exclusive edit merged blindly; old updates stay out of a replacement; tabs converge.* |
| Table merge format (`shared/utils/tableCollaboration.ts`) | Yjs maps of cells, rows, columns | pure conversions both ways | identity of rows and columns under concurrent structure edits |
| **Table draft storage** (`TableDraftStorage`) | local mirror, IndexedDB copy, owner generations, markers | setItem, removeItem, load, flush; several views of one tab | late database writes, crashes between the two copies. *No older draft resurrects.* |
| **Table presence** (`TableSocket`) | watchers, peers, timers per process; Redis channel | watch, unwatch, selection, roster, revocation | every step awaits a permission check; processes end, Redis loses messages. *No watcher outlives its view; no change is missed; the departed and those without access disappear.* |
| Table save coordination (`TableDocumentSession`, `TableSaveCoordinator`) | the older whole-workbook session | flush before dependent actions | retries against navigation |
| Script editor (`TableScriptsStore`) | source, revision, selected script | load, edit, save, run | a stale revision must not overwrite |
| **Rich text collaboration** (`PersistenceExtension`, `APIUpdateExtension`, `documentCollaborativeUpdater`) | Y.Doc in memory, unsaved flags, failure counts, stored state | Hocuspocus hooks, API updates over Redis | a store overwrites an API update the memory has not received; retries are given up |
| Collaboration access and limits (`Authentication-`, `ConnectionLimitExtension`) | connection sets | connect, disconnect | counts after failed connections |
| **Document lifecycle** (`documentUpdater`, `-Mover`, `-Restorer`, models) | document rows, `Collection.documentStructure` | create, publish, move, archive, delete, restore | two representations of one tree, changed by queries of different scopes. *They agree, and are trees.* |
| **Memberships** and groups | direct memberships and their copies | share, revoke, publish, move | copies are made by several paths, one of them a late processor. *Inherited access comes from above and reaches what is below.* |
| Queues, processors, tasks, webhooks | Bull queues in Redis | at-least-once events, retries, disabling of failing webhooks | repetition and reordering |
| Imports and exports | import and import-task rows | page-by-page processing, abort | partial failure, resumption |
| Locks, cache, rate limits | Redis keys | acquire, fill, invalidate | a fill that overtakes an invalidation |
| Authentication, search, editor schema, client, plugins, file storage, mail | – | – | mostly stateless, sequential or pure I/O |

The components interact as follows. A tab edits a workbook through *spreadsheet
synchronization*, keeps its recovery copy in *draft storage*, and learns of commits through
*table presence*'s sockets or its own poll. A script is queued through *table script jobs*,
whose dispatcher sends the snapshot to the *script runner*. A document update of the
*document lifecycle* that replaces a workbook destroys its collaboration row, which is the
one way the lifecycle acts on the models below.

## 2. Plan

In order of importance to a user: data executed twice, data lost, limits exceeded.

1. `ScriptExecution`, `ScriptRunner`, `ScriptRunnerProofs` – done.
2. `TableScripts`, `TableScriptsProofs` – done.
3. `TableSync`, `TableSyncProofs` – done. Left: an abstract
   specification of the workbook (a growing set of edits in epochs) that it implements.
4. `DraftStorage`, `DraftStorageProofs` – done. Left: two pages that share a tab identity, and
   the abstract specification (the latest value, or a reported failure) that could replace the
   durable draft of `TableSync`.
5. `CollabPersistence`, `CollabPersistenceProofs` – done. Left: several servers, connection
   limits.
6. `TablePresence`, `TablePresenceProofs` – done. Left: several documents and selections.
7. `DocumentTree`, `DocumentTreeProofs`, `DocumentTreeOverlap` – done. Left: permanent
   deletion.
8. `Memberships`, `MembershipsProofs` – done. Left: groups' soft deletion, deleted documents,
   and its composition with `DocumentTree`.
9. `ScriptEditing` and the revision check of `updateTableScript`; then webhooks, imports,
   cache fills.

Theorems planned for each: type correctness, and the invariant a user would complain about.

## 3. The modules and the code

`PROJECT.json` maps every definition to its lines. Operators marked *Mutant* are plausible
mistakes in the code, which the runs must be able to tell from it; no specification uses them.

### ScriptExecution
What the runner promises its clients. `life` is fresh, executing or over for every ID, and
`reported` holds the IDs whose end a caller was told. Accepting needs a fresh ID, and an end
is only reported when it is true.

### ScriptRunner
| Variable | Code |
|---|---|
| `file` | the ID's file written by `record()`; it survives everything |
| `up`, `ready`, `stopping` | the listening process, `DockerScriptSandbox.ready`, `ScriptExecutionRegistry.stopping` |
| `exec` | where the promise in `active` stands inside `DockerScriptSandbox.execute` |
| `aborted`, `verdict` | the AbortController, and the local `status` of which the first value wins |
| `box` | what the Docker daemon, a process of its own, has made of the container |
| `waiting`, `reported` | DELETE requests that await a result; IDs whose end a caller was told |

Each action is one turn of the event loop: the synchronous part of `execute()` up to its
first `await`, an abort listener, the continuation after a docker call, or a step of the
daemon. A docker call can fail, or give up while the daemon still carries it out. A `docker
create` given up after 10 s may therefore leave a created container behind; the model shows
that it is never started. A crash (`Exit`) forgets all but files and containers, and
`Restart` removes every labelled container before it listens, as `prepare()` does.

### TableScripts
Scripts and runs are database rows; `tx` are transactions that enqueue (a manual request, or
one due script of a tick), `claim` those that dispatch. A lock is a guard on the phases of
the other transactions: the row lock of a script from the first statement on, the advisory
lock `tableScripts:queue` from the count to the commit, `tableScripts:dispatch` from the
count to the commit. Reads see what is committed (READ COMMITTED). `perf` follows one
`performTableScriptRun`, `wire` the POST on its way, and `stops` one `tableScripts.stop`
handler per run. The runner is `INSTANCE ScriptExecution`, the specification that
`ScriptRunner` is proved to implement.

Abstractions: a tick's batch of up to 20 due scripts is a series of one-script transactions;
expiry, a comparison of times in the code, may happen at any moment; source text and its
revision check are left out; a row that a Stop holds locked is skipped by the claim, which is
the same as the Stop committing first.

### TableSync
A Yjs document is the set of edits it contains; merging is union, and a state vector is the
set it covers. `record` is the `TableCollaboration` row (its ID is the epoch), `tab` the
fields of each session, `draft` the recovery copy, `call` the awaited request, and `stray`
the updates whose sender has given up but which the server may still receive. `edit` is a
history: who made which edit in which view, and the revision that committed it.

A workbook that was received is displayed at any later time (`Display`): a session adopts its
epoch at once, and until then captures what is typed in the old view under the new epoch
(`viewEpoch` differs from `epoch`), as in the code. Two delays are explored only where a run
asks for them (`Gaps`): `"capture"` between a command and the timer that captures it, which are
one step otherwise, and `"late"`, which lets a lost request arrive after its sender's next one.
Left out: titles and metadata saves,
undo stacks, presence, retry limits. The draft counts as durable once stored; `DraftStorage`
says when that is so: at once for a small workbook whose mirror could be written, after the
flush for any other, and otherwise the view reports a failure.

### DraftStorage
| Variable | Code |
|---|---|
| `mirror`, `marker` | `localStorage` under the key, and under the key with `:pending` |
| `database` | the record in IndexedDB |
| `view` | each `TableDraftStorage` object of the page: its generation, sequence, cached record, failure flag and queue of backups |
| `owner`, `ownerSequence` | the module-level map `owners` and the number handed to the next view |
| `latest`, `traced` | history: the last snapshot handed in, and whether it left anything behind |

A snapshot is the number of the call that handed it in, and a removal is a snapshot too, as it
is in the code (`value: null`). `Persist` is the synchronous part of `persist()` with its three
outcomes (mirrored, only marked, no trace), `Begin`, `Finish` and `Supersede` are the queued
callback, and `Reload` ends the page at any moment. `Faults` names what may fail. A generation
is started from the clock in the code; here only the order of generations matters, and the
fault `"clock"` lets a later page start at a lower one.

### CollabPersistence
| Variable | Code |
|---|---|
| `row` | state (null unless `created`), content and `revisionCount` of the document |
| `doc`, `ydoc` | the Hocuspocus document: where its loading stands, its connections, and the Yjs document of every load, which a running store holds on to |
| `known` | `APIUpdateExtension.documents` |
| `unsaved`, `failures`, `due`, `store` | `unsavedDocumentNames`, `persistFailureCounts`, the debounced store, calls of `onStoreDocument` |
| `request`, `notices`, `fetched` | what API requests have read before the row lock, notifications in Redis, states read for them |

Yjs documents and the content rendered from them are sets of edits. What takes the row lock
commits in the step that obtains it. Hocuspocus is external: its part is what the hooks rely
on, namely a store some time after a change and at the last disconnection, and the unloading
of a document without connections once its store is over.

Four coincidences of the code each put edits at risk, and the model contains all of them. The
history `lost` records, for each, the edits in question when it happens, so that a property can
except these and nothing else:

| `lost[...]` | What has happened | The edits |
|---|---|---|
| `"create"` | an API request that has read a document without a state commits after the state was created (`PersistenceExtension.ts:61-106` has nothing against it) | those of the request |
| `"deaf"` | a notification arrives while the document is loaded but not registered | what the row has and the memory has not |
| `"store"` | a store commits although a notification is still on its way | what it removes from the row |
| `"unload"` | a document is unloaded although its store failed or another one still runs, or a store commits after that | what is stored nowhere else, or what that store removes |

### TablePresence
| Variable | Code |
|---|---|
| `watching`, `request` | `watchers` and `watchRequests` under a connection's key; the number tells one request of a connection from another |
| `peers`, `rosterDue` | `peers` and `broadcastTimers` of each process |
| `open`, `server` | connections a process takes to be open, and their process |
| `client` | the effect of `TableDocument.tsx` that watches: whether it is mounted, its connection, whether it has the last revision, its roster |
| `tasks` | handlers between their question to the database (`canRead`) and what they do with the answer |
| `readers` | who can read the document |

Every handler is two steps: `Ask` and what follows. The answer may be that of the moment of
either step. A publication reaches all processes in its step or none (the failure is logged
and forgotten). A peer `Expire`s if nobody is left to announce it, since a heartbeat renews
the others three times in their lifetime. `MaxMoves` bounds what clients and the database do;
processes and timers are not bounded. One document is modelled, as a client's ID belongs to
one, and one view for each connection; hence a watch for another document that awaits the removal
of its predecessor (`TableSocket.ts:158`) is not. Selections are left out.

### DocumentTree and DocumentTreeOverlap
`row` is what a document's row says, `structure` the edges of each collection's JSON tree,
`coll` whether a collection is active. A request reads and authorizes first and then locks the
collection's row; what follows the lock is one step, whose parameter `seen` is what the request
has read. `DocumentTree` lets requests follow one another (`seen` is the present state);
`DocumentTreeOverlap` lets one request hold an older `seen`, and `Saved` then writes, as
Sequelize does, only the fields in which the instance differs from what was read. The queries
differ in what they see, and the operators say how: `ChildDocuments` follows drafts but not
deleted documents, `PublishedBelow` has the default scope, `NavigationNode` leaves archived
documents out unless asked. The user may write to every collection.

Some requests leave a published child in another collection than its parent: detaching or
deleting between them and then publishing or restoring elsewhere. The code allows them, the
model contains them, and they break the agreement of rows and trees for good (section 7). The
history `parted` says whether it has come to that, and the four invariants claim nothing from
then on.

What is below a document (`Below`) is the least set with its children in it, which says the
same as the recursive queries of the code and lends itself to proofs by choosing a set.

### Memberships
`root` are memberships of one user without a source, `copies` the number of rows of a document
with a given root as their source (the code can make several, see section 7), `moved` the
`documents.move` events not yet processed. `Copied` is what publishing copies from the parent's
rows and what the processor finds as the parent's roots. One user is enough as no query touches
the rows of two. Levels of permission are left out: changing a root's level changes its copies
in the same transaction. `cut` is a history of what `GrantsReach` excepts, `orphaned` of the
documents that a restore took out of an inactive parent, which `InheritedFromAbove` excepts
until they are moved: nothing tells the processor of them. `BelowIn` and `Path` are least sets,
as in `DocumentTree`.

## 4. Runs

Every run finishes within the limits of a few minutes; `pass` runs explore the whole state
space of their bounds.

| Run | Instance | Shows |
|---|---|---|
| `ScriptRunner` | 2 IDs, capacity 2 | no replay, truthful Stop; the first status wins; executions and Stops end; the runner implements `ScriptExecution` |
| `TableScriptsEnqueue` | 3 scripts, 2 transactions, 3 runs, queue limit 2 | the locks keep one run per script, the queue limit, one run per occurrence |
| `TableScriptsLive` | 2 scripts, 2 runs, 1 worker, concurrency 1, no deletions | rows and runner agree about what was stopped, has succeeded or is fresh; results are final; the queue is served and active runs end |
| `TableSyncMerge` | 2 tabs, 3 edits, 3 openings, 1 receipt | nothing captured is lost, exclusive edits are serial, views honest, a clean tab committed |
| `TableSyncReplace` | 1 tab, 2 edits, 3 openings, 1 replacement, 1 loss, late captures, displays and requests | no conflict with oneself; no update of the old epoch enters the new one; edits are settled and the tab shows what is stored |
| `DraftStorage` | 2 snapshots, 3 views, every fault | who reports no failure has the last snapshot; no older draft comes back; flushes end |
| `CollabPersistence` | 2 edits, 2 connections, 2 API requests, 2 stores, 3 loads, 2 failures | nothing typed or committed by the API is lost but what the coincidences put at risk; everything typed is stored or given up |
| `CollabPersistenceStore` | 2 edits, 1 API request | violated, see section 7 |
| `TablePresence` | 2 views, 2 processes, 4 moves, 1 failure, 2 connections and 2 watch requests of each | no ghosts, no missed revision; lists become right; who lost access is gone |
| `DocumentTree` | 3 documents, 2 collections, any number of operations | until a document is parted from its parent's collection: rows and trees agree; no cycle; no document shown twice or not at all |
| `DocumentTreeOverlap` | 2 documents, one request with an old reading | violated, see section 7 |
| `Memberships` | 3 documents, 2 memberships at a time, no equal copies, 2 moves unprocessed or documents orphaned | inherited access comes from above; access given above reaches what is below |

Why the bounds are enough to be of interest. Two IDs at capacity two let one execution enter a
driver that another one's failed removal has made unready, and an orphan of a crash meet a new
execution; that the capacity holds is proved. Two transactions over three scripts reach the
queue limit with one script's run active and another counted; in that run scripts are deleted as
often as there are scripts (`MaxDeleted`). The runs of two scripts at concurrency one put a
waiting run next to one that was claimed and abandoned, or whose Stop is not acknowledged, so
that `QueuedIsServed` fails if such a run keeps its place (its mutant: expiry left to a worker).
Deletion, which needs an idle script, is left to the other run. That several workers together keep the
concurrency limit is proved. Two tabs with three
edits allow an exclusive edit, an edit unaware of it and an edit that follows both; one
receipt makes eviction happen at once; a crash loses a request under way or its answer, and in
`TableSyncReplace` a session may lose one without crashing as well. Three views
allow one with queued writes, its successor in the same page, and a page that recovers.
One replacement and three openings let a tab that was reloaded once
receive the new workbook before, during and after a lost request, and be reloaded again.
`CHECK_DEADLOCK FALSE` is used where the bounds end all activity, or where all scripts may be
deleted and all tabs closed. Symmetry is used for safety runs only. Two edits let an API update and an edit unaware of
it, or two API updates, meet two failing stores, and three loads let a store outlive its
document and its successor.
In `TablePresence` only one view moves (`Movers`), the other
watches it; two connections and two requests are what a reconnection or a second watch needs to
overtake the first, and one handler at a time may be under way when a timer starts another, but
each message and each watcher adds its own. Three documents make a parent, a child and a grandchild, or a
document with two places to go. The state space of `DocumentTree` is complete for three
documents up to the first parted one: nothing but their number bounds it, and the constraint
`Whole` stops where the invariants have nothing left to claim.
The liveness of `TableSync` is checked for one tab, since two with a lost request and a
replacement exceed the time limit: that two tabs come to show *each other's* edits rests
on the safety run, which shows that a tab displays everything up to its view's revision.

## 5. Fairness

- `ScriptRunner`: weak fairness of the driver's own steps (`Progress`). Deferred callbacks
  run, every docker call has a time limit, and the 60 s timer ends a program. Nothing is
  assumed of the daemon, of the program or of the callers; restarts are not assumed either.
- `TableScripts`: only the dispatcher's tick (every second, expiry every ten,
  `services/tableScripts.ts`) is fair. Claims are strongly fair, since a tick that loses its
  worker or its transaction is followed by others. Neither the runner nor a worker is assumed
  to answer, so `ActiveEnds` rests on expiry alone.
- `TableSync`: timers fire, requests are answered, the 15 s poll of `TableDocument.tsx:520`
  asks again, and typing in a cell ends. `Save` is strongly fair: a poll under way disables
  it, but only for one request at a time.
- `DraftStorage`: promise callbacks run, and each database request ends by itself or after
  three seconds. Nothing is assumed of the user or the page.
- `TablePresence`: handlers that have asked the database go on, timers fire (strongly fair, as
  they wait for room among the bounded handlers), broken connections are noticed and what
  nobody renews expires. Nothing is assumed of clients, of the database or of Redis.
- `CollabPersistence`: hooks are awaited, stores end (the row lock is waited for 15 s at most)
  and messages are handled. Nobody is assumed to edit, connect or leave.

## 6. Proofs

`ScriptRunnerProofs` proves, for any finite set of IDs and any positive capacity: type
correctness, `NeverReplayed`, `StopIsTruthful`, `StatusIsFirst` (`FirstStatusWins`), `EarlyStopWins`, `NothingUnsupervised`,
`CapacityIsHeld`, and `Refinement` (the runner implements `ScriptExecution`). The inductive
invariant `IInv` adds to the properties what they rest on: nothing happens under an ID without
a file; a tombstoned ID is idle; a process that is down has no promises; a container has not
been started before its promise sends `docker start`; and an ID that was reported has neither
promise nor started container. Capacity needs one more idea: the promises and the started
containers *together* occupy at most `Concurrency` places (`RoomForAll`). A crash forgets the
promises but not the containers, so the count of promises alone is not inductive; the
`Supervised` conjunct (a listening runner has removed every orphan) then allows `Execute` to
count only promises. The refinement maps an ID to *executing* while it has a promise or a
started container; every step is shown to be an `Accept`, a `Settle` or a stutter.

`TableScriptsProofs` proves all safety properties of `TableScripts`, for any finite sets of
scripts, transactions and workers and any limits: `TypeCorrect`, `SingleActiveRun`,
`QueueIsBounded`, `DeletedStaysIdle`, `OccurrencesServedOnce`, `WithinConcurrency`,
`CancelledStaysStopped`, `RowsAgreeWithRunner` and `ResultsAreFinal`. None of them is inductive,
because each is about the rows and the rows are protected by locks and by the runner. The
invariant has three parts:

- *Enqueuing.* A transaction past its first statement has its script live and to itself
  (`TxHoldsScript`, the row lock), and what it counted stays true until it commits (`TxCounts`,
  the advisory lock). With the counts true, inserting a run keeps `ActiveIsUnique` and
  `QueueBounded`. For schedules, an occurrence that is due counts as not yet served: the
  scheduled runs of a script plus one if it is due never exceed its occurrences
  (`OccurrencesServed`), which a commit preserves by clearing what it counts.
- *Dispatching.* `ClaimCounts` is the same argument for the dispatch lock.
- *The truth of a row.* `Truth(r)` relates one run's row, the worker that performs it, its Stop
  handler, the POST in flight and the runner. It says that a run not yet claimed is unknown
  everywhere else, that a worker which has not yet posted has no request in flight, that an
  answer or an acknowledged DELETE is only seen of a run that is over, and that a worker which
  read a cancellation can not meet a later success in the row.

Eighteen of the actions are about one run and are shown at once to be *quiet* (`Quiet`): they
change no script, transaction or claim and only age runs, so that nothing counted can grow. What
is left are the steps that make and claim runs. `Truth` is proved action by action.

`TablePresenceProofs` proves `TypeCorrect`, `NoGhosts` (`NoGhostWatch`) and `NothingIsMissed`
(`NoMissedChange`), for any clients, processes and bounds. `NoGhostWatch` is not inductive: a watch under way when its view is closed
has yet to come back from the database. What closes that door is `watchRequests`: unwatching
deletes the entry, so that the late handler finds another request than its own. Hence the
invariant `AllClear`, for every connection: a watcher needs an open connection, and a connection
whose view is closed while connected has neither watcher nor request. Handlers can only turn
watchers and requests off, except `Register`, which needs the request (`LessIsClear`,
`ClientClear` and the lemmas of the handlers).

`NoMissedChange` is inductive once its hypothesis is spelled out per connection (`Told`): a
current connection that has a watcher shows the last revision or is about to fetch it, unless a
handler that will notify it is under way or a publication has failed (`faults`, which only
grows). A registration makes the view fetch, so that it does not start with an old revision, and
a commit that Redis carries starts a notifying handler for every watcher of every process
(`CommitTold`). A handler that ends has told its client, or has removed the watcher
(`HandlerTold`, `RemovedTold`).

`DocumentTreeProofs` proves the agreement of rows and trees and the four invariants of `DocumentTree` for any documents and
collections: `TreesAgree`, `NoCycles` (`AcyclicParents`), `OnePlace`
(`ShownOnce`), `TreesAreCurrent` (`ShownIsCurrent`) and `TreesAreComplete` (`ActiveIsShown`),
each up to the first parted document. `TreesAgree` is `[]WholeInv`, and `WholeInv` is `TreeInv`
while nothing is parted: a step that parts nothing keeps `TreeInv`, and one that does ends the
premise for good. Type correctness (`TypeCorrect`) has no such premise. Present
documents are not enough to speak of, as a document that is gone may come back. `TreeInv`, which
TLC has confirmed on three and on four documents, therefore says that

- all documents, deleted ones included, are below the top along their parents (`Acyclic`). A
  move keeps this as the new parent is not among the present children of the document, provided
  that no path leads there over a deleted one: a deleted document has taken what was below it
  along (`NoOrphans`, `ParentNotBelow`);
- trees show published documents of their collection, under their parents (`TreesFollowRows`),
  and all of them but those archived one by one (`AllShown`). Hence what a query on the rows
  finds below a document is what its node in the tree has (`ShownBelow`, `BelowInTree`), and
  removing the one removes the other (`RemovalKeepsTrees`);
- what is in the tree of an archived or deleted collection was archived or deleted with it, or
  with a parent that was (`NodesFit`), so that restoring a collection brings back what its tree
  still shows (`RestoreCollectionKeeps`).

`MembershipsProofs` proves `TypeCorrect`, `Inherited` (`InheritedFromAbove`) and
`EveryGrantReaches` (`GrantsReach`), for any documents, memberships and bounds; the depth of the
tree is not bounded. Both properties are about paths, which every move changes, so most lemmas
say what a change of one parent does to the paths of others: a path that avoids the document
stays (`PathKept`), any other one runs over it (`PathOver`), and the stretch between a document
and a root either stays or has the moved document in it (`StretchKept`, `StretchTop`), which
then is in `moved`. The invariant `SharingInv` adds to the two properties that parents are
acyclic (`Loopless`), that a membership's copies go with it (`NoneDangles`), and that what is
above a published document was published, except above a `cut` (`PublishedAbove`). The last one
is why sharing reaches everything: the query for descendants stops at the first document that is
not published, and there is none on an uncut stretch (`PublishedWay`, `CleanBelow`).

`CollabPersistenceProofs` proves the three safety properties of `CollabPersistence` for any numbers
of requests, stores, connections, loads and failures, with all four coincidences going on. What
the proof needs to know about each is that `lost` grows by the edits it names, and by no others
(`LosesMore`). The invariant has three layers; the second and the third rest on the first:

- `RowInv`, the row. A request under way that has read the present revision has read the present
  row, or the one before its state was created (`Readings`). Reading again when the revision
  differs is therefore enough: every commit is made upon the current row, or knows nothing of a
  new state and then is recorded under `"create"` (`CommitUponRow`). The content is that of the
  state but for these edits (`Rendered`).
- `ApiInv`, the edits of the API: once no notification is on its way, what the API committed is
  in memory, has been fetched for it, or is recorded in `lost` (`Synced`). Hence `ApiEditsKept`
  (`NoApiEditLost`) and `ApiEditsSynced` (`ApiEditsAreSynced`).
- `SessionInv`, the edits of the session. Of those that were neither given up nor at risk in an
  unloading (`Owed`), what the row has is in the memory of a loaded document (`Kept`), and what
  memory has is stored, flagged or being stored (`Flagged`); and a store of an earlier load, which
  may still commit, brings back nothing that is missing now (`Storing`, `Behind`). Hence
  `SessionEditsKept` (`NoSessionEditLost`).

`DraftStorageProofs` proves all safety properties of `DraftStorage`, for any numbers of
snapshots and views and every set of faults: `LatestIsRecovered` (`RecoversLatest`),
`FlushStores` (`FlushedIsStored`) and `NoResurrection` (`NothingResurrects`). The difficulty is
that versions do not order snapshots once the clock may be set back. The invariant therefore
speaks of the view that owns the key only, and of what it has queued:

- a copy that was handed in after a queued snapshot has a newer version (`Comparable`): either
  the same view made it, whose sequence grows, or it was there before, and then the snapshot is
  older. For the mirror the converse holds as well, since an outdated mirror is not queued for;
- hence a backup that replaces the durable copy is not older than what a load would recover, in
  snapshots as in versions, or leaves that alone (`BackupRecovered`);
- the last snapshot, unless its trace was lost, is what a load would recover or is told of by a
  newer marker (`Recoverable`), and a view that reports no failure has met no such marker. A
  last backup that ends without a failure is durable or mirrored, and a mirrored snapshot is
  never the one of the marker (`LastBackup`).

`TableSyncProofs` proves `EditsKept` (`NoEditLost`), `RequestsKept`
(`InFlightIsRecoverable`), `CleanSessionsAreCommitted` (`CleanIsCommitted`) and
`ReplacementsStayClean` (`EpochsStayApart`), all without assumptions on `Gaps`, for any numbers of tabs,
edits, receipts, lost requests and replacements. `InFlightIsRecoverable` is in no run: it is a
fact the other three rest on. The invariant passes the state of one tab as arguments, so that
what others do is one lemma (`TabSpared`): they may settle edits and add their own, but never
unsettle one or add to what a tab has pending (`Spares`). It says that

- what a tab has pending is in its document, hence in its draft, and also in the request under
  way unless something was captured since that was built (`Covers`). This is why clearing the
  request on acknowledgement loses nothing, and why a draft is only removed when nothing is
  pending (`PersistOK`);
- an acknowledged request is settled, on a replay too, since receipts only name settled updates
  (`Receipted`, `CommitOK`);
- what is held in an epoch was made in it (`Held`). A workbook that was replaced is received
  only when nothing is pending (`ReceivedOK`), and a commit needs the epoch of the row.

The module's second part proves `ExclusiveEditsAreSerial` (`ExclusiveIsSerial`,
without the delay `"capture"`) and `ViewsAreHonest` (`ViewIsAtItsRevision`, with all delays),
late requests included. `ExclusiveIsSerial` is about the edits made in a view of the present epoch
(`Current`): of what is typed in the view of an ended one, the guards know nothing. A commit is guarded by two numbers, the base and the
exclusive revision, and the proof says of everything that holds unsent edits (a session, a
request, a draft, a request given up) what these numbers stand for:

- an uncommitted exclusive edit has seen all that was committed up to the exclusive revision,
  and an uncommitted edit has seen all exclusive edits committed up to the base (`Guarded`).
  The first is what the check against the exact revision needs, the second the one against the
  barrier (`CommitMerges`);
- edits captured while a request is under way have seen that request (`CopySerial`), and the
  view displays what the next capture has to have seen (`ViewOK`, `CapturedFine`);
- an acknowledgement says which revisions were its own commit (`CommitFine`, also of a
  receipt). Hence the revisions may advance over it (`AdvancedFine`), and, as the barrier is
  not above it, the base may advance to the revision of the answer: the exclusive edits in
  between are the request's own or were guarded against before (`AcknowledgedFine`);
- an answer under way is of a revision that its tab has not reached otherwise (`AnswerAhead`).

The state of the server is an argument here, too: commits raise the revision and mark
uncommitted edits (`Advances`), which leaves every holder's guards alone (`TabFineStays`).

The third part proves `NoConflictWithOneself` (`NoSelfConflict`): a tab that is alone with its
workbook is never refused, however many requests and answers it loses and however often it is
closed and opened again; the other tabs may read. It holds with the delay `"capture"` and with
late displays. The assumption `"late" \notin Gaps` is necessary: with a second lost request, a
late duplicate displaces the receipt of the session's newer request (section 7). The invariant
(`Solo`) says that there is one revision `v` that the base, the exclusive revision and the view of
the session, of its draft and of its request all refer to: the present one, or the one before the
commit of the request as long as that is not acknowledged.

- The request in the draft is the only one there is: whatever is still under way after an abort
  or a reload is the same request. If it has a receipt, its commit is the last one, so that a
  replay is answered by the receipt; if it has none, nothing was committed since it was built,
  so that neither guard can refuse it (`SoloRequest`, `CommitSolo`).
- A new request always contains the last edit, and that is in no receipt (`Fresh`). Hence it
  differs from every request before it, and is not mistaken for one that is committed
  (`SaveSolo`).
- An acknowledgement is of the last commit, so that the tab moves to the present revision with
  all it holds (`AcknowledgeSolo`). Edits of others and replacements end the premise and nothing
  else can (`AloneBefore`); a tab with nothing to send stays silent (`OtherSolo`).

The assumptions are those named in the modules: the sets of IDs are finite, the limits
positive. `EarlyStopWins`, `NothingUnsupervised`, `CapacityIsHeld`, `DeletedStaysIdle` and
`WithinConcurrency` are proved for every instance and not run any more. Every safety
invariant of the passing runs is a theorem, with one difference: `NoSelfConflict` is proved
without late requests and checked with one of them. What is only model-checked: `RosterConverges`
and `RevokedLeave` of `TablePresence`, and every other liveness property (fairness is out of this
prover's reach). `TypeOK` of each module describes its state; where it is not proved, it holds on
the instances of section 4 when added to them, and no run repeats that.

## 7. Findings

Places where the code does less than its comments say. Two are runs that TLC finds violated,
next to a run whose properties except what is violated here.

- `CollabPersistenceStore`. A store of the document in memory that commits between an API
  update and the arrival of its notification removes the update from the database, and the
  notification then has nothing to synchronize.
- `DocumentTreeOverlap`. d1 is below d2. A request to move d2 under d1 has read and is
  authorized; d1 is deleted; the move commits, as its cycle check follows present documents
  only; d1 is restored, and keeps its parent d2, which is active. Each is now below the other,
  although `findAllChildDocumentIds` walks down with `UNION ALL` "as the tree is acyclic"
  (`Document.ts:1191-1192`). Requests one after the other reach the same once a document is
  parted from its parent's collection (below).

Two further gaps of `TableSync`. With `"capture"` in the `Gaps` of `TableSyncMerge`
`ExclusiveIsSerial` fails: `track()` notes the exclusive guard when a command executes, the edit
is captured by a timer, and a save built in between copies the guard and clears it when
acknowledged, so that the exclusive edit is sent as a plain one. The other one is part of the
model always, and the reason why no property says that *nothing made in the old workbook* enters
its replacement: a clean session adopts the epoch of a replaced workbook at once
(`TableCollaborationSession.ts:680-713`), but a cell being edited keeps the old one displayed
(`TableDocument.tsx:1234-1237`), and its edit is captured and accepted under the new epoch.
`documentUpdater.ts:176-177` says that "old browser updates must never be merged into the
replacement snapshot". `EpochsStayApart` states that of updates captured in the old epoch; an
edit of the old view under the new epoch is within the words of the comment or not, as one reads
them, and is what a user would mind. `ExclusiveIsSerial` and `ViewIsAtItsRevision` claim nothing
about such edits either.

After some requests a published document is in another collection than its parent (`parted`):
an unpublished document that was detached keeps its parent and may be published elsewhere; a
document restored to another collection keeps an active parent in the old one; a deleted or
unpublished child stays behind when its parent moves. From then on rows move between collections
without what is below them, and each of the four invariants of `DocumentTree` can fail, by
requests one after the other: trees show what is not there or is shown twice, miss what is there,
and a move may close a cycle.

What modelling `Memberships` showed, beside what its run checks. A shared document that is moved
takes its descendants' copies of its own membership away, as the processor destroys every copy
in the subtree and makes only those of the new parent again (`cut`). A membership changed by hand
gets an inherited one back beside it after a move. Publishing a draft that already has copies
adds them again (with `MaxCopies` above 1, which the run does not allow and the theorems do). A document restored out of an archived parent keeps the access
inherited from there, which cannot be removed (`orphaned`). Two workers that process moves of
one document at once are not modelled.

The other three coincidences of `CollabPersistence` lose data as well. They are in the model, its
properties except the edits concerned (`lost`), and they are listed as hazards that no property
excludes: an API request that read a document before its state was created commits a text which
the state lacks (`"create"`); a notification for a document that is loaded but not registered is
ignored (`"deaf"`); and a failed or late last store leaves edits behind when the document is
unloaded (`"unload"`, which rests on Hocuspocus).

Model checking also showed that a superseded request that arrives late replaces the receipt
of its session's newer request, whose replay can then meet its own barrier and end in a
conflict. No statement of the repository excludes it, so it is a hazard and not a finding.
In `DraftStorage`, a clock that is set back together with a database that cannot be read at
load leaves a view with a generation below the stored one; a later successful backup withdraws
the failure it had reported. `RecoversLatest` and `FlushedIsStored` except those snapshots.
`WriteCancelled` (`tableScriptExecutor.ts:151`) can replace `timed_out` by `cancelled`, and
`FinalIsFinal` excepts exactly that: no property excludes it.

## 8. What is not modelled

Everything in the table of section 1 that is not in bold, and what the notes of each module in
section 3 leave out. Most of the repository's lines are the web client, the editor's schema and
plugins, presenters, schemas and third-party integrations: their state is a view of the server's
or changes in sequential steps, and a model would repeat them. Text, layout, formatting, logging,
permissions as such (a failed check is a nondeterministic choice) and real time are left out
of the models there are. Pure I/O, third-party wrappers and the sequential transformations of
the editor schema have no state machine worth checking here.
