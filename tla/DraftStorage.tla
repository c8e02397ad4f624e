---------------------------- MODULE DraftStorage ----------------------------
(***************************************************************************)
(* The recovery copy of one edited spreadsheet in one browser tab:         *)
(* app/stores/TableDraftStorage.ts.  A snapshot is mirrored at once in     *)
(* localStorage, or marked there as pending, and queued for IndexedDB.     *)
(* Views of the page (React mounts) follow each other under one key, and   *)
(* an earlier one may still have queued writes; the page may end at any    *)
(* moment and be reloaded.                                                 *)
(*                                                                         *)
(* A snapshot is the number of the call that handed it in; a removal       *)
(* (an acknowledged draft) is a snapshot like any other.  Keys do not      *)
(* interact, so there is one.  An IndexedDB transaction is one step: those *)
(* that overlap are run in the order of their creation.  Drafts that       *)
(* precede versioning and the drafts of other tabs are left out.           *)
(***************************************************************************)
EXTENDS Integers, Sequences

CONSTANTS
    MaxSnapshots,   \* bound: snapshots handed in
    MaxViews,       \* bound: views mounted
    Faults          \* what may fail: "open", "read" and "write" of the database,
                    \* "peek" (localStorage.getItem), "quota" and "outage" (setItem
                    \* of a snapshot, and also of its marker), and "clock" (set back)

ASSUME BoundsAssumption ==
    /\ MaxSnapshots \in Nat /\ MaxViews \in Nat
    /\ Faults \subseteq {"open", "read", "write", "peek", "quota", "outage", "clock"}

VARIABLES
    mirror,         \* localStorage[key]
    marker,         \* localStorage[key + ":pending"]
    database,       \* the record under key in IndexedDB
    view,           \* the TableDraftStorage of each view
    mounted,        \* how many views there have been
    owner,          \* owners.get(key): the view that claimed the key last, 0 if none
    ownerSequence,  \* of the page, started from the clock; only its order matters
    latest,         \* history: the last snapshot handed in
    traced          \* history: it left a copy or a marker that a load would prefer

stored == <<mirror, marker, database>>
page == <<mounted, owner, ownerSequence>>
vars == <<stored, view, page, latest, traced>>

Views == 1..MaxViews
Snapshots == 0..MaxSnapshots
Versions == 0..(2 * MaxViews + MaxSnapshots)

\* A DraftRecord; Nothing stands for an absent one and is older than any other.
Record == [owner : Versions, sequence : Versions, snapshot : Snapshots]
Nothing == [owner |-> 0, sequence |-> 0, snapshot |-> 0]

IsNewer(previous, next) ==
    \/ previous.owner > next.owner
    \/ previous.owner = next.owner /\ previous.sequence > next.sequence

\* What is recovered from a mirrored and a durable record.
Newest(local, durable) == IF IsNewer(local, durable) THEN local ELSE durable

\* job: the first of the queued backups is in a transaction, or has no database.
\* awaited: the queued backups that a dispose() waits for.
NoView == [phase |-> "gone", generation |-> 0, sequence |-> 0, cache |-> Nothing,
           open |-> FALSE, failed |-> FALSE, queue |-> <<>>, job |-> "none", awaited |-> 0]

Init ==
    /\ mirror = Nothing /\ marker = Nothing /\ database = Nothing
    /\ view = [v \in Views |-> NoView]
    /\ mounted = 0 /\ owner = 0 /\ ownerSequence = 0
    /\ latest = 0 /\ traced = TRUE

Attempt(fault) == IF fault \in Faults THEN BOOLEAN ELSE {TRUE}

-----------------------------------------------------------------------------
(* A view.                                                                 *)

\* constructor: the key is claimed before anything is loaded.
Mount(v) ==
    /\ v = mounted + 1
    /\ mounted' = v /\ owner' = v /\ ownerSequence' = ownerSequence + 1
    /\ view' = [view EXCEPT ![v] = [NoView EXCEPT
                    !.phase = "loading", !.generation = ownerSequence',
                    !.sequence = ownerSequence']]
    /\ UNCHANGED <<stored, latest, traced>>

Larger(a, b) == IF a > b THEN a ELSE b

\* Mutant: load without the marker of an interrupted backup.
LoadUnmarked(v) ==
    /\ view[v].phase = "loading"
    /\ LET newest == Newest(mirror, database)
       IN  view' = [view EXCEPT ![v] = [view[v] EXCEPT
               !.phase = "live", !.open = TRUE, !.cache = newest,
               !.sequence = Larger(view[v].sequence, newest.sequence),
               !.generation = Larger(view[v].generation, newest.owner + 1)]]
    /\ UNCHANGED <<stored, page, latest, traced>>

\* load: nobody but the owner writes, so what is read in several steps is consistent.
Load(v) ==
    /\ view[v].phase = "loading"
    /\ \E opened \in Attempt("open"), read \in Attempt("read"),
          peeked, marked \in Attempt("peek") :
        LET local == IF peeked THEN mirror ELSE Nothing
            durable == IF opened /\ read THEN database ELSE Nothing
            newest == Newest(local, durable)
        IN  view' = [view EXCEPT ![v] = [view[v] EXCEPT
                !.phase = "live", !.open = opened, !.cache = newest,
                !.failed = ~(opened /\ peeked /\ read /\ marked) \/ IsNewer(marker, newest),
                !.sequence = Larger(view[v].sequence, newest.sequence),
                !.generation = Larger(view[v].generation, newest.owner + 1)]]
    /\ UNCHANGED <<stored, page, latest, traced>>

\* Where a snapshot leaves its trace: a large one only marks the mirror, as does
\* one that exceeds the quota.
Traces(v) == {"mirror"} \cup (IF view[v].open \/ "quota" \in Faults THEN {"marker"} ELSE {})
                        \cup (IF "outage" \in Faults THEN {"none"} ELSE {})

\* The mirror holds the snapshot of a newer owner, which is left alone.
Outdated(record) == IsNewer(mirror, record)

\* persist (setItem and removeItem), in the view that owns the key.
Persist(v) ==
    /\ view[v].phase \in {"live", "disposing", "disposed"} /\ owner = v
    /\ latest < MaxSnapshots /\ latest' = latest + 1
    /\ LET record == [owner |-> view[v].generation, sequence |-> view[v].sequence + 1,
                      snapshot |-> latest']
           Taken == [view[v] EXCEPT !.cache = record, !.sequence = record.sequence]
       IN  \/ /\ Outdated(record)
              /\ view' = [view EXCEPT ![v] = Taken]
              /\ traced' = FALSE
              /\ UNCHANGED stored
           \/ /\ ~Outdated(record)
              /\ \E trace \in Traces(v) :
                    /\ mirror' = IF trace = "mirror" THEN record ELSE mirror
                    /\ marker' = IF trace = "marker" THEN record ELSE marker
                    /\ traced' = (trace # "none" /\ IsNewer(record, Newest(mirror, database)))
                    /\ view' = [view EXCEPT ![v] = [Taken EXCEPT !.queue = Append(
                           view[v].queue, [record |-> record, mirrored |-> trace = "mirror"])]]
              /\ UNCHANGED database
    /\ UNCHANGED page

\* The first of the queued backups.
Backup(v) == Head(view[v].queue)

\* The view without it.
Settled(v) == [view[v] EXCEPT !.queue = Tail(@), !.job = "none",
                              !.awaited = IF @ > 0 THEN @ - 1 ELSE 0]

\* Mutant: the queue of a superseded view is left as it is.
SupersedeKeeping(v) ==
    /\ view[v].queue # <<>> /\ view[v].job = "none" /\ owner # v
    /\ UNCHANGED vars

\* A queued backup of a view that does not own the key any more is dropped.
Supersede(v) ==
    /\ view[v].queue # <<>> /\ view[v].job = "none" /\ owner # v
    /\ view' = [view EXCEPT ![v] = Settled(v)]
    /\ UNCHANGED <<stored, page, latest, traced>>

\* The next queued backup is begun; a disposed view opens the database once more.
Begin(v) ==
    /\ view[v].queue # <<>> /\ view[v].job = "none" /\ owner = v
    /\ \E opened \in IF view[v].phase = "disposed" THEN Attempt("open") ELSE {view[v].open} :
        view' = [view EXCEPT ![v].job = IF opened THEN "transaction" ELSE "skipped",
                             ![v].open = opened]
    /\ UNCHANGED <<stored, page, latest, traced>>

\* Mutant: the record is put without a look at the stored one or at the owner.
WrittenAlways(v) == Backup(v).record

\* write: the transaction leaves a newer record and that of a newer owner alone,
\* and has yet succeeded.
Written(v) ==
    IF owner # v \/ IsNewer(database, Backup(v).record) THEN database ELSE Backup(v).record

\* Mutant: a backup that failed is not reported.
FinishUnreported(v) ==
    /\ view[v].job # "none"
    /\ database' \in {database, Written(v)}
    /\ view' = [view EXCEPT ![v] = Settled(v)]
    /\ traced' = (traced \/ database'.snapshot = latest)
    /\ UNCHANGED <<mirror, marker, page, latest>>

\* A transaction that was aborted for taking too long may have been completed.
Finish(v) ==
    /\ view[v].job # "none"
    /\ \E durable \in IF view[v].job = "transaction" THEN Attempt("write") ELSE {FALSE} :
        /\ database' \in IF durable THEN {Written(v)}
                         ELSE IF view[v].job = "transaction" THEN {database, Written(v)}
                         ELSE {database}
        /\ view' = [view EXCEPT ![v] = [Settled(v) EXCEPT
                        !.failed = ~durable /\ ~Backup(v).mirrored,
                        !.open = view[v].open /\ view[v].phase # "disposed"]]
    /\ traced' = (traced \/ database'.snapshot = latest)
    /\ UNCHANGED <<mirror, marker, page, latest>>

\* dispose: the cleanup of a view waits for what is queued, then closes the database.
Dispose(v) ==
    /\ view[v].phase = "live"
    /\ view' = [view EXCEPT ![v].phase = "disposing", ![v].awaited = Len(view[v].queue)]
    /\ UNCHANGED <<stored, page, latest, traced>>

Close(v) ==
    /\ view[v].phase = "disposing" /\ view[v].awaited = 0
    /\ view' = [view EXCEPT ![v].phase = "disposed", ![v].open = FALSE]
    /\ UNCHANGED <<stored, page, latest, traced>>

-----------------------------------------------------------------------------
(* The page ends, at any moment, and is loaded again at a later one.       *)

Reload ==
    /\ owner # 0 /\ mounted < MaxViews
    /\ view' = [v \in Views |-> NoView]
    /\ owner' = 0
    /\ ownerSequence' \in IF "clock" \in Faults THEN 0..ownerSequence ELSE {ownerSequence}
    /\ UNCHANGED <<stored, mounted, latest, traced>>

Next ==
    \/ Reload
    \/ \E v \in Views :
        \/ Mount(v) \/ Load(v) \/ Persist(v) \/ Supersede(v) \/ Begin(v) \/ Finish(v)
        \/ Dispose(v) \/ Close(v)

Spec == Init /\ [][Next]_vars

\* Promise callbacks run, and every database request has a time limit.
Settling(v) == Supersede(v) \/ Begin(v) \/ Finish(v)
Fairness == \A v \in Views : WF_vars(Load(v)) /\ WF_vars(Settling(v)) /\ WF_vars(Close(v))
FairSpec == Spec /\ Fairness

-----------------------------------------------------------------------------
(* Properties.                                                             *)

TypeOK ==
    /\ mirror \in Record /\ marker \in Record /\ database \in Record
    /\ view \in [Views -> [phase : {"gone", "loading", "live", "disposing", "disposed"},
                           generation : Versions, sequence : Versions,
                           cache : Record, open : BOOLEAN, failed : BOOLEAN,
                           queue : Seq([record : Record, mirrored : BOOLEAN]),
                           job : {"none", "transaction", "skipped"}, awaited : Snapshots]]
    /\ mounted \in 0..MaxViews /\ owner \in 0..MaxViews /\ ownerSequence \in Versions
    /\ latest \in Snapshots /\ traced \in BOOLEAN

Loaded(v) == view[v].phase \in {"live", "disposing", "disposed"}

\* "Never advertise it as a current, successful backup": a view that reports no
\* failure has recovered the last snapshot that any view before it was given, unless
\* that was lost with a page that could not even mark it, or was handed to a view whose
\* generation is behind the stored one (its clock was set back and it could not read).
RecoversLatest ==
    \A v \in Views : v = owner /\ Loaded(v) /\ ~view[v].failed /\ traced =>
        view[v].cache.snapshot = latest

\* "Waits for the current backup checkpoint; inspect failed": when nothing is queued
\* and no failure is reported, a reload would recover the last snapshot.
FlushedIsStored ==
    \A v \in Views :
        v = owner /\ Loaded(v) /\ view[v].queue = <<>> /\ ~view[v].failed /\ traced =>
            Newest(mirror, database).snapshot = latest

\* "Prevent an older mirror from resurrecting an acknowledged draft": what a reload
\* would recover is only ever replaced by what was handed in later, whichever views
\* still have queued writes and whatever the clock says.
NothingResurrects ==
    [][Newest(mirror, database).snapshot <= Newest(mirror', database').snapshot]_vars

\* Every backup is settled, also those of superseded and disposed views, so that no
\* flush() or dispose() waits forever once nothing more is handed in.
FlushEnds ==
    <>[](\A v \in Views : view[v].queue = <<>> /\ view[v].phase # "disposing")
=============================================================================
