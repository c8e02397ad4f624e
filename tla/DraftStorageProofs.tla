-------------------------- MODULE DraftStorageProofs --------------------------
(* Proofs about DraftStorage, for any number of snapshots and views and any   *)
(* faults.                                                                    *)
EXTENDS DraftStorage, SequenceTheorems, TLAPS

-----------------------------------------------------------------------------
(* The inductive invariant.                                                 *)

AnyRecord == [owner : Nat, sequence : Nat, snapshot : Nat]
Backups == [record : AnyRecord, mirrored : BOOLEAN]
AnyView == [phase : {"gone", "loading", "live", "disposing", "disposed"},
            generation : Nat, sequence : Nat, cache : AnyRecord,
            open : BOOLEAN, failed : BOOLEAN, queue : Seq(Backups),
            job : {"none", "transaction", "skipped"}, awaited : Nat]

Types ==
    /\ mirror \in AnyRecord /\ marker \in AnyRecord /\ database \in AnyRecord
    /\ view \in [Views -> AnyView]
    /\ \A v \in Views : view[v].job # "none" => view[v].queue # <<>>
    /\ ownerSequence \in Nat /\ latest \in Nat

\* The last snapshot is what a load would recover, or what it would miss.
Recoverable ==
    LET newest == Newest(mirror, database)
    IN  traced => \/ newest.snapshot = latest
                  \/ marker.snapshot = latest /\ IsNewer(marker, newest)

Copies ==
    /\ mirror.snapshot <= latest /\ marker.snapshot <= latest /\ database.snapshot <= latest
    /\ database.snapshot = latest => traced

Queue(v) == view[v].queue
Entries(v) == 1..Len(Queue(v))
Entry(v, i) == Queue(v)[i].record

\* The queue of a view is in the order of its snapshots.
InOrder(v) ==
    \A i \in Entries(v) :
        /\ Entry(v, i).owner = view[v].generation
        /\ Entry(v, i).sequence <= view[v].sequence
        /\ Entry(v, i).snapshot <= latest
        /\ \A j \in Entries(v) : i < j =>
              /\ Entry(v, i).sequence < Entry(v, j).sequence
              /\ Entry(v, i).snapshot < Entry(v, j).snapshot

\* A copy that was handed in after a queued snapshot has a newer version, whatever the
\* clock says; a mirror of a newer version was handed in later.
Comparable(v) ==
    \A i \in Entries(v) :
        /\ mirror.snapshot > Entry(v, i).snapshot <=> IsNewer(mirror, Entry(v, i))
        /\ marker.snapshot > Entry(v, i).snapshot => IsNewer(marker, Entry(v, i))
        /\ database.snapshot > Entry(v, i).snapshot => IsNewer(database, Entry(v, i))
        /\ marker.snapshot = Entry(v, i).snapshot =>
              marker = Entry(v, i) /\ ~Queue(v)[i].mirrored

\* While something is queued, the view has handed in the last snapshot.
Current(v) ==
    /\ view[v].phase \in {"gone", "loading"} => Queue(v) = <<>>
    /\ Queue(v) # <<>> =>
        /\ view[v].cache.snapshot = latest
        /\ traced => Entry(v, Len(Queue(v))).snapshot = latest

\* Nothing is required of a view that has been superseded.
OwnerInv(v) == InOrder(v) /\ Comparable(v) /\ Current(v)

IInv ==
    /\ Types /\ Copies /\ Recoverable
    /\ \A v \in Views : v = owner => OwnerInv(v)
    /\ RecoversLatest /\ FlushedIsStored

-----------------------------------------------------------------------------
(* Types.                                                                   *)

LEMMA BackupType ==
    ASSUME Types, NEW v \in Views, Queue(v) # <<>>
    PROVE  /\ Backup(v) \in Backups /\ Backup(v) = Queue(v)[1]
           /\ Queue(v) \in Seq(Backups) /\ Len(Queue(v)) \in Nat \ {0}
           /\ Tail(Queue(v)) \in Seq(Backups) /\ Len(Tail(Queue(v))) = Len(Queue(v)) - 1
           /\ \A i \in 1..(Len(Queue(v)) - 1) : Tail(Queue(v))[i] = Queue(v)[i + 1]
<1>1. Queue(v) \in Seq(Backups)
  BY DEF Types, AnyView, Queue
<1> QED
  BY <1>1, HeadTailProperties DEF Backup, Queue

LEMMA SettledType ==
    ASSUME Types, NEW v \in Views, Queue(v) # <<>>
    PROVE  /\ Settled(v) \in AnyView
           /\ Settled(v).queue = Tail(Queue(v)) /\ Settled(v).job = "none"
           /\ Settled(v).phase = view[v].phase /\ Settled(v).cache = view[v].cache
           /\ Settled(v).generation = view[v].generation
           /\ Settled(v).sequence = view[v].sequence
           /\ Settled(v).failed = view[v].failed
<1>1. view[v] \in AnyView /\ Tail(Queue(v)) \in Seq(Backups)
  BY BackupType DEF Types
<1>2. (IF view[v].awaited > 0 THEN view[v].awaited - 1 ELSE 0) \in Nat
  BY <1>1 DEF AnyView
<1> QED
  BY <1>1, <1>2, Zenon DEF Settled, AnyView, Queue

\* What a view writes is its own snapshot, or what is there.
LEMMA WrittenType ==
    ASSUME Types, NEW v \in Views, Queue(v) # <<>>
    PROVE  Written(v) \in AnyRecord /\ Written(v) \in {database, Queue(v)[1].record}
  BY BackupType DEF Written, Backups, Types

\* What a load finds.
LEMMA LoadEffect ==
    ASSUME Types, NEW v \in Views, Load(v)
    PROVE  \E loaded \in AnyView :
             /\ view' = [view EXCEPT ![v] = loaded]
             /\ loaded.phase = "live" /\ loaded.queue = view[v].queue
             /\ loaded.job = view[v].job
             /\ ~loaded.failed => /\ loaded.cache = Newest(mirror, database)
                                  /\ ~IsNewer(marker, loaded.cache)
<1>1. PICK opened \in Attempt("open"), read \in Attempt("read"),
           peeked \in Attempt("peek"), marked \in Attempt("peek") :
        LET local == IF peeked THEN mirror ELSE Nothing
            durable == IF opened /\ read THEN database ELSE Nothing
            newest == Newest(local, durable)
        IN  view' = [view EXCEPT ![v] = [view[v] EXCEPT
                !.phase = "live", !.open = opened, !.cache = newest,
                !.failed = ~(opened /\ peeked /\ read /\ marked) \/ IsNewer(marker, newest),
                !.sequence = Larger(view[v].sequence, newest.sequence),
                !.generation = Larger(view[v].generation, newest.owner + 1)]]
  BY DEF Load
<1> DEFINE local == IF peeked THEN mirror ELSE Nothing
           durable == IF opened /\ read THEN database ELSE Nothing
           newest == Newest(local, durable)
           failed == ~(opened /\ peeked /\ read /\ marked) \/ IsNewer(marker, newest)
           sequence == Larger(view[v].sequence, newest.sequence)
           generation == Larger(view[v].generation, newest.owner + 1)
           loaded == [view[v] EXCEPT
                !.phase = "live", !.open = opened, !.cache = newest, !.failed = failed,
                !.sequence = sequence, !.generation = generation]
<1>2. view[v] \in AnyView /\ view' = [view EXCEPT ![v] = loaded]
  <2>1. view[v] \in AnyView
    BY DEF Types
  <2>2. view' = [view EXCEPT ![v] = loaded]
    BY <1>1, Zenon
  <2> QED
    BY <2>1, <2>2
<1>3. opened \in BOOLEAN /\ failed \in BOOLEAN
  BY DEF Attempt
<1>4. newest \in AnyRecord
  BY DEF Newest, Nothing, AnyRecord, Types
<1>5. sequence \in Nat /\ generation \in Nat
  BY <1>2, <1>4 DEF Larger, AnyView, AnyRecord
<1>6. ~failed => newest = Newest(mirror, database) /\ ~IsNewer(marker, newest)
  OBVIOUS
<1> HIDE DEF newest, failed, sequence, generation
<1>7. loaded \in AnyView
  BY <1>2, <1>3, <1>4, <1>5, Zenon DEF AnyView
<1>8. /\ loaded.phase = "live" /\ loaded.queue = view[v].queue /\ loaded.job = view[v].job
      /\ loaded.cache = newest /\ loaded.failed = failed
  BY <1>2, Zenon DEF AnyView
<1> QED
  BY <1>2, <1>6, <1>7, <1>8

\* The record of the next snapshot.
Handed(v) == [owner |-> view[v].generation, sequence |-> view[v].sequence + 1,
              snapshot |-> latest + 1]

LEMMA PersistEffect ==
    ASSUME Types, NEW v \in Views, Persist(v)
    PROVE  /\ owner = v /\ view[v].phase \in {"live", "disposing", "disposed"}
           /\ latest' = latest + 1 /\ database' = database /\ Handed(v) \in AnyRecord
           /\ UNCHANGED page
           /\ \E after \in AnyView :
                /\ view' = [view EXCEPT ![v] = after]
                /\ after.phase = view[v].phase /\ after.job = view[v].job
                /\ after.generation = view[v].generation
                /\ after.sequence = view[v].sequence + 1 /\ after.cache = Handed(v)
                /\ \/ /\ Outdated(Handed(v))
                      /\ after.queue = Queue(v) /\ ~traced' /\ UNCHANGED <<mirror, marker>>
                   \/ /\ ~Outdated(Handed(v))
                      /\ \E trace \in {"mirror", "marker", "none"} :
                            /\ after.queue = Append(Queue(v), [record |-> Handed(v),
                                                               mirrored |-> trace = "mirror"])
                            /\ mirror' = IF trace = "mirror" THEN Handed(v) ELSE mirror
                            /\ marker' = IF trace = "marker" THEN Handed(v) ELSE marker
                            /\ traced' => /\ trace # "none"
                                          /\ IsNewer(Handed(v), Newest(mirror, database))
<1> DEFINE taken == [view[v] EXCEPT !.cache = Handed(v), !.sequence = view[v].sequence + 1]
<1>1. view[v] \in AnyView /\ latest \in Nat
  BY DEF Types
<1>2. Handed(v) \in AnyRecord /\ view[v].sequence + 1 \in Nat /\ Queue(v) \in Seq(Backups)
  BY <1>1 DEF Handed, AnyRecord, AnyView, Queue
<1>3. /\ taken \in AnyView /\ taken.queue = Queue(v) /\ taken.phase = view[v].phase
      /\ taken.job = view[v].job /\ taken.generation = view[v].generation
      /\ taken.sequence = view[v].sequence + 1 /\ taken.cache = Handed(v)
  BY <1>1, <1>2, Zenon DEF AnyView, Queue
<1>4. /\ owner = v /\ view[v].phase \in {"live", "disposing", "disposed"}
      /\ latest' = latest + 1 /\ database' = database /\ UNCHANGED page
      /\ \/ /\ Outdated(Handed(v)) /\ view' = [view EXCEPT ![v] = taken]
            /\ traced' = FALSE /\ UNCHANGED stored
         \/ /\ ~Outdated(Handed(v))
            /\ \E trace \in Traces(v) :
                  /\ mirror' = IF trace = "mirror" THEN Handed(v) ELSE mirror
                  /\ marker' = IF trace = "marker" THEN Handed(v) ELSE marker
                  /\ traced' = (trace # "none" /\ IsNewer(Handed(v), Newest(mirror, database)))
                  /\ view' = [view EXCEPT ![v] = [taken EXCEPT !.queue = Append(
                         view[v].queue, [record |-> Handed(v), mirrored |-> trace = "mirror"])]]
  BY DEF Persist, Handed, stored
<1> HIDE DEF taken
<1>5. CASE Outdated(Handed(v)) /\ view' = [view EXCEPT ![v] = taken]
           /\ traced' = FALSE /\ UNCHANGED stored
  BY <1>2, <1>3, <1>4, <1>5 DEF stored
<1>6. ASSUME ~Outdated(Handed(v)), NEW trace \in Traces(v),
             mirror' = IF trace = "mirror" THEN Handed(v) ELSE mirror,
             marker' = IF trace = "marker" THEN Handed(v) ELSE marker,
             traced' = (trace # "none" /\ IsNewer(Handed(v), Newest(mirror, database))),
             view' = [view EXCEPT ![v] = [taken EXCEPT !.queue = Append(
                         view[v].queue, [record |-> Handed(v), mirrored |-> trace = "mirror"])]]
      PROVE  \E after \in AnyView :
                /\ view' = [view EXCEPT ![v] = after]
                /\ after.phase = view[v].phase /\ after.job = view[v].job
                /\ after.generation = view[v].generation
                /\ after.sequence = view[v].sequence + 1 /\ after.cache = Handed(v)
                /\ \E how \in {"mirror", "marker", "none"} :
                            /\ after.queue = Append(Queue(v), [record |-> Handed(v),
                                                               mirrored |-> how = "mirror"])
                            /\ mirror' = IF how = "mirror" THEN Handed(v) ELSE mirror
                            /\ marker' = IF how = "marker" THEN Handed(v) ELSE marker
                            /\ traced' => /\ how # "none"
                                          /\ IsNewer(Handed(v), Newest(mirror, database))
  <2> DEFINE queue == Append(Queue(v), [record |-> Handed(v), mirrored |-> trace = "mirror"])
             after == [taken EXCEPT !.queue = queue]
  <2>1. [record |-> Handed(v), mirrored |-> trace = "mirror"] \in Backups
    BY <1>2, Zenon DEF Backups
  <2>2. queue \in Seq(Backups)
    BY <1>2, <2>1, AppendProperties
  <2>3. view' = [view EXCEPT ![v] = after]
    BY <1>6 DEF Queue
  <2>4. trace \in {"mirror", "marker", "none"}
    BY <1>6 DEF Traces
  <2> HIDE DEF queue
  <2>5. /\ after \in AnyView /\ after.phase = view[v].phase /\ after.job = view[v].job
        /\ after.generation = view[v].generation /\ after.sequence = view[v].sequence + 1
        /\ after.cache = Handed(v) /\ after.queue = queue
    BY <1>3, <2>2, Zenon DEF AnyView
  <2> HIDE DEF after
  <2> QED
    BY <1>6, <2>3, <2>4, <2>5 DEF queue
<1> QED
  BY <1>2, <1>4, <1>5, <1>6

LEMMA FinishEffect ==
    ASSUME Types, NEW v \in Views, Finish(v)
    PROVE  /\ Queue(v) # <<>> /\ UNCHANGED <<mirror, marker, page, latest>>
           /\ traced' = (traced \/ database'.snapshot = latest)
           /\ database' \in {database, Written(v)}
           /\ \E after \in AnyView :
                /\ view' = [view EXCEPT ![v] = after]
                /\ after.phase = view[v].phase /\ after.job = "none"
                /\ after.generation = view[v].generation /\ after.sequence = view[v].sequence
                /\ after.cache = view[v].cache /\ after.queue = Tail(Queue(v))
                /\ ~after.failed => database' = Written(v) \/ Queue(v)[1].mirrored
<1>1. Queue(v) # <<>>
  BY DEF Finish, Types, Queue
<1>2. PICK durable \in BOOLEAN :
        /\ durable => view[v].job = "transaction" /\ database' = Written(v)
        /\ database' \in {database, Written(v)}
        /\ view' = [view EXCEPT ![v] = [Settled(v) EXCEPT
                        !.failed = ~durable /\ ~Backup(v).mirrored,
                        !.open = view[v].open /\ view[v].phase # "disposed"]]
  BY DEF Finish, Attempt
<1> DEFINE failed == ~durable /\ ~Backup(v).mirrored
           open == view[v].open /\ view[v].phase # "disposed"
           after == [Settled(v) EXCEPT !.failed = failed, !.open = open]
<1>3. /\ failed \in BOOLEAN /\ open \in BOOLEAN /\ view' = [view EXCEPT ![v] = after]
      /\ ~failed => durable \/ Queue(v)[1].mirrored
  BY <1>1, <1>2, BackupType
<1> HIDE DEF failed, open
<1>4. /\ after \in AnyView /\ after.failed = failed
      /\ after.phase = view[v].phase /\ after.job = "none"
      /\ after.generation = view[v].generation /\ after.sequence = view[v].sequence
      /\ after.cache = view[v].cache /\ after.queue = Tail(Queue(v))
  BY <1>1, <1>3, SettledType, Zenon DEF AnyView
<1> HIDE DEF after
<1>5. /\ UNCHANGED <<mirror, marker, page, latest>>
      /\ traced' = (traced \/ database'.snapshot = latest)
  BY DEF Finish
<1> QED
  BY <1>1, <1>2, <1>3, <1>4, <1>5

\* The steps of a view that store nothing.
QuietEffect(v, after) ==
    /\ view' = [view EXCEPT ![v] = after]
    /\ after.generation = view[v].generation /\ after.sequence = view[v].sequence
    /\ after.cache = view[v].cache /\ after.failed = view[v].failed
    /\ \/ after.phase = view[v].phase
       \/ {after.phase, view[v].phase} \subseteq {"live", "disposing", "disposed"}
    /\ after.queue = Queue(v) \/ owner # v
    /\ after.job # "none" => after.queue # <<>>
    /\ UNCHANGED <<stored, page, latest, traced>>

LEMMA QuietView ==
    ASSUME Types, NEW v \in Views, Supersede(v) \/ Begin(v) \/ Dispose(v) \/ Close(v)
    PROVE  \E after \in AnyView : QuietEffect(v, after)
<1>0. /\ view[v] \in AnyView /\ Queue(v) \in Seq(Backups) /\ Len(Queue(v)) \in Nat
      /\ view[v].job # "none" => Queue(v) # <<>>
  BY DEF Types, AnyView, Queue
<1>1. CASE Supersede(v)
  <2>1. /\ Settled(v) \in AnyView /\ view' = [view EXCEPT ![v] = Settled(v)]
        /\ owner # v /\ UNCHANGED <<stored, page, latest, traced>>
    BY <1>1, SettledType DEF Supersede, Queue
  <2>2. QuietEffect(v, Settled(v))
    BY <1>1, <2>1, SettledType DEF Supersede, Queue, QuietEffect
  <2> QED
    BY <2>1, <2>2
<1>2. CASE Begin(v)
  <2>1. PICK opened : /\ opened \in BOOLEAN
                      /\ view' = [view EXCEPT ![v] = [view[v] EXCEPT
                            !.job = IF opened THEN "transaction" ELSE "skipped",
                            !.open = opened]]
    BY <1>0, <1>2 DEF Begin, Attempt, AnyView, Types
  <2> DEFINE job == IF opened THEN "transaction" ELSE "skipped"
             after == [view[v] EXCEPT !.job = job, !.open = opened]
  <2>2. job \in {"none", "transaction", "skipped"}
    OBVIOUS
  <2>3. view' = [view EXCEPT ![v] = after]
    BY <2>1
  <2> HIDE DEF job
  <2>4. /\ after \in AnyView /\ after.queue = Queue(v) /\ after.phase = view[v].phase
        /\ after.generation = view[v].generation /\ after.sequence = view[v].sequence
        /\ after.cache = view[v].cache /\ after.failed = view[v].failed
    BY <1>0, <2>1, <2>2, Zenon DEF AnyView, Queue
  <2> HIDE DEF after
  <2>5. Queue(v) # <<>> /\ UNCHANGED <<stored, page, latest, traced>>
    BY <1>2 DEF Begin, Queue
  <2> QED
    BY <2>3, <2>4, <2>5 DEF QuietEffect
<1>3. CASE Dispose(v)
  <2> DEFINE after == [view[v] EXCEPT !.phase = "disposing", !.awaited = Len(Queue(v))]
  <2>1. view' = [view EXCEPT ![v] = after] /\ view[v].phase = "live"
        /\ UNCHANGED <<stored, page, latest, traced>>
    BY <1>0, <1>3 DEF Dispose, Queue, Types
  <2>2. /\ after \in AnyView /\ after.queue = Queue(v) /\ after.phase = "disposing"
        /\ after.generation = view[v].generation /\ after.sequence = view[v].sequence
        /\ after.cache = view[v].cache /\ after.failed = view[v].failed
        /\ after.job = view[v].job
    BY <1>0, Zenon DEF AnyView, Queue
  <2> HIDE DEF after
  <2> QED
    BY <1>0, <2>1, <2>2 DEF QuietEffect
<1>4. CASE Close(v)
  <2> DEFINE after == [view[v] EXCEPT !.phase = "disposed", !.open = FALSE]
  <2>1. view' = [view EXCEPT ![v] = after] /\ view[v].phase = "disposing"
        /\ UNCHANGED <<stored, page, latest, traced>>
    BY <1>0, <1>4 DEF Close, Types
  <2>2. /\ after \in AnyView /\ after.queue = Queue(v) /\ after.phase = "disposed"
        /\ after.generation = view[v].generation /\ after.sequence = view[v].sequence
        /\ after.cache = view[v].cache /\ after.failed = view[v].failed
        /\ after.job = view[v].job
    BY <1>0, Zenon DEF AnyView, Queue
  <2> HIDE DEF after
  <2> QED
    BY <1>0, <2>1, <2>2 DEF QuietEffect
<1> QED
  BY <1>1, <1>2, <1>3, <1>4

\* A step replaces one view.
LEMMA ViewType ==
    ASSUME Types, NEW v \in Views, NEW after \in AnyView,
           view' = [view EXCEPT ![v] = after], after.job # "none" => after.queue # <<>>
    PROVE  /\ view' \in [Views -> AnyView] /\ view'[v] = after
           /\ \A w \in Views \ {v} : view'[w] = view[w]
           /\ \A w \in Views : view'[w].job # "none" => view'[w].queue # <<>>
  BY DEF Types

LEMMA QuietStep ==
    ASSUME IInv, NEW v \in Views, Supersede(v) \/ Begin(v) \/ Dispose(v) \/ Close(v)
    PROVE  IInv'
<1>0. Types
  BY DEF IInv
<1>1. PICK after \in AnyView : QuietEffect(v, after)
  BY <1>0, QuietView
<1>2. /\ view' \in [Views -> AnyView] /\ view'[v] = after
      /\ \A w \in Views \ {v} : view'[w] = view[w]
      /\ \A w \in Views : view'[w].job # "none" => view'[w].queue # <<>>
  BY <1>0, <1>1, ViewType DEF QuietEffect
<1>3. UNCHANGED <<mirror, marker, database, mounted, owner, ownerSequence, latest, traced>>
  BY <1>1 DEF QuietEffect, stored, page
<1>4. Types' /\ Copies' /\ Recoverable'
  BY <1>0, <1>2, <1>3 DEF IInv, Types, Copies, Recoverable
<1>5. \A w \in Views : w = owner =>
        /\ view'[w].queue = view[w].queue /\ view'[w].cache = view[w].cache
        /\ view'[w].generation = view[w].generation /\ view'[w].sequence = view[w].sequence
        /\ view'[w].failed = view[w].failed
        /\ view'[w].phase = view[w].phase
           \/ {view'[w].phase, view[w].phase} \subseteq {"live", "disposing", "disposed"}
  BY <1>1, <1>2 DEF QuietEffect, Queue
<1>6. \A w \in Views : w = owner => OwnerInv(w)'
  <2> SUFFICES ASSUME NEW w \in Views, w = owner PROVE OwnerInv(w)'
    BY <1>3
  <2>1. OwnerInv(w) /\ Queue(w)' = Queue(w)
    BY <1>5 DEF IInv, Queue
  <2>2. InOrder(w)'
    BY <1>3, <1>5, <2>1 DEF OwnerInv, InOrder, Entries, Entry
  <2>3. Comparable(w)'
    BY <1>3, <2>1 DEF OwnerInv, Comparable, Entries, Entry
  <2>4. Current(w)'
    BY <1>3, <1>5, <2>1 DEF OwnerInv, Current, Entries, Entry
  <2> QED
    BY <2>2, <2>3, <2>4 DEF OwnerInv
<1>7. RecoversLatest' /\ FlushedIsStored'
  BY <1>3, <1>5 DEF IInv, RecoversLatest, FlushedIsStored, Loaded
<1> QED
  BY <1>3, <1>4, <1>6, <1>7 DEF IInv

-----------------------------------------------------------------------------
(* The other steps.                                                         *)

LEMMA InitIInv == Init => IInv
<1> SUFFICES ASSUME Init PROVE IInv
  OBVIOUS
<1>1. NoView \in AnyView /\ Nothing \in AnyRecord
  BY DEF NoView, Nothing, AnyView, AnyRecord
<1>2. \A v \in Views : v # owner
  BY DEF Init, Views
<1> QED
  BY <1>1, <1>2 DEF Init, IInv, Types, NoView, Nothing, Copies, Recoverable, Newest, IsNewer,
                    RecoversLatest, FlushedIsStored

\* A view that has just been mounted has nothing queued.
LEMMA MountStep ==
    ASSUME IInv, NEW v \in Views, Mount(v)
    PROVE  IInv'
<1> DEFINE after == [NoView EXCEPT !.phase = "loading", !.generation = ownerSequence',
                                   !.sequence = ownerSequence']
<1>1. /\ Types /\ owner' = v /\ view' = [view EXCEPT ![v] = after]
      /\ ownerSequence' = ownerSequence + 1
      /\ UNCHANGED <<mirror, marker, database, latest, traced>>
  BY DEF IInv, Mount, stored
<1>2. ownerSequence' \in Nat
  BY <1>1 DEF Types
<1>3. after \in AnyView /\ after.phase = "loading" /\ after.queue = <<>> /\ after.job = "none"
  <2>1. NoView \in AnyView /\ NoView.queue = <<>> /\ NoView.job = "none"
    BY DEF NoView, Nothing, AnyView, AnyRecord
  <2> QED
    BY <1>2, <2>1, Zenon DEF AnyView
<1> HIDE DEF after
<1>4. /\ view' \in [Views -> AnyView] /\ view'[v] = after
      /\ \A w \in Views : view'[w].job # "none" => view'[w].queue # <<>>
  BY <1>1, <1>3, ViewType
<1>5. Types' /\ Copies' /\ Recoverable'
  BY <1>1, <1>2, <1>4 DEF IInv, Types, Copies, Recoverable
<1>6. OwnerInv(v)'
  <2>1. Entries(v)' = {} /\ Queue(v)' = <<>>
    BY <1>3, <1>4 DEF Entries, Queue
  <2> QED
    BY <2>1 DEF OwnerInv, InOrder, Comparable, Current
<1>7. RecoversLatest' /\ FlushedIsStored'
  BY <1>1, <1>3, <1>4 DEF RecoversLatest, FlushedIsStored, Loaded
<1> QED
  BY <1>1, <1>5, <1>6, <1>7 DEF IInv

LEMMA ReloadStep == IInv /\ Reload => IInv'
<1> SUFFICES ASSUME IInv, Reload PROVE IInv'
  OBVIOUS
<1>1. /\ Types /\ owner' = 0 /\ view' = [w \in Views |-> NoView]
      /\ ownerSequence' \in Nat
      /\ UNCHANGED <<mirror, marker, database, latest, traced>>
  BY DEF IInv, Reload, stored, Types
<1>2. NoView \in AnyView /\ NoView.job = "none"
  BY DEF NoView, Nothing, AnyView, AnyRecord
<1>3. Types' /\ Copies' /\ Recoverable'
  BY <1>1, <1>2 DEF IInv, Types, Copies, Recoverable
<1>4. \A v \in Views : v # owner'
  BY <1>1 DEF Views
<1> QED
  BY <1>3, <1>4 DEF IInv, RecoversLatest, FlushedIsStored

\* A load that reports no failure has read everything, and no marker says otherwise.
LEMMA LoadStep ==
    ASSUME IInv, NEW v \in Views, Load(v)
    PROVE  IInv'
<1>1. Types /\ UNCHANGED <<mirror, marker, database, mounted, owner, ownerSequence, latest, traced>>
  BY DEF IInv, Load, stored, page
<1>2. PICK after \in AnyView :
             /\ view' = [view EXCEPT ![v] = after]
             /\ after.phase = "live" /\ after.queue = view[v].queue
             /\ after.job = view[v].job
             /\ ~after.failed => /\ after.cache = Newest(mirror, database)
                                 /\ ~IsNewer(marker, after.cache)
  BY <1>1, LoadEffect
<1>3. /\ view' \in [Views -> AnyView] /\ view'[v] = after
      /\ \A w \in Views \ {v} : view'[w] = view[w]
      /\ \A w \in Views : view'[w].job # "none" => view'[w].queue # <<>>
  <2>1. after.job # "none" => after.queue # <<>>
    BY <1>1, <1>2 DEF Types
  <2> QED
    BY <1>1, <1>2, <2>1, ViewType
<1>4. Types' /\ Copies' /\ Recoverable'
  BY <1>1, <1>3 DEF IInv, Types, Copies, Recoverable
<1>5. CASE v = owner
  <2>1. Queue(v) = <<>>
    BY <1>5 DEF Load, IInv, OwnerInv, Current
  <2>2. Entries(v)' = {} /\ Queue(v)' = <<>>
    BY <1>2, <1>3, <2>1 DEF Entries, Queue
  <2>3. OwnerInv(v)'
    BY <2>2 DEF OwnerInv, InOrder, Comparable, Current
  <2>4. ~after.failed /\ traced => Newest(mirror, database).snapshot = latest
    BY <1>2 DEF IInv, Recoverable
  <2>5. RecoversLatest' /\ FlushedIsStored'
    BY <1>1, <1>2, <1>3, <1>5, <2>4 DEF RecoversLatest, FlushedIsStored
  <2> QED
    BY <1>1, <1>4, <1>5, <2>3, <2>5 DEF IInv
<1>6. CASE v # owner
  <2>1. \A w \in Views : w = owner => view'[w] = view[w]
    BY <1>3, <1>6
  <2>2. \A w \in Views : w = owner => OwnerInv(w)'
    <3> SUFFICES ASSUME NEW w \in Views, w = owner PROVE OwnerInv(w)'
      OBVIOUS
    <3>1. OwnerInv(w) /\ view'[w] = view[w]
      BY <2>1 DEF IInv
    <3> QED
      BY <1>1, <3>1 DEF OwnerInv, InOrder, Comparable, Current, Entries, Entry, Queue
  <2>3. RecoversLatest' /\ FlushedIsStored'
    BY <1>1, <2>1 DEF IInv, RecoversLatest, FlushedIsStored, Loaded
  <2> QED
    BY <1>1, <1>4, <2>2, <2>3 DEF IInv
<1> QED
  BY <1>5, <1>6

-----------------------------------------------------------------------------
(* A snapshot is handed in, and backed up.                                  *)

LEMMA NewestIsMaximal ==
    ASSUME NEW a \in AnyRecord, NEW b \in AnyRecord
    PROVE  /\ Newest(a, b) \in {a, b}
           /\ ~IsNewer(a, Newest(a, b)) /\ ~IsNewer(b, Newest(a, b))
           /\ Newest(a, b) = a => a = b \/ ~IsNewer(b, a)
  BY DEF Newest, IsNewer, AnyRecord

\* The entries of a queue.
LEMMA EntryType ==
    ASSUME Types, NEW v \in Views
    PROVE  /\ Len(Queue(v)) \in Nat /\ view[v].sequence \in Nat
           /\ \A i \in Entries(v) : /\ Queue(v)[i] \in Backups
                                    /\ Entry(v, i) \in AnyRecord
<1>1. Queue(v) \in Seq(Backups) /\ view[v] \in AnyView
  BY DEF Types, AnyView, Queue
<1>2. \A i \in Entries(v) : Queue(v)[i] \in Backups
  BY <1>1, ElementOfSeq DEF Entries
<1> QED
  BY <1>1, <1>2, LenProperties DEF Entry, Backups, AnyView

LEMMA PersistStep ==
    ASSUME IInv, NEW v \in Views, Persist(v)
    PROVE  IInv'
<1> DEFINE record == Handed(v)
<1>0. Types /\ OwnerInv(v)
  BY DEF IInv, Persist
<1>1. /\ owner = v /\ view[v].phase \in {"live", "disposing", "disposed"}
      /\ latest' = latest + 1 /\ database' = database /\ record \in AnyRecord
      /\ UNCHANGED <<mounted, owner, ownerSequence>>
  BY <1>0, PersistEffect DEF page
<1>2. PICK after \in AnyView :
                /\ view' = [view EXCEPT ![v] = after]
                /\ after.phase = view[v].phase /\ after.job = view[v].job
                /\ after.generation = view[v].generation
                /\ after.sequence = view[v].sequence + 1 /\ after.cache = record
                /\ \/ /\ Outdated(record)
                      /\ after.queue = Queue(v) /\ ~traced' /\ UNCHANGED <<mirror, marker>>
                   \/ /\ ~Outdated(record)
                      /\ \E trace \in {"mirror", "marker", "none"} :
                            /\ after.queue = Append(Queue(v), [record |-> record,
                                                               mirrored |-> trace = "mirror"])
                            /\ mirror' = IF trace = "mirror" THEN record ELSE mirror
                            /\ marker' = IF trace = "marker" THEN record ELSE marker
                            /\ traced' => /\ trace # "none"
                                          /\ IsNewer(record, Newest(mirror, database))
  BY <1>0, PersistEffect
<1>3. /\ record.owner = view[v].generation /\ record.sequence = view[v].sequence + 1
      /\ record.snapshot = latest + 1
  BY DEF Handed
<1>4. view[v] \in AnyView /\ Queue(v) \in Seq(Backups) /\ latest \in Nat
  BY <1>0 DEF Types, AnyView, Queue
<1> HIDE DEF record
<1>5. /\ mirror' \in {mirror, record} /\ marker' \in {marker, record}
      /\ ~IsNewer(mirror', record) \/ (Outdated(record) /\ mirror' = mirror)
      /\ traced' => ~Outdated(record)
  BY <1>1, <1>2 DEF Outdated, IsNewer, AnyRecord
<1>6. Copies'
  BY <1>0, <1>1, <1>3, <1>4, <1>5 DEF IInv, Copies, Types, AnyRecord
<1>7. Recoverable'
  <2> SUFFICES ASSUME traced' PROVE \/ Newest(mirror', database').snapshot = latest'
                                    \/ /\ marker'.snapshot = latest'
                                       /\ IsNewer(marker', Newest(mirror', database'))
    BY DEF Recoverable
  <2>1. PICK trace \in {"mirror", "marker"} :
          /\ mirror' = IF trace = "mirror" THEN record ELSE mirror
          /\ marker' = IF trace = "marker" THEN record ELSE marker
          /\ IsNewer(record, Newest(mirror, database))
    BY <1>2
  <2>2. CASE trace = "marker"
    BY <1>1, <1>3, <2>1, <2>2
  <2>3. CASE trace = "mirror"
    <3>1. IsNewer(record, database)
      BY <1>0, <1>1, <2>1 DEF Newest, IsNewer, Types, AnyRecord
    <3> QED
      BY <1>1, <1>3, <2>1, <2>3, <3>1 DEF Newest
  <2> QED
    BY <2>2, <2>3
<1>8. /\ view' \in [Views -> AnyView] /\ view'[v] = after
      /\ \A w \in Views : view'[w].job # "none" => view'[w].queue # <<>>
  <2>1. after.job # "none" => after.queue # <<>>
    BY <1>0, <1>2, <1>4 DEF Types, Queue
  <2> QED
    BY <1>0, <1>2, <2>1, ViewType
<1>9. Types'
  BY <1>0, <1>1, <1>4, <1>5, <1>8 DEF Types
<1>10. CASE Outdated(record)
  <2>1. /\ Queue(v)' = Queue(v) /\ ~traced' /\ UNCHANGED <<mirror, marker>>
    BY <1>2, <1>8, <1>10 DEF Queue
  <2>2. InOrder(v)'
    <3>1. Entries(v)' = Entries(v) /\ \A i \in Entries(v) : Entry(v, i)' = Entry(v, i)
      BY <2>1 DEF Entries, Entry
    <3>2. /\ view'[v].generation = view[v].generation
          /\ view'[v].sequence = view[v].sequence + 1
      BY <1>2, <1>8
    <3>3. /\ view[v].sequence \in Nat
          /\ \A i \in Entries(v) : Entry(v, i).sequence \in Nat /\ Entry(v, i).snapshot \in Nat
      BY <1>0, EntryType DEF AnyRecord
    <3> QED
      BY <1>0, <1>1, <1>4, <3>1, <3>2, <3>3 DEF OwnerInv, InOrder
  <2>3. Comparable(v)'
    BY <1>0, <1>1, <2>1 DEF OwnerInv, Comparable, Entries, Entry
  <2>4. Current(v)'
    BY <1>1, <1>2, <1>3, <1>8, <2>1 DEF Current
  <2> QED
    BY <1>1, <1>2, <1>3, <1>6, <1>7, <1>8, <1>9, <2>1, <2>2, <2>3, <2>4
    DEF IInv, OwnerInv, RecoversLatest, FlushedIsStored
<1>11. CASE ~Outdated(record)
  <2>1. PICK trace \in {"mirror", "marker", "none"} :
          /\ after.queue = Append(Queue(v), [record |-> record, mirrored |-> trace = "mirror"])
          /\ mirror' = IF trace = "mirror" THEN record ELSE mirror
          /\ marker' = IF trace = "marker" THEN record ELSE marker
    BY <1>2, <1>11
  <2>0. PICK n \in Nat : n = Len(Queue(v))
    BY <1>0, EntryType
  <2>2. /\ n \in Nat /\ Len(Queue(v)') = n + 1 /\ Queue(v)' # <<>>
        /\ Entry(v, n + 1)' = record
        /\ Queue(v)'[n + 1].mirrored <=> trace = "mirror"
        /\ \A i \in 1..n : Queue(v)'[i] = Queue(v)[i]
    <3> DEFINE last == [record |-> record, mirrored |-> trace = "mirror"]
    <3>1. last \in Backups
      BY <1>1, Zenon DEF Backups
    <3>2. last.record = record /\ (last.mirrored <=> trace = "mirror")
      OBVIOUS
    <3> HIDE DEF last
    <3>3. Queue(v)' = Append(Queue(v), last)
      BY <1>8, <2>1 DEF Queue, last
    <3>4. /\ Len(Append(Queue(v), last)) = n + 1
          /\ \A i \in 1..n : Append(Queue(v), last)[i] = Queue(v)[i]
          /\ Append(Queue(v), last)[n + 1] = last
      BY <1>4, <2>0, <3>1, AppendProperties
    <3>5. n \in Nat /\ Append(Queue(v), last) # <<>>
      BY <1>4, <3>1, AppendProperties, LenProperties
    <3> QED
      BY <2>0, <3>2, <3>3, <3>4, <3>5 DEF Entry
  <2>3. /\ Entries(v)' = 1..(n + 1) /\ Entries(v) = 1..n
        /\ \A i \in 1..n : Entry(v, i)' = Entry(v, i) /\ Entry(v, i) \in AnyRecord
    <3>1. Entries(v)' = 1..(n + 1) /\ Entries(v) = 1..n
      BY <2>0, <2>2 DEF Entries
    <3>2. \A i \in 1..n : Entry(v, i)' = Entry(v, i)
      BY <2>2 DEF Entry
    <3> QED
      BY <1>0, <3>1, <3>2, EntryType
  <2>4. \A i \in 1..n : /\ Entry(v, i).owner = record.owner
                        /\ Entry(v, i).sequence < record.sequence
                        /\ Entry(v, i).snapshot < record.snapshot
    <3>1. \A i \in 1..n : /\ Entry(v, i).owner = view[v].generation
                          /\ Entry(v, i).sequence <= view[v].sequence
                          /\ Entry(v, i).snapshot <= latest
      BY <1>0, <2>3 DEF OwnerInv, InOrder
    <3>2. view[v].sequence \in Nat
      BY <1>0, EntryType
    <3> QED
      BY <1>3, <1>4, <2>3, <3>1, <3>2 DEF AnyRecord
  <2>5. InOrder(v)'
    <3>1. view'[v].generation = record.owner /\ view'[v].sequence = record.sequence
      BY <1>2, <1>3, <1>8
    <3>2. \A i, j \in 1..n : i < j => /\ Entry(v, i).sequence < Entry(v, j).sequence
                                       /\ Entry(v, i).snapshot < Entry(v, j).snapshot
      BY <1>0, <2>3 DEF OwnerInv, InOrder
    <3>3. \A i \in 1..n : i # n + 1 /\ i \in Nat
      BY <2>2
    <3>4. 1..(n + 1) = (1..n) \cup {n + 1} /\ n + 1 \in Nat /\ \A i \in 1..n : ~(n + 1 < i)
      BY <2>2
    <3>5. ASSUME NEW i \in 1..(n + 1)
          PROVE  /\ Entry(v, i)'.owner = record.owner
                 /\ Entry(v, i)'.sequence <= record.sequence
                 /\ Entry(v, i)'.snapshot <= latest'
      BY <1>1, <1>3, <2>2, <2>3, <2>4, <3>4 DEF AnyRecord
    <3>6. ASSUME NEW i \in 1..(n + 1), NEW j \in 1..(n + 1), i < j
          PROVE  /\ Entry(v, i)'.sequence < Entry(v, j)'.sequence
                 /\ Entry(v, i)'.snapshot < Entry(v, j)'.snapshot
      <4>1. i \in 1..n
        BY <2>2, <3>6
      <4> QED
        BY <2>2, <2>3, <2>4, <3>2, <3>4, <4>1, <3>6
    <3> QED
      BY <2>3, <3>1, <3>5, <3>6 DEF InOrder
  <2>6. Comparable(v)'
    <3> SUFFICES ASSUME NEW i \in 1..(n + 1)
                 PROVE  /\ mirror'.snapshot > Entry(v, i)'.snapshot <=> IsNewer(mirror', Entry(v, i)')
                        /\ marker'.snapshot > Entry(v, i)'.snapshot => IsNewer(marker', Entry(v, i)')
                        /\ database'.snapshot > Entry(v, i)'.snapshot => IsNewer(database', Entry(v, i)')
                        /\ marker'.snapshot = Entry(v, i)'.snapshot =>
                              marker' = Entry(v, i)' /\ ~Queue(v)'[i].mirrored
      BY <2>3 DEF Comparable
    <3>1. CASE i = n + 1
      <4>1. /\ mirror.snapshot <= latest /\ marker.snapshot <= latest
            /\ database.snapshot <= latest
        BY DEF IInv, Copies
      <4>2. ~IsNewer(mirror', record)
        BY <1>5, <1>11
      <4> QED
        BY <1>0, <1>1, <1>3, <1>4, <1>5, <2>1, <2>2, <3>1, <4>1, <4>2 DEF Types, AnyRecord
    <3>2. CASE i \in 1..n
      <4>1. /\ mirror.snapshot > Entry(v, i).snapshot <=> IsNewer(mirror, Entry(v, i))
            /\ marker.snapshot > Entry(v, i).snapshot => IsNewer(marker, Entry(v, i))
            /\ database.snapshot > Entry(v, i).snapshot => IsNewer(database, Entry(v, i))
            /\ marker.snapshot = Entry(v, i).snapshot =>
                  marker = Entry(v, i) /\ ~Queue(v)[i].mirrored
        BY <1>0, <2>3, <3>2 DEF OwnerInv, Comparable
      <4>2. /\ Entry(v, i)' = Entry(v, i) /\ Queue(v)'[i] = Queue(v)[i]
            /\ Entry(v, i).snapshot < record.snapshot /\ IsNewer(record, Entry(v, i))
        BY <1>1, <2>2, <2>3, <2>4, <3>2 DEF IsNewer, AnyRecord
      <4> QED
        BY <1>1, <1>5, <2>3, <3>2, <4>1, <4>2 DEF AnyRecord
    <3> QED
      BY <2>2, <3>1, <3>2
  <2>7. Current(v)'
    BY <1>1, <1>2, <1>3, <1>8, <2>2 DEF Current
  <2> QED
    BY <1>1, <1>2, <1>3, <1>6, <1>7, <1>8, <1>9, <2>2, <2>5, <2>6, <2>7
    DEF IInv, OwnerInv, RecoversLatest, FlushedIsStored, Queue
<1> QED
  BY <1>10, <1>11

\* Versions are totally ordered.
LEMMA NewerIsOrder ==
    ASSUME NEW a \in AnyRecord, NEW b \in AnyRecord, NEW c \in AnyRecord
    PROVE  /\ ~(IsNewer(a, b) /\ IsNewer(b, a))
           /\ ~IsNewer(a, b) /\ ~IsNewer(b, c) => ~IsNewer(a, c)
  BY DEF IsNewer, AnyRecord

\* A backup that replaces the durable copy is not older than what a load would recover,
\* in versions as in snapshots, or leaves that as it is.
LEMMA BackupRecovered ==
    ASSUME IInv, NEW v \in Views, v = owner, Queue(v) # <<>>,
           ~IsNewer(database, Queue(v)[1].record), database' = Queue(v)[1].record,
           mirror' = mirror
    PROVE  LET backup == Queue(v)[1].record
               before == Newest(mirror, database)
               after == Newest(mirror', database')
           IN  /\ backup \in AnyRecord /\ before \in AnyRecord /\ after \in AnyRecord
               /\ ~IsNewer(backup, after)
               /\ \/ after = before /\ after = mirror
                     /\ mirror.snapshot > backup.snapshot
                  \/ after = backup /\ before.snapshot <= backup.snapshot
<1> DEFINE backup == Queue(v)[1].record
<1>1. Types /\ Comparable(v)
  BY DEF IInv, OwnerInv
<1>2. 1 \in Entries(v) /\ backup = Entry(v, 1)
  BY <1>1, BackupType DEF Entries, Entry
<1>3. backup \in AnyRecord /\ mirror \in AnyRecord /\ database \in AnyRecord
  BY <1>1, <1>2, EntryType DEF Types
<1>4. /\ mirror.snapshot > backup.snapshot <=> IsNewer(mirror, backup)
      /\ database.snapshot > backup.snapshot => IsNewer(database, backup)
  BY <1>1, <1>2 DEF Comparable
<1>5. database' = backup /\ mirror' = mirror /\ ~IsNewer(database, backup)
  OBVIOUS
<1> HIDE DEF backup
<1>6. CASE IsNewer(mirror, backup)
  <2>1. IsNewer(mirror, database)
    BY <1>3, <1>5, <1>6, NewerIsOrder
  <2> QED
    BY <1>3, <1>4, <1>5, <1>6, <2>1, NewerIsOrder DEF Newest, backup
<1>7. CASE ~IsNewer(mirror, backup)
  <2>1. mirror.snapshot <= backup.snapshot /\ database.snapshot <= backup.snapshot
    BY <1>3, <1>4, <1>5, <1>7 DEF AnyRecord
  <2> QED
    BY <1>3, <1>5, <1>7, <2>1, NewerIsOrder DEF Newest, backup
<1> QED
  BY <1>6, <1>7

LEMMA FinishCopies ==
    ASSUME IInv, NEW v \in Views, v = owner, Queue(v) # <<>>,
           database' = Queue(v)[1].record, ~IsNewer(database, Queue(v)[1].record),
           traced' = (traced \/ database'.snapshot = latest),
           UNCHANGED <<mirror, marker, latest>>
    PROVE  Copies' /\ Recoverable'
<1> DEFINE backup == Queue(v)[1].record
           before == Newest(mirror, database)
           after == Newest(mirror', database')
<1>1. Types /\ Copies /\ Recoverable /\ OwnerInv(v)
  BY DEF IInv
<1>2. 1 \in Entries(v) /\ backup = Entry(v, 1)
  BY <1>1, BackupType DEF Entries, Entry
<1>3. /\ backup.snapshot <= latest
      /\ marker.snapshot > backup.snapshot => IsNewer(marker, backup)
  BY <1>1, <1>2 DEF OwnerInv, InOrder, Comparable
<1>4. /\ backup \in AnyRecord /\ before \in AnyRecord /\ after \in AnyRecord
      /\ \/ after = before /\ after = mirror /\ mirror.snapshot > backup.snapshot
         \/ after = backup /\ before.snapshot <= backup.snapshot
  BY BackupRecovered
<1>5. /\ mirror \in AnyRecord /\ marker \in AnyRecord /\ latest \in Nat
      /\ mirror.snapshot <= latest /\ marker.snapshot <= latest
  BY <1>1 DEF Types, Copies
<1>6. database' = backup /\ (traced' => traced \/ backup.snapshot = latest)
      /\ (backup.snapshot = latest => traced')
  OBVIOUS
<1>7. traced => \/ before.snapshot = latest
                \/ marker.snapshot = latest /\ IsNewer(marker, before)
  BY <1>1 DEF Recoverable
<1> HIDE DEF backup, before
<1>8. Copies'
  BY <1>3, <1>5, <1>6 DEF Copies
<1>9. traced' => after.snapshot = latest \/ (marker.snapshot = latest /\ IsNewer(marker, after))
  BY <1>3, <1>4, <1>5, <1>6, <1>7 DEF AnyRecord
<1> QED
  BY <1>8, <1>9 DEF Recoverable

\* The queue without its first entry.
LEMMA TailOrder ==
    ASSUME IInv, NEW v \in Views, v = owner, Queue(v) # <<>>, view' \in [Views -> AnyView],
           Queue(v)' = Tail(Queue(v)), UNCHANGED <<mirror, marker, latest>>,
           view'[v].generation = view[v].generation, view'[v].sequence = view[v].sequence,
           database' \in {database, Queue(v)[1].record}
    PROVE  InOrder(v)' /\ Comparable(v)'
<1>1. Types /\ InOrder(v) /\ Comparable(v)
  BY DEF IInv, OwnerInv
<1>2. PICK n \in Nat : Len(Queue(v)) = n + 1
  <2>1. Len(Queue(v)) - 1 \in Nat /\ Len(Queue(v)) = Len(Queue(v)) - 1 + 1
    BY <1>1, BackupType
  <2> QED
    BY <2>1
<1>3. /\ Entries(v)' = 1..n /\ Entries(v) = 1..(n + 1)
      /\ \A i \in 1..n : Queue(v)'[i] = Queue(v)[i + 1] /\ Entry(v, i)' = Entry(v, i + 1)
  <2>1. Len(Queue(v)') = n /\ \A i \in 1..n : Queue(v)'[i] = Queue(v)[i + 1]
    BY <1>1, <1>2, BackupType
  <2> QED
    BY <1>2, <2>1 DEF Entries, Entry
<1>4. /\ \A i \in 1..n : i + 1 \in 1..(n + 1) /\ 1 < i + 1
      /\ \A i, j \in 1..n : i < j => i + 1 < j + 1
      /\ 1 \in 1..(n + 1)
  OBVIOUS
<1>5. InOrder(v)'
  <2> SUFFICES ASSUME NEW i \in 1..n
               PROVE  /\ Entry(v, i)'.owner = view'[v].generation
                      /\ Entry(v, i)'.sequence <= view'[v].sequence
                      /\ Entry(v, i)'.snapshot <= latest'
                      /\ \A j \in 1..n : i < j =>
                            /\ Entry(v, i)'.sequence < Entry(v, j)'.sequence
                            /\ Entry(v, i)'.snapshot < Entry(v, j)'.snapshot
    BY <1>3 DEF InOrder
  <2>1. /\ Entry(v, i + 1).owner = view[v].generation
        /\ Entry(v, i + 1).sequence <= view[v].sequence
        /\ Entry(v, i + 1).snapshot <= latest
        /\ \A j \in 1..n : i < j =>
              /\ Entry(v, i + 1).sequence < Entry(v, j + 1).sequence
              /\ Entry(v, i + 1).snapshot < Entry(v, j + 1).snapshot
    BY <1>1, <1>3, <1>4 DEF InOrder
  <2> QED
    BY <1>3, <2>1
<1>6. Comparable(v)'
  <2> SUFFICES ASSUME NEW i \in 1..n
               PROVE  /\ mirror'.snapshot > Entry(v, i)'.snapshot <=> IsNewer(mirror', Entry(v, i)')
                      /\ marker'.snapshot > Entry(v, i)'.snapshot => IsNewer(marker', Entry(v, i)')
                      /\ database'.snapshot > Entry(v, i)'.snapshot => IsNewer(database', Entry(v, i)')
                      /\ marker'.snapshot = Entry(v, i)'.snapshot =>
                            marker' = Entry(v, i)' /\ ~Queue(v)'[i].mirrored
    BY <1>3 DEF Comparable
  <2>1. /\ mirror.snapshot > Entry(v, i + 1).snapshot <=> IsNewer(mirror, Entry(v, i + 1))
        /\ marker.snapshot > Entry(v, i + 1).snapshot => IsNewer(marker, Entry(v, i + 1))
        /\ database.snapshot > Entry(v, i + 1).snapshot => IsNewer(database, Entry(v, i + 1))
        /\ marker.snapshot = Entry(v, i + 1).snapshot =>
              marker = Entry(v, i + 1) /\ ~Queue(v)[i + 1].mirrored
    BY <1>1, <1>3, <1>4 DEF Comparable
  <2>2. Queue(v)[1].record.snapshot < Entry(v, i + 1).snapshot
    BY <1>1, <1>3, <1>4 DEF InOrder, Entry
  <2>3. /\ Queue(v)[1].record.snapshot \in Nat /\ Entry(v, i + 1).snapshot \in Nat
    BY <1>1, <1>3, <1>4, EntryType DEF AnyRecord, Backups
  <2>4. database'.snapshot > Entry(v, i + 1).snapshot => IsNewer(database', Entry(v, i + 1))
    BY <2>1, <2>2, <2>3
  <2> QED
    BY <1>3, <2>1, <2>4
<1> QED
  BY <1>5, <1>6

LEMMA TailCurrent ==
    ASSUME IInv, NEW v \in Views, v = owner, Queue(v) # <<>>,
           Queue(v)' = Tail(Queue(v)), latest' = latest,
           view'[v].phase = view[v].phase, view'[v].cache = view[v].cache,
           traced' = (traced \/ database'.snapshot = latest),
           database' \in {database, Queue(v)[1].record}
    PROVE  Current(v)'
<1>1. Types /\ Copies /\ InOrder(v) /\ Current(v)
  BY DEF IInv, OwnerInv
<1>2. view[v].phase \notin {"gone", "loading"} /\ view[v].cache.snapshot = latest
  BY <1>1 DEF Current
<1>3. ASSUME Queue(v)' # <<>>, traced'
      PROVE  Entry(v, Len(Queue(v)))'.snapshot = latest
  <2>1. PICK n \in Nat : n = Len(Queue(v)) - 1
    BY <1>1, BackupType
  <2>2. n # 0 /\ Len(Queue(v)') = n /\ Len(Queue(v)) = n + 1
    BY <1>1, <1>3, <2>1, BackupType, EmptySeq
  <2>3. Queue(v)'[n] = Queue(v)[n + 1]
    BY <1>1, <2>1, <2>2, BackupType
  <2>4. Entry(v, Len(Queue(v)))' = Entry(v, n + 1)
    BY <2>2, <2>3 DEF Entry
  <2>5. CASE traced
    BY <1>1, <2>2, <2>4, <2>5 DEF Current
  <2>6. CASE ~traced
    <3>1. database'.snapshot = latest /\ database.snapshot # latest
      BY <1>1, <1>3, <2>6 DEF Copies
    <3>2. Entry(v, 1).snapshot = latest
      BY <3>1 DEF Entry
    <3>3. 1 \in Entries(v) /\ n + 1 \in Entries(v) /\ 1 < n + 1
      BY <2>2 DEF Entries
    <3>4. Entry(v, 1).snapshot < Entry(v, n + 1).snapshot /\ Entry(v, n + 1).snapshot <= latest
      BY <1>1, <3>3 DEF InOrder
    <3>5. Entry(v, n + 1).snapshot \in Nat /\ latest \in Nat
      BY <1>1, <3>3, EntryType DEF AnyRecord, Types
    <3> QED
      BY <3>2, <3>4, <3>5
  <2> QED
    BY <2>5, <2>6
<1> QED
  BY <1>2, <1>3 DEF Current

\* A view that ends with nothing queued and no failure has the last snapshot stored: its
\* last backup is durable, or mirrored, and then it is not what only a marker tells of.
LEMMA LastBackup ==
    ASSUME IInv, NEW v \in Views, v = owner, Queue(v) # <<>>, Tail(Queue(v)) = <<>>,
           Types', Copies', Recoverable', UNCHANGED <<mirror, marker, latest>>,
           database' = Written(v) \/ Queue(v)[1].mirrored,
           database' \in {database, Written(v)},
           traced' = (traced \/ database'.snapshot = latest), traced'
    PROVE  Newest(mirror', database').snapshot = latest'
<1> DEFINE backup == Queue(v)[1].record
           after == Newest(mirror', database')
<1>1. Types /\ Copies /\ OwnerInv(v)
  BY DEF IInv
<1>2. Len(Queue(v)) = 1 /\ 1 \in Entries(v) /\ backup = Entry(v, 1) /\ backup \in AnyRecord
  <2>1. Len(Queue(v)) = 1
    <3>1. Len(<<>>) = 0
      OBVIOUS
    <3>2. Len(Tail(Queue(v))) = 0
      BY <3>1
    <3>3. Len(Queue(v)) \in Nat /\ Len(Tail(Queue(v))) = Len(Queue(v)) - 1
      BY <1>1, BackupType
    <3> QED
      BY <3>2, <3>3
  <2> QED
    BY <1>1, <2>1, EntryType DEF Entries, Entry
<1>3. marker.snapshot = backup.snapshot => marker = backup /\ ~Queue(v)[1].mirrored
  BY <1>1, <1>2 DEF OwnerInv, Comparable
<1>4. Written(v) = IF IsNewer(database, backup) THEN database ELSE backup
  BY <1>1, BackupType DEF Written
<1>5. backup.snapshot = latest
  <2>1. CASE traced
    BY <1>1, <1>2, <2>1 DEF OwnerInv, Current
  <2>2. CASE ~traced
    BY <1>1, <1>4, <2>2 DEF Copies
  <2> QED
    BY <2>1, <2>2
<1>6. SUFFICES ASSUME marker.snapshot = latest, IsNewer(marker, after) PROVE FALSE
  BY DEF Recoverable
<1>7. marker = backup /\ ~Queue(v)[1].mirrored
  BY <1>3, <1>5, <1>6
<1>8. database' = Written(v) /\ database' \in AnyRecord /\ mirror' \in AnyRecord
  BY <1>7 DEF Types
<1>9. ~IsNewer(database', after) /\ after \in AnyRecord
  BY <1>8, NewestIsMaximal
<1>10. CASE IsNewer(database, backup)
  <2>1. IsNewer(database', backup) /\ IsNewer(backup, after)
    BY <1>4, <1>6, <1>7, <1>8, <1>10
  <2> QED
    BY <1>2, <1>8, <1>9, <2>1, NewerIsOrder DEF IsNewer, AnyRecord
<1>11. CASE ~IsNewer(database, backup)
  BY <1>4, <1>6, <1>7, <1>8, <1>9, <1>11
<1> QED
  BY <1>10, <1>11

LEMMA FinishStep ==
    ASSUME IInv, NEW v \in Views, Finish(v)
    PROVE  IInv'
<1>0. Types /\ Copies /\ Recoverable
  BY DEF IInv
<1>1. /\ Queue(v) # <<>>
      /\ UNCHANGED <<mirror, marker, mounted, owner, ownerSequence, latest>>
      /\ traced' = (traced \/ database'.snapshot = latest)
      /\ database' \in {database, Written(v)}
  BY <1>0, FinishEffect DEF page
<1>2. PICK after \in AnyView :
                /\ view' = [view EXCEPT ![v] = after]
                /\ after.phase = view[v].phase /\ after.job = "none"
                /\ after.generation = view[v].generation /\ after.sequence = view[v].sequence
                /\ after.cache = view[v].cache /\ after.queue = Tail(Queue(v))
                /\ ~after.failed => database' = Written(v) \/ Queue(v)[1].mirrored
  BY <1>0, FinishEffect
<1>3. /\ view' \in [Views -> AnyView] /\ view'[v] = after
      /\ \A w \in Views \ {v} : view'[w] = view[w]
      /\ \A w \in Views : view'[w].job # "none" => view'[w].queue # <<>>
  BY <1>0, <1>2, ViewType
<1>4. Types'
  <2>1. database' \in AnyRecord
    BY <1>0, <1>1, WrittenType DEF Types
  <2> QED
    BY <1>0, <1>1, <1>3, <2>1 DEF Types
<1>5. CASE v # owner
  <2>1. database' = database /\ (traced' <=> traced)
    <3>1. Written(v) = database
      BY <1>5 DEF Written
    <3> QED
      BY <1>0, <1>1, <3>1 DEF Copies
  <2>2. Copies' /\ Recoverable'
    BY <1>0, <1>1, <2>1 DEF Copies, Recoverable
  <2>3. \A w \in Views : w = owner => view'[w] = view[w]
    BY <1>3, <1>5
  <2>4. \A w \in Views : w = owner => OwnerInv(w)'
    <3> SUFFICES ASSUME NEW w \in Views, w = owner PROVE OwnerInv(w)'
      OBVIOUS
    <3>1. OwnerInv(w) /\ view'[w] = view[w]
      BY <2>3 DEF IInv
    <3> QED
      BY <1>1, <2>1, <3>1 DEF OwnerInv, InOrder, Comparable, Current, Entries, Entry, Queue
  <2>5. RecoversLatest' /\ FlushedIsStored'
    BY <1>1, <2>1, <2>3 DEF IInv, RecoversLatest, FlushedIsStored, Loaded
  <2> QED
    BY <1>1, <1>4, <2>2, <2>4, <2>5 DEF IInv
<1>6. CASE v = owner
  <2>1. /\ database' \in {database, Queue(v)[1].record}
        /\ database' # database =>
              database' = Queue(v)[1].record /\ ~IsNewer(database, Queue(v)[1].record)
    BY <1>0, <1>1, BackupType DEF Written
  <2>2. Copies' /\ Recoverable'
    <3>1. CASE database' = database
      <4>1. traced' <=> traced
        BY <1>0, <1>1, <3>1 DEF Copies
      <4> QED
        BY <1>0, <1>1, <3>1, <4>1 DEF Copies, Recoverable
    <3>2. CASE database' # database
      BY <1>1, <1>6, <2>1, <3>2, FinishCopies
    <3> QED
      BY <3>1, <3>2
  <2>3. Queue(v)' = Tail(Queue(v))
    BY <1>2, <1>3 DEF Queue
  <2>4. OwnerInv(v)'
    <3>1. InOrder(v)' /\ Comparable(v)'
      BY <1>1, <1>2, <1>3, <1>6, <2>1, <2>3, TailOrder
    <3>2. Current(v)'
      BY <1>1, <1>2, <1>3, <1>6, <2>1, <2>3, TailCurrent
    <3> QED
      BY <3>1, <3>2 DEF OwnerInv
  <2>5. RecoversLatest'
    <3>1. view'[v].cache.snapshot = latest
      BY <1>1, <1>2, <1>3, <1>6 DEF IInv, OwnerInv, Current
    <3> QED
      BY <1>1, <1>6, <3>1 DEF RecoversLatest
  <2>6. FlushedIsStored'
    <3> SUFFICES ASSUME view'[v].queue = <<>>, ~view'[v].failed, traced'
                 PROVE  Newest(mirror', database').snapshot = latest'
      BY <1>1, <1>6 DEF FlushedIsStored
    <3> QED
      BY <1>1, <1>2, <1>3, <1>4, <1>6, <2>2, LastBackup
  <2> QED
    BY <1>1, <1>4, <1>6, <2>2, <2>4, <2>5, <2>6 DEF IInv
<1> QED
  BY <1>5, <1>6

-----------------------------------------------------------------------------
(* The invariants.                                                          *)

LEMMA Invariance == Spec => []IInv
<1>1. IInv /\ [Next]_vars => IInv'
  <2> SUFFICES ASSUME IInv, [Next]_vars PROVE IInv'
    OBVIOUS
  <2>1. CASE UNCHANGED vars
    BY <2>1 DEF vars, stored, page, IInv, Types, Copies, Recoverable, OwnerInv, InOrder,
                Comparable, Current, Entries, Entry, Queue, RecoversLatest, FlushedIsStored,
                Loaded
  <2> QED
    BY <2>1, ReloadStep, MountStep, LoadStep, PersistStep, FinishStep, QuietStep DEF Next
<1> QED
  BY <1>1, InitIInv, PTL DEF Spec

\* A view that reports no failure has recovered the last snapshot handed in, whatever
\* failed, however late the backups of earlier views come and however often the page ends.
THEOREM LatestIsRecovered == Spec => []RecoversLatest
<1>1. IInv => RecoversLatest
  BY DEF IInv
<1> QED
  BY <1>1, Invariance, PTL

\* When flush() returns and no failure is reported, the last snapshot is stored.
THEOREM FlushStores == Spec => []FlushedIsStored
<1>1. IInv => FlushedIsStored
  BY DEF IInv
<1> QED
  BY <1>1, Invariance, PTL

\* What a reload would recover is never replaced by something that was handed in earlier.
THEOREM NoResurrection == Spec => NothingResurrects
<1> DEFINE Forward == Newest(mirror, database).snapshot <= Newest(mirror', database').snapshot
<1>1. IInv /\ [Next]_vars => [Forward]_vars
  <2> SUFFICES ASSUME IInv, Next PROVE Forward
    BY DEF vars, stored
  <2>0. Types /\ Copies
    BY DEF IInv
  <2>1. /\ mirror \in AnyRecord /\ database \in AnyRecord /\ latest \in Nat
        /\ mirror.snapshot <= latest /\ database.snapshot <= latest
        /\ mirror.snapshot \in Nat /\ database.snapshot \in Nat
    BY <2>0 DEF Types, Copies, AnyRecord
  <2>2. ASSUME UNCHANGED <<mirror, database>> PROVE Forward
    BY <2>1, <2>2 DEF Newest
  <2>3. ASSUME NEW v \in Views, Persist(v) PROVE Forward
    <3>1. /\ Handed(v) \in AnyRecord /\ Handed(v).snapshot = latest + 1 /\ database' = database
          /\ \/ mirror' = mirror
             \/ mirror' = Handed(v) /\ ~IsNewer(mirror, Handed(v))
      BY <2>0, <2>3, PersistEffect DEF Handed, Outdated
    <3>2. CASE mirror' = Handed(v) /\ ~IsNewer(mirror, Handed(v))
      BY <2>1, <3>1, <3>2, NewerIsOrder DEF Newest
    <3> QED
      BY <2>2, <3>1, <3>2
  <2>4. ASSUME NEW v \in Views, Finish(v) PROVE Forward
    <3>1. /\ Queue(v) # <<>> /\ mirror' = mirror
          /\ \/ database' = database
             \/ /\ v = owner /\ database' = Queue(v)[1].record
                /\ ~IsNewer(database, Queue(v)[1].record)
      BY <2>0, <2>4, FinishEffect, BackupType DEF Written
    <3>2. CASE /\ v = owner /\ database' = Queue(v)[1].record
               /\ ~IsNewer(database, Queue(v)[1].record)
      BY <3>1, <3>2, BackupRecovered DEF AnyRecord
    <3> QED
      BY <2>2, <3>1, <3>2
  <2> QED
    BY <2>2, <2>3, <2>4
    DEF Next, Reload, Mount, Load, Supersede, Begin, Dispose, Close, stored
<1> QED
  BY <1>1, Invariance, PTL DEF Spec, NothingResurrects
=============================================================================
