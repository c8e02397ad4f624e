------------------------------ MODULE TableSync ------------------------------
(***************************************************************************)
(* Collaborative editing of one spreadsheet: the sessions of several       *)
(* browser tabs (app/stores/TableCollaborationSession.ts), the transaction *)
(* that reads or commits their changes (server/commands/                   *)
(* tableCollaborativeUpdater.ts), and the requests, answers and crashes    *)
(* between them.                                                           *)
(*                                                                         *)
(* A Yjs document is the set of edits it contains: merging is union, a     *)
(* state vector is the set it covers.  An edit is exclusive if it is one   *)
(* of the range moves, reorderings, merges or sheet operations that are    *)
(* guarded by an exact revision.  Titles, undo stacks and presence are     *)
(* left out: an undo is one more edit.                                     *)
(***************************************************************************)
EXTENDS Integers, Sequences, FiniteSets, SequencesExt

CONSTANTS
    Clients,        \* browser tabs
    MaxEdits,       \* bound: edits made
    MaxOutside,     \* bound: commits by the document API
    MaxOpens,       \* bound: how often a tab is opened
    MaxLosses,      \* bound: failed requests
    MaxReceipts,    \* the limit of 256 saveReceipts
    Gaps            \* which delays are explored: "capture" (from a command to its
                    \* capture), "late" (of a lost request, past its sender's next
                    \* update)

ASSUME BoundsAssumption ==
    /\ MaxEdits \in Nat /\ MaxOutside \in Nat /\ MaxOpens \in Nat /\ MaxLosses \in Nat
    /\ MaxReceipts \in Nat \ {0}
    /\ Gaps \subseteq {"capture", "late"}

Edits == 1..MaxEdits
MaxRev == 1 + MaxEdits + MaxOutside

VARIABLES
    record,    \* the TableCollaboration row: [epoch (its ID, 0 = no row), state,
               \* barrier, receipts], and the last ID given out
    rev,       \* documents.revisionCount
    tab,       \* the session of each tab
    draft,     \* the recovery copy of each tab, in browser storage
    call,      \* the request each session awaits
    stray,     \* updates whose sender has given up waiting
    edit,      \* history: the edits, by whom, in which view, committed when
    opens, losses, outside

vars == <<record, rev, tab, draft, call, stray, edit, opens, losses, outside>>
server == <<record, rev>>
bounds == <<opens, losses, outside>>

Revs == 0..MaxRev                       \* 0 stands for undefined
Epochs == 0..(1 + MaxOutside)
Request == [client : Clients \X (0..MaxOpens), epoch : Epochs, update : SUBSET Edits,
            base : Revs, excl : Revs]
NoSave == [client |-> <<>>, epoch |-> 0, update |-> {}, base |-> 0, excl |-> 0]

\* newer: edits were captured since `save` was built (sequence > save.sequence, or
\* > acknowledged); newExcl: exclusiveGeneration grew since then.
Session == [phase : {"closed", "loading", "open"}, id : 0..MaxOpens, epoch : Epochs,
            doc : SUBSET Edits, vector : SUBSET Edits, view : SUBSET Edits,
            viewEpoch : Epochs, base : Revs, viewRev : Revs, pending : Revs, excl : Revs,
            save : Request \cup {NoSave}, newer : BOOLEAN, newExcl : BOOLEAN,
            conflict : BOOLEAN, command : {"none", "plain", "exclusive"}]

Closed == [phase |-> "closed", id |-> 0, epoch |-> 0, doc |-> {}, vector |-> {}, view |-> {},
           viewEpoch |-> 0, base |-> 0, viewRev |-> 0, pending |-> 0, excl |-> 0,
           save |-> NoSave, newer |-> FALSE, newExcl |-> FALSE,
           conflict |-> FALSE, command |-> "none"]

NoDraft == [id |-> 0, epoch |-> 0, doc |-> {}, base |-> 0, excl |-> 0, viewRev |-> 0,
            newer |-> FALSE, newExcl |-> FALSE, save |-> NoSave]
NoAnswer == [ok |-> FALSE, epoch |-> 0, rev |-> 0, barrier |-> 0, state |-> {},
             previous |-> 0, acked |-> 0]
NoCall == [kind |-> "none", answered |-> FALSE, answer |-> NoAnswer]
Sent(kind) == [kind |-> kind, answered |-> FALSE, answer |-> NoAnswer]

Draft == [id : 0..MaxOpens, epoch : Epochs, doc : SUBSET Edits, base : Revs, excl : Revs,
          viewRev : Revs, newer : BOOLEAN, newExcl : BOOLEAN, save : Request \cup {NoSave}]

Init ==
    /\ record = [epoch |-> 0, state |-> {}, barrier |-> 0, receipts |-> <<>>, last |-> 0]
    /\ rev = 1
    /\ tab = [c \in Clients |-> Closed]
    /\ draft = [c \in Clients |-> NoDraft]
    /\ call = [c \in Clients |-> NoCall]
    /\ stray = {}
    /\ edit = <<>>
    /\ opens = 0 /\ losses = 0 /\ outside = 0

Dirty(s) == s.save # NoSave \/ s.newer
PendingOrBase(s) == IF s.pending # 0 THEN s.pending ELSE s.base

\* persistDraft(): the copy is removed once nothing is pending.
Persist(c, s) ==
    draft' = [draft EXCEPT ![c] =
        IF s.epoch = 0 THEN @
        ELSE IF ~Dirty(s) /\ ~s.conflict THEN NoDraft
        ELSE [id |-> s.id, epoch |-> s.epoch, doc |-> s.doc, base |-> PendingOrBase(s),
              excl |-> s.excl, viewRev |-> s.viewRev, newer |-> s.newer,
              newExcl |-> s.newExcl, save |-> s.save]]

Become(c, s) == tab' = [tab EXCEPT ![c] = s]
Working(c) == tab[c].phase = "open" /\ ~tab[c].conflict

\* Bound: a command under way counts as the edit it will be captured as.
Room == Len(edit) + Cardinality({c \in Clients : tab[c].command # "none"}) < MaxEdits

-----------------------------------------------------------------------------
(* Editing.                                                                *)

\* track(): an exclusive command remembers the revision that is displayed.
Tracked(s, exclusive) ==
    IF exclusive
    THEN [s EXCEPT !.excl = IF @ = 0 THEN s.viewRev ELSE @, !.newExcl = TRUE]
    ELSE s

\* capture() and handleUpdate(): the difference between two snapshots of the view
\* goes into the shared document, whatever that contains by now.
Captured(s, e) ==
    [s EXCEPT !.doc = @ \cup {e}, !.view = @ \cup {e}, !.newer = TRUE, !.command = "none",
              !.pending = IF @ = 0 THEN s.viewRev ELSE @]

CaptureAs(c, s, exclusive) ==
    LET e == Len(edit) + 1
        t == Captured(s, e)
    IN  /\ e \in Edits
        /\ edit' = Append(edit, [by |-> c, exclusive |-> exclusive, view |-> s.view,
                                 viewEpoch |-> s.viewEpoch, epoch |-> s.epoch, at |-> 0])
        /\ Become(c, t)
        /\ Persist(c, t)
        /\ UNCHANGED <<server, call, stray, bounds>>

\* A command and its capture in one task: an undo or redo, a resource change, or
\* a command whose capture timer fires before anything else.
Edit(c, exclusive) ==
    /\ Working(c) /\ tab[c].command = "none" /\ Room
    /\ CaptureAs(c, Tracked(tab[c], exclusive), exclusive)

\* onCommandExecuted: the capture follows in a timer of 0 ms.
Track(c, exclusive) ==
    /\ "capture" \in Gaps
    /\ Working(c) /\ tab[c].command = "none" /\ Room
    /\ Become(c, [Tracked(tab[c], exclusive) EXCEPT
                     !.command = IF exclusive THEN "exclusive" ELSE "plain"])
    /\ UNCHANGED <<server, draft, call, stray, edit, bounds>>

Capture(c) ==
    /\ Working(c) /\ tab[c].command # "none"
    /\ CaptureAs(c, tab[c], tab[c].command = "exclusive")

\* initialize(): the view displays the shared document, unless a cell is being
\* edited or a command awaits its capture.
Initialized(s) == [s EXCEPT !.view = s.doc, !.viewEpoch = s.epoch, !.viewRev = s.base]

Display(c) ==
    /\ Working(c) /\ tab[c].command = "none"
    /\ Become(c, Initialized(tab[c]))
    /\ UNCHANGED <<server, draft, call, stray, edit, bounds>>

-----------------------------------------------------------------------------
(* Sending.                                                                *)

\* save(): build the request once, and store it before it is sent.
Saving(c, s) ==
    IF s.save # NoSave THEN s
    ELSE [s EXCEPT !.save = [client |-> <<c, s.id>>, epoch |-> s.epoch,
                             update |-> s.doc \ s.vector, base |-> PendingOrBase(s),
                             excl |-> s.excl],
                   !.newer = FALSE, !.newExcl = FALSE]

\* Mutant: A failed request is not sent again.
SaveOnce(c) ==
    /\ Working(c) /\ call[c] = NoCall /\ tab[c].newer /\ tab[c].save = NoSave
    /\ LET s == Saving(c, tab[c]) IN Become(c, s) /\ Persist(c, s)
    /\ call' = [call EXCEPT ![c] = Sent("update")]
    /\ UNCHANGED <<server, stray, edit, bounds>>

Save(c) ==
    /\ Working(c) /\ call[c] = NoCall /\ Dirty(tab[c])
    /\ LET s == Saving(c, tab[c]) IN Become(c, s) /\ Persist(c, s)
    /\ call' = [call EXCEPT ![c] = Sent("update")]
    /\ UNCHANGED <<server, stray, edit, bounds>>

\* Mutant: refresh() returns early once loaded, as load() does.
AskAtLoad(c) ==
    /\ call[c] = NoCall /\ tab[c].phase = "loading"
    /\ call' = [call EXCEPT ![c] = Sent("info")]
    /\ UNCHANGED <<server, tab, draft, stray, edit, bounds>>

\* load() and refresh(): a pending save is replayed before info is asked for.
Ask(c) ==
    /\ call[c] = NoCall
    /\ tab[c].phase = "loading" \/ (Working(c) /\ tab[c].save = NoSave)
    /\ call' = [call EXCEPT ![c] = Sent("info")]
    /\ UNCHANGED <<server, tab, draft, stray, edit, bounds>>

Open(c) ==
    /\ tab[c].phase = "closed" /\ opens < MaxOpens
    /\ opens' = opens + 1
    /\ Become(c, [Closed EXCEPT !.phase = "loading", !.id = opens'])
    /\ UNCHANGED <<server, draft, call, stray, edit, losses, outside>>

\* The awaited answer of an update that the server may still receive.
Abandon(c) ==
    \/ UNCHANGED stray
    \/ /\ call[c].kind = "update" /\ ~call[c].answered
       /\ stray' = stray \cup {tab[c].save}

\* The tab crashes or is closed: only the draft survives.
Close(c) ==
    /\ tab[c].phase # "closed"
    /\ Abandon(c)
    /\ Become(c, Closed)
    /\ call' = [call EXCEPT ![c] = NoCall]
    /\ UNCHANGED <<server, draft, edit, bounds>>

\* The user discards the local changes, and a new session replaces this one.
Discard(c) ==
    /\ tab[c].phase = "open" /\ tab[c].conflict
    /\ Abandon(c)
    /\ Become(c, Closed)
    /\ draft' = [draft EXCEPT ![c] = NoDraft]
    /\ call' = [call EXCEPT ![c] = NoCall]
    /\ edit' = [e \in DOMAIN edit |-> IF edit[e].by = c /\ edit[e].at = 0
                                      THEN [edit[e] EXCEPT !.at = -1] ELSE edit[e]]
    /\ UNCHANGED <<server, bounds>>

\* Offline, a timeout or a 5xx: the request, or only its answer, is lost.
Lose(c) ==
    /\ call[c] # NoCall /\ losses < MaxLosses
    /\ losses' = losses + 1
    /\ Abandon(c)
    /\ call' = [call EXCEPT ![c] = NoCall]
    /\ IF call[c].kind = "update" THEN Persist(c, tab[c]) ELSE UNCHANGED draft
    /\ UNCHANGED <<server, tab, edit, opens, outside>>

-----------------------------------------------------------------------------
(* The transaction of tableCollaborativeUpdater, under the document's lock. *)

Answer(previous, acked) ==
    [ok |-> TRUE, epoch |-> record'.epoch, rev |-> rev', barrier |-> record'.barrier,
     state |-> record'.state, previous |-> previous, acked |-> acked]

Receipts(q) == {r \in ToSet(record.receipts) : r.request = q}

\* One receipt per editing session; the oldest of the others goes first.
AddReceipt(q, acked) ==
    LET mine == {i \in DOMAIN record.receipts : record.receipts[i].request.client = q.client}
        others == IF mine = {} THEN record.receipts
                  ELSE RemoveAt(record.receipts, CHOOSE i \in mine : TRUE)
        drop == IF Len(others) > MaxReceipts - 1 THEN Len(others) - MaxReceipts + 1 ELSE 0
    IN  Append(SubSeq(others, drop + 1, Len(others)),
               [request |-> q, previous |-> rev, revision |-> acked])

\* Mutant: No barrier: an update may predate an exclusive edit.
RefusedWithoutBarrier(q) ==
    \/ record.epoch = 0 \/ q.epoch # record.epoch
    \/ Receipts(q) = {} /\ q.excl # 0 /\ q.excl # rev

\* Mutant: The epoch is not compared.
RefusedInAnyEpoch(q) ==
    \/ record.epoch = 0
    \/ Receipts(q) = {} /\ (q.base < record.barrier \/ (q.excl # 0 /\ q.excl # rev))

\* Mutant: A replay has to pass the guards again.
RefusedReplay(q) ==
    \/ record.epoch = 0 \/ q.epoch # record.epoch
    \/ q.base < record.barrier \/ (q.excl # 0 /\ q.excl # rev)

\* The guards that a request without a receipt has to pass.
Refused(q) ==
    \/ record.epoch = 0 \/ q.epoch # record.epoch
    \/ Receipts(q) = {} /\ \/ q.base < record.barrier
                           \/ q.excl # 0 /\ q.excl # rev

\* Merge, store and acknowledge in one commit; a receipt makes it a replay.
Commit(q) ==
    LET changed == ~(q.update \subseteq record.state)
        revision == IF changed THEN rev + 1 ELSE rev
    IN  IF Receipts(q) # {}
        THEN UNCHANGED <<record, rev, edit>>
        ELSE /\ rev' = revision
             /\ record' = [record EXCEPT
                    !.state = @ \cup q.update,
                    !.barrier = IF changed /\ q.excl # 0 THEN revision ELSE @,
                    !.receipts = AddReceipt(q, revision)]
             /\ edit' = [e \in DOMAIN edit |->
                           IF e \in q.update /\ edit[e].at \in {0, -1}
                           THEN [edit[e] EXCEPT !.at = revision] ELSE edit[e]]

Update(c) ==
    LET q == tab[c].save IN
    /\ call[c].kind = "update" /\ ~call[c].answered
    /\ IF Refused(q)
       THEN /\ UNCHANGED <<record, rev, edit>>
            /\ call' = [call EXCEPT ![c].answered = TRUE]
       ELSE /\ Commit(q)
            /\ call' = [call EXCEPT ![c].answered = TRUE, ![c].answer =
                   IF Receipts(q) # {}
                   THEN LET r == CHOOSE x \in Receipts(q) : TRUE
                        IN  Answer(r.previous, r.revision)
                   ELSE Answer(rev, rev')]
    /\ stray' = IF "late" \in Gaps THEN stray ELSE {x \in stray : x.client # q.client}
    /\ UNCHANGED <<tab, draft, bounds>>

UpdateStray(q) ==
    /\ q \in stray
    /\ stray' = stray \ {q}
    /\ IF Refused(q) THEN UNCHANGED <<record, rev, edit>> ELSE Commit(q)
    /\ UNCHANGED <<tab, draft, call, bounds>>

\* Without a row for the present snapshot a read starts a new epoch.
Info(c) ==
    /\ call[c].kind = "info" /\ ~call[c].answered
    /\ record' = IF record.epoch # 0 THEN record
                 ELSE [epoch |-> record.last + 1, state |-> {}, barrier |-> 0,
                       receipts |-> <<>>, last |-> record.last + 1]
    /\ UNCHANGED rev
    /\ call' = [call EXCEPT ![c].answered = TRUE, ![c].answer = Answer(0, 0)]
    /\ UNCHANGED <<tab, draft, stray, edit, bounds>>

\* documentUpdater and documentRestorer: a replaced workbook loses its row, which
\* ends the epoch; any other change of the document only advances its revision.
Outside(replaces) ==
    /\ outside < MaxOutside
    /\ outside' = outside + 1
    /\ rev' = rev + 1
    /\ record' = IF replaces
                 THEN [record EXCEPT !.epoch = 0, !.state = {}, !.barrier = 0, !.receipts = <<>>]
                 ELSE record
    /\ UNCHANGED <<tab, draft, call, stray, edit, opens, losses>>

-----------------------------------------------------------------------------
(* Receiving.                                                              *)

\* receive(): the check, and the state after it.
Conflicts(s, a, acknowledged) ==
    \/ s.epoch # 0 /\ s.epoch # a.epoch /\ Dirty(s)
    \/ ~acknowledged /\ Dirty(s) /\ PendingOrBase(s) < a.barrier

Received(s, a) ==
    LET replaced == s.epoch # 0 /\ s.epoch # a.epoch
    IN  [s EXCEPT !.epoch = a.epoch, !.vector = a.state, !.base = a.rev,
                  !.doc = IF replaced THEN a.state ELSE @ \cup a.state,
                  !.excl = IF replaced THEN 0 ELSE @]

\* Mutant: The revisions advance over commits of others, too.
AdvanceAlways(s, previous, revision) ==
    [s EXCEPT !.viewRev = revision, !.excl = IF @ # 0 THEN revision ELSE @]

\* advanceOwnRevision()
Advance(s, previous, revision) ==
    [s EXCEPT !.viewRev = IF @ = previous THEN revision ELSE @,
              !.excl = IF @ # 0 /\ @ = previous THEN revision ELSE @]

\* The end of loadInitial(): the editor is created on the merged document.
Loaded(s) == IF s.phase = "loading"
             THEN [Initialized(s) EXCEPT !.phase = "open"] ELSE s

\* reportError() with a conflict: synchronization stops, the draft is kept.
Fail(c, s) ==
    LET t == [s EXCEPT !.conflict = TRUE, !.phase = "open"]
    IN  Become(c, t) /\ Persist(c, t)

\* Mutant: All edits count as acknowledged, not those of the request.
AcknowledgeAll(c) ==
    LET a == call[c].answer
        s == Advance(tab[c], a.previous, a.acked)
        t == [Received(s, a) EXCEPT
                 !.save = NoSave, !.newer = FALSE, !.excl = 0, !.pending = 0]
    IN  /\ call[c].kind = "update" /\ call[c].answered
        /\ call' = [call EXCEPT ![c] = NoCall]
        /\ IF ~a.ok THEN Fail(c, tab[c])
           ELSE IF Conflicts(s, a, TRUE) THEN Fail(c, s)
           ELSE Persist(c, t) /\ Become(c, Loaded(t))
        /\ UNCHANGED <<server, stray, edit, bounds>>

\* save(): what follows the answer to an update.
Acknowledge(c) ==
    LET a == call[c].answer
        s == Advance(tab[c], a.previous, a.acked)
        t == [Received(s, a) EXCEPT
                 !.save = NoSave,
                 !.excl = IF s.newExcl THEN @ ELSE 0,
                 !.pending = IF s.newer THEN a.rev ELSE 0]
    IN  /\ call[c].kind = "update" /\ call[c].answered
        /\ call' = [call EXCEPT ![c] = NoCall]
        /\ IF ~a.ok THEN Fail(c, tab[c])
           ELSE IF (a.barrier > a.acked /\ s.newer) \/ Conflicts(s, a, TRUE) THEN Fail(c, s)
           ELSE Persist(c, t) /\ Become(c, Loaded(t))
        /\ UNCHANGED <<server, stray, edit, bounds>>

\* read(): the answer to info in an open session.
Refresh(c) ==
    LET a == call[c].answer IN
    /\ tab[c].phase = "open"
    /\ call[c].kind = "info" /\ call[c].answered
    /\ call' = [call EXCEPT ![c] = NoCall]
    /\ IF Conflicts(tab[c], a, FALSE)
       THEN Fail(c, tab[c])
       ELSE Become(c, Received(tab[c], a)) /\ UNCHANGED draft
    /\ UNCHANGED <<server, stray, edit, bounds>>

\* Mutant: Only the request is restored, not that edits followed it.
RestoredRequestOnly(s, d) ==
    IF d = NoDraft THEN s
    ELSE [s EXCEPT !.id = d.id, !.epoch = d.epoch, !.doc = d.doc, !.pending = d.base,
                   !.viewRev = d.viewRev, !.excl = d.excl,
                   !.newer = d.newer /\ d.save = NoSave,
                   !.newExcl = d.newExcl, !.save = d.save]

\* loadInitial(): restore the draft, compare epochs, then replay its request or
\* merge the answer.
Restored(s, d) ==
    IF d = NoDraft THEN s
    ELSE [s EXCEPT !.id = d.id, !.epoch = d.epoch, !.doc = d.doc, !.pending = d.base,
                   !.viewRev = d.viewRev, !.excl = d.excl, !.newer = d.newer,
                   !.newExcl = d.newExcl, !.save = d.save]

Load(c) ==
    LET a == call[c].answer
        s == Restored(tab[c], draft[c])
    IN  /\ tab[c].phase = "loading"
        /\ call[c].kind = "info" /\ call[c].answered
        /\ IF draft[c] # NoDraft /\ s.epoch # a.epoch
           THEN Fail(c, s) /\ call' = [call EXCEPT ![c] = NoCall]
           ELSE IF s.save # NoSave
           THEN Become(c, s) /\ Persist(c, s) /\ call' = [call EXCEPT ![c] = Sent("update")]
           ELSE /\ call' = [call EXCEPT ![c] = NoCall]
                /\ IF Conflicts(s, a, FALSE) THEN Fail(c, s)
                   ELSE Become(c, Loaded(Received(s, a))) /\ UNCHANGED draft
        /\ UNCHANGED <<server, stray, edit, bounds>>

-----------------------------------------------------------------------------
Next ==
    \/ \E c \in Clients :
         \/ \E exclusive \in BOOLEAN : Edit(c, exclusive) \/ Track(c, exclusive)
         \/ Capture(c) \/ Display(c) \/ Save(c) \/ Ask(c) \/ Open(c) \/ Close(c)
         \/ Discard(c) \/ Lose(c) \/ Update(c) \/ Info(c)
         \/ Acknowledge(c) \/ Refresh(c) \/ Load(c)
    \/ \E q \in stray : UpdateStray(q)
    \/ \E replaces \in BOOLEAN : Outside(replaces)

Spec == Init /\ [][Next]_vars

\* The timers of a tab fire, requests are answered, typing in a cell ends; the poll
\* every 15 s repairs lost notices.  Strong for Save: a poll only delays it.
TabFairness(c) ==
    /\ SF_vars(Save(c))
    /\ WF_vars(Ask(c)) /\ WF_vars(Update(c)) /\ WF_vars(Info(c))
    /\ WF_vars(Acknowledge(c)) /\ WF_vars(Refresh(c)) /\ WF_vars(Load(c))
    /\ WF_vars(Capture(c)) /\ WF_vars(Display(c))

FairSpec == Spec /\ \A c \in Clients : TabFairness(c)

-----------------------------------------------------------------------------
(* Properties.                                                             *)

Receipt == [request : Request, previous : Revs, revision : Revs]

TypeOK ==
    /\ record \in [epoch : Epochs, state : SUBSET Edits, barrier : Revs,
                   receipts : Seq(Receipt), last : Epochs]
    /\ rev \in Revs \ {0}
    /\ tab \in [Clients -> Session]
    /\ draft \in [Clients -> Draft]
    /\ \A c \in Clients : call[c].kind \in {"none", "info", "update"}
    /\ stray \subseteq Request

\* No captured edit is ever lost: until it is committed, or the user discards it,
\* the tab's draft holds it, whatever crashes, conflicts and lost answers intervene.
NoEditLost ==
    \A e \in DOMAIN edit : edit[e].at = 0 => e \in draft[edit[e].by].doc

\* "A lost response is recoverable only if reload can replay this exact request":
\* while an update is under way, the draft holds it.
InFlightIsRecoverable ==
    \A c \in Clients : call[c].kind = "update" => draft[c].save = tab[c].save

\* A session that shows nothing pending has had all its edits committed.
CleanIsCommitted ==
    \A c \in Clients :
        Working(c) /\ ~Dirty(tab[c]) =>
            \A e \in DOMAIN edit : edit[e].by = c => edit[e].at # 0

\* The edits made in a view of the workbook they are stored in.
Current == {e \in record.state : edit[e].viewEpoch = record.epoch}

\* "A merged peer commit must never rebase an unseen exclusive operation": of an
\* exclusive edit and any other edit of the workbook, one was made in view of the
\* other.  Edits in a view that was replaced meanwhile are excepted: see below.
ExclusiveIsSerial ==
    \A x, e \in Current :
        x # e /\ edit[x].exclusive => x \in edit[e].view \/ e \in edit[x].view

\* viewRevision is honest: the view displays all that was committed up to it.
ViewIsAtItsRevision ==
    \A c \in Clients :
        Working(c) /\ tab[c].viewEpoch = record.epoch /\ record.epoch # 0 =>
            \A e \in record.state : edit[e].at <= tab[c].viewRev => e \in tab[c].view

\* "Old browser updates must never be merged into the replacement snapshot": no
\* request, however late, and no draft carries an edit from the epoch in which it was
\* captured into a later one.  This is about updates: a session that has adopted the
\* new epoch still captures, and sends, what is typed in the old view until the new
\* one is displayed (`viewEpoch` may differ from the epoch), and no property forbids it.
EpochsStayApart == \A e \in record.state : edit[e].epoch = record.epoch

\* A tab that is alone with its workbook never runs into a conflict with itself: only
\* another tab's edit or a replacement puts one there.
NoSelfConflict ==
    \A c \in Clients :
        tab[c].conflict => outside > 0 \/ \E e \in DOMAIN edit : edit[e].by # c

\* Every edit is in the end committed, unless its tab is closed or stops in a
\* conflict (or the user discards it there): no lost answer, retry, refresh or
\* reload leaves it pending for ever.
EditsAreSettled ==
    \A e \in Edits, c \in Clients :
        LET Pending == e \in DOMAIN edit /\ edit[e].by = c /\ edit[e].at = 0
        IN  Pending ~> (~Pending \/ tab[c].phase = "closed" \/ tab[c].conflict)

\* Every tab that keeps synchronizing ends up displaying what is stored, after any
\* replacement, lost answer or reload.
TabsConverge ==
    <>[](\A c \in Clients :
            tab[c].phase = "closed" \/ tab[c].conflict \/
            (tab[c].view = record.state /\ tab[c].viewEpoch = record.epoch))
=============================================================================
