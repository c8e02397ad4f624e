--------------------------- MODULE TableSyncProofs ---------------------------
(* Proofs about TableSync, for any number of tabs, edits, losses and           *)
(* replacements, and with any delays unless a theorem names one: first that    *)
(* what is committed stays and what is replaced stays out, then that exclusive *)
(* edits are merged safely, and last that a tab which is alone with its        *)
(* workbook is never refused.                                                  *)
EXTENDS TableSync, SequenceTheorems, TLAPS

-----------------------------------------------------------------------------
(* The inductive invariant, of a state that is passed as arguments: ed stands  *)
(* for edit, s, d and k for the session, the draft and the call of the tab c.  *)

AnyEdit == [by : Clients, exclusive : BOOLEAN, view : SUBSET Nat, viewEpoch : Nat,
            epoch : Nat, at : Int]
AnyRequest == [client : (Clients \X Nat) \cup {<<>>}, epoch : Nat, update : SUBSET Nat,
               base : Nat, excl : Nat]
AnyReceipt == [request : AnyRequest, previous : Nat, revision : Nat]
AnySession == [phase : {"closed", "loading", "open"}, id : Nat, epoch : Nat,
               doc : SUBSET Nat, vector : SUBSET Nat, view : SUBSET Nat,
               viewEpoch : Nat, base : Nat, viewRev : Nat, pending : Nat, excl : Nat,
               save : AnyRequest, newer : BOOLEAN, newExcl : BOOLEAN,
               conflict : BOOLEAN, command : {"none", "plain", "exclusive"}]
AnyDraft == [id : Nat, epoch : Nat, doc : SUBSET Nat, base : Nat, excl : Nat,
             viewRev : Nat, newer : BOOLEAN, newExcl : BOOLEAN, save : AnyRequest]
AnyAnswer == [ok : BOOLEAN, epoch : Nat, rev : Nat, barrier : Nat, state : SUBSET Nat,
              previous : Nat, acked : Nat]
AnyCall == [kind : {"none", "info", "update"}, answered : BOOLEAN, answer : AnyAnswer]

\* The edits of c that are neither committed nor discarded.
Pending(ed, c) == {e \in DOMAIN ed : ed[e].by = c /\ ed[e].at = 0}

\* Edits that need no care any more: committed, or discarded by their user.
Settled(ed, S) == \A e \in S : e \in DOMAIN ed /\ ed[e].at # 0

\* What is held in an epoch was captured in it.
Held(ed, S, epoch) ==
    \A e \in S : e \in DOMAIN ed /\ ed[e].epoch = epoch

\* A session that may show its document or send a request.
Active(s) == s.phase = "open" \/ s.save # NoSave

Receipted(ed) == {r \in AnyReceipt : Settled(ed, r.request.update)}
AnyRow(ed) == [epoch : Nat, state : SUBSET Nat, barrier : Nat, receipts : Seq(Receipted(ed)),
               last : Nat]

EditsOK(ed) ==
    /\ ed \in Seq(AnyEdit)
    /\ \A e \in DOMAIN ed : ed[e].epoch # 0

ServerOK(ed, row, revision) ==
    /\ row \in AnyRow(ed)
    /\ row.epoch <= row.last
    /\ revision \in Nat \ {0}
    /\ Settled(ed, row.state) /\ Held(ed, row.state, row.epoch)

\* What is pending is in the document and, if nothing was captured since the request
\* under way was built, in that request.
Covers(ed, c, s) ==
    /\ Pending(ed, c) \subseteq s.doc
    /\ ~s.newer => Pending(ed, c) \subseteq s.save.update

SessionOK(ed, c, s) ==
    /\ s \in AnySession
    /\ Settled(ed, s.vector)
    /\ Held(ed, s.doc, s.epoch) /\ Held(ed, s.save.update, s.save.epoch)
    /\ Dirty(s) \/ s.phase = "open" => s.epoch # 0
    /\ Active(s) => Covers(ed, c, s)

DraftOK(ed, c, d) ==
    /\ d \in AnyDraft
    /\ Held(ed, d.doc, d.epoch) /\ Held(ed, d.save.update, d.save.epoch)
    /\ d # NoDraft => d.epoch # 0
    /\ Covers(ed, c, d)

CallOK(ed, k, s, d) ==
    /\ k \in AnyCall
    /\ k.answer.ok =>
        /\ k.answered
        /\ k.answer.epoch # 0
        /\ Settled(ed, k.answer.state) /\ Held(ed, k.answer.state, k.answer.epoch)
    /\ k.kind = "info" /\ k.answered => k.answer.ok
    /\ k.kind = "update" =>
        /\ s.save # NoSave /\ d.save = s.save
        /\ k.answer.ok => Settled(ed, s.save.update)
    /\ s.phase = "closed" => k = NoCall

TabOK(ed, c, s, d, k) == SessionOK(ed, c, s) /\ DraftOK(ed, c, d) /\ CallOK(ed, k, s, d)

StrayOK(ed, q) == q \in AnyRequest /\ Held(ed, q.update, q.epoch)

Inv ==
    /\ EditsOK(edit)
    /\ ServerOK(edit, record, rev)
    /\ tab \in [Clients -> AnySession]
    /\ draft \in [Clients -> AnyDraft]
    /\ call \in [Clients -> AnyCall]
    /\ \A c \in Clients : TabOK(edit, c, tab[c], draft[c], call[c])
    /\ \A q \in stray : StrayOK(edit, q)

\* What a step may do to the edits others hold: settle them, or add new ones.
Grows(old, new) ==
    \A e \in DOMAIN old :
        /\ e \in DOMAIN new
        /\ new[e].epoch = old[e].epoch
        /\ old[e].at # 0 => new[e].at # 0

Spares(old, new, c) == Grows(old, new) /\ Pending(new, c) \subseteq Pending(old, c)

-----------------------------------------------------------------------------
(* What has been settled or is held stays so.                                *)

LEMMA StaysSettled ==
    ASSUME NEW old, NEW new, Grows(old, new), NEW S, Settled(old, S)
    PROVE  Settled(new, S)
BY DEF Grows, Settled

LEMMA StaysHeld ==
    ASSUME NEW old, NEW new, Grows(old, new), NEW S, NEW epoch, Held(old, S, epoch)
    PROVE  Held(new, S, epoch)
BY DEF Grows, Held

LEMMA ServerSpared ==
    ASSUME NEW old, NEW new, Grows(old, new), NEW row, NEW revision,
           ServerOK(old, row, revision)
    PROVE  ServerOK(new, row, revision)
<1>1. Receipted(old) \subseteq Receipted(new)
  BY StaysSettled DEF Receipted
<1>2. Seq(Receipted(old)) \subseteq Seq(Receipted(new))
  BY <1>1, SeqMonotonic
<1>3. row \in AnyRow(new)
  BY <1>2 DEF ServerOK, AnyRow
<1> QED BY <1>3, StaysSettled, StaysHeld DEF ServerOK

\* The fields of the row.
LEMMA RowFacts ==
    ASSUME NEW ed, NEW row, NEW revision, ServerOK(ed, row, revision)
    PROVE  /\ row.epoch \in Nat /\ row.state \in SUBSET Nat /\ row.barrier \in Nat
           /\ row.last \in Nat /\ row.epoch <= row.last /\ revision \in Nat
           /\ row.receipts \in Seq(Receipted(ed))
           /\ Settled(ed, row.state) /\ Held(ed, row.state, row.epoch)
BY DEF ServerOK, AnyRow

LEMMA TabSpared ==
    ASSUME NEW old, NEW new, NEW c, Spares(old, new, c), NEW s, NEW d, NEW k,
           TabOK(old, c, s, d, k)
    PROVE  TabOK(new, c, s, d, k)
<1> USE StaysSettled, StaysHeld DEF Spares, TabOK
<1>1. SessionOK(new, c, s)
  BY DEF SessionOK, Covers
<1>2. DraftOK(new, c, d)
  BY DEF DraftOK, Covers
<1>3. CallOK(new, k, s, d)
  BY DEF CallOK
<1> QED BY <1>1, <1>2, <1>3

-----------------------------------------------------------------------------
(* What the operators on sessions keep.                                      *)

Kept(s, t) ==
    /\ t.epoch = s.epoch /\ t.doc = s.doc /\ t.vector = s.vector
    /\ t.save = s.save /\ t.newer = s.newer

LEMMA NoSaveType == NoSave \in AnyRequest /\ NoSave.update = {} /\ NoSave.epoch = 0
BY DEF NoSave, AnyRequest

LEMMA NoDraftType == NoDraft \in AnyDraft /\ NoDraft.doc = {} /\ NoDraft.epoch = 0
                     /\ NoDraft.newer = FALSE /\ NoDraft.save = NoSave
BY NoSaveType DEF NoDraft, AnyDraft

LEMMA ClosedType ==
    /\ Closed \in AnySession
    /\ Closed.phase = "closed" /\ Closed.epoch = 0 /\ Closed.doc = {} /\ Closed.vector = {}
    /\ Closed.save = NoSave /\ Closed.newer = FALSE
BY NoSaveType DEF Closed, AnySession

LEMMA KeepsOK ==
    ASSUME NEW ed, NEW c, NEW s, NEW t \in AnySession, SessionOK(ed, c, s), Kept(s, t),
           t.phase = s.phase
    PROVE  SessionOK(ed, c, t)
BY DEF SessionOK, Kept, Covers, Active, Dirty

LEMMA PendingOrBaseType ==
    ASSUME NEW s \in AnySession
    PROVE  PendingOrBase(s) \in Nat
BY DEF PendingOrBase, AnySession

LEMMA TrackedKeeps ==
    ASSUME NEW s \in AnySession, NEW exclusive \in BOOLEAN
    PROVE  /\ Tracked(s, exclusive) \in AnySession
           /\ Kept(s, Tracked(s, exclusive)) /\ Tracked(s, exclusive).phase = s.phase
BY DEF Tracked, AnySession, Kept

LEMMA InitializedKeeps ==
    ASSUME NEW s \in AnySession
    PROVE  /\ Initialized(s) \in AnySession
           /\ Kept(s, Initialized(s)) /\ Initialized(s).phase = s.phase
BY DEF Initialized, AnySession, Kept

LEMMA AdvanceKeeps ==
    ASSUME NEW s \in AnySession, NEW previous \in Nat, NEW revision \in Nat
    PROVE  /\ Advance(s, previous, revision) \in AnySession
           /\ Kept(s, Advance(s, previous, revision))
           /\ Advance(s, previous, revision).phase = s.phase
BY DEF Advance, AnySession, Kept

LEMMA LoadedKeeps ==
    ASSUME NEW s \in AnySession
    PROVE  /\ Loaded(s) \in AnySession /\ Kept(s, Loaded(s))
           /\ Loaded(s).phase = IF s.phase = "loading" THEN "open" ELSE s.phase
<1>1. ASSUME s.phase = "loading"
      PROVE  Loaded(s) \in AnySession /\ Kept(s, Loaded(s)) /\ Loaded(s).phase = "open"
  BY <1>1 DEF Loaded, Initialized, AnySession, Kept
<1>2. ASSUME s.phase # "loading"
      PROVE  Loaded(s) = s
  BY <1>2 DEF Loaded
<1> QED BY <1>1, <1>2 DEF Kept

\* A captured edit is in the document, and known to be newer than any request.
LEMMA CapturedType ==
    ASSUME NEW s \in AnySession, NEW e \in Nat
    PROVE  LET t == Captured(s, e)
           IN  /\ t \in AnySession
               /\ t.doc = s.doc \cup {e} /\ t.newer = TRUE
               /\ t.epoch = s.epoch /\ t.vector = s.vector /\ t.save = s.save
               /\ t.phase = s.phase
BY DEF Captured, AnySession

LEMMA ReceivedType ==
    ASSUME NEW s \in AnySession, NEW a \in AnyAnswer
    PROVE  LET t == Received(s, a)
           IN  /\ t \in AnySession
               /\ t.epoch = a.epoch /\ t.vector = a.state
               /\ t.doc = IF s.epoch # 0 /\ s.epoch # a.epoch THEN a.state
                          ELSE s.doc \cup a.state
               /\ t.save = s.save /\ t.newer = s.newer /\ t.phase = s.phase
BY DEF Received, AnySession, AnyAnswer

\* The request of a session is built from what the server is not known to have.
LEMMA SavingType ==
    ASSUME NEW c \in Clients, NEW s \in AnySession, s.save = NoSave, s.epoch # 0
    PROVE  LET t == Saving(c, s)
           IN  /\ t \in AnySession
               /\ t.save \in AnyRequest /\ t.save # NoSave
               /\ t.save.update = s.doc \ s.vector /\ t.save.epoch = s.epoch
               /\ t.newer = FALSE
               /\ t.epoch = s.epoch /\ t.doc = s.doc /\ t.vector = s.vector
               /\ t.phase = s.phase
<1> DEFINE q == [client |-> <<c, s.id>>, epoch |-> s.epoch, update |-> s.doc \ s.vector,
                 base |-> PendingOrBase(s), excl |-> s.excl]
<1>1. q \in AnyRequest
  BY PendingOrBaseType DEF AnyRequest, AnySession
<1>2. q # NoSave
  <2>1. q.epoch # NoSave.epoch
    BY NoSaveType
  <2> QED BY <2>1
<1>3. Saving(c, s) = [s EXCEPT !.save = q, !.newer = FALSE, !.newExcl = FALSE]
  BY DEF Saving
<1> HIDE DEF q
<1>4. Saving(c, s) \in AnySession /\ Saving(c, s).save = q
  BY <1>1, <1>3 DEF AnySession
<1>5. q.update = s.doc \ s.vector /\ q.epoch = s.epoch
  BY DEF q
<1> QED BY <1>1, <1>2, <1>3, <1>4, <1>5 DEF AnySession

LEMMA SavingOK ==
    ASSUME NEW ed, NEW c \in Clients, NEW s, SessionOK(ed, c, s), s.phase = "open"
    PROVE  LET t == Saving(c, s)
           IN  SessionOK(ed, c, t) /\ t.save # NoSave /\ t.phase = "open"
<1>1. CASE s.save # NoSave
  <2>1. Saving(c, s) = s
    BY <1>1 DEF Saving
  <2> QED BY <1>1, <2>1
<1>2. CASE s.save = NoSave
  <2> DEFINE t == Saving(c, s)
  <2>1. s \in AnySession /\ s.epoch # 0 /\ Covers(ed, c, s)
    BY DEF SessionOK, Active
  <2>2. /\ t \in AnySession
        /\ t.save \in AnyRequest /\ t.save # NoSave
        /\ t.save.update = s.doc \ s.vector /\ t.save.epoch = s.epoch
        /\ t.newer = FALSE
        /\ t.epoch = s.epoch /\ t.doc = s.doc /\ t.vector = s.vector
        /\ t.phase = s.phase
    BY <1>2, <2>1, SavingType
  <2> HIDE DEF t
  <2>3. Pending(ed, c) \subseteq s.doc \ s.vector
    BY <2>1 DEF SessionOK, Covers, Settled, Pending
  <2>4. Covers(ed, c, t)
    BY <2>1, <2>2, <2>3 DEF Covers
  <2>5. Held(ed, t.save.update, t.save.epoch)
    BY <2>2 DEF SessionOK, Held
  <2> QED BY <2>1, <2>2, <2>4, <2>5 DEF SessionOK, t
<1> QED BY <1>1, <1>2

\* A restored session holds what its draft does.
LEMMA RestoredOK ==
    ASSUME NEW ed, NEW c, NEW s, NEW d, SessionOK(ed, c, s), DraftOK(ed, c, d)
    PROVE  LET t == Restored(s, d)
           IN  /\ t \in AnySession /\ SessionOK(ed, c, t)
               /\ Covers(ed, c, t) \/ d = NoDraft
               /\ d # NoDraft => t.epoch # 0
               /\ t.phase = s.phase
<1>1. CASE d = NoDraft
  BY <1>1 DEF Restored, SessionOK
<1>2. CASE d # NoDraft
  <2> DEFINE t == Restored(s, d)
  <2>1. s \in AnySession /\ d \in AnyDraft /\ d.epoch # 0
    BY <1>2 DEF SessionOK, DraftOK
  <2>2. /\ t \in AnySession
        /\ t.epoch = d.epoch /\ t.doc = d.doc /\ t.save = d.save /\ t.newer = d.newer
        /\ t.vector = s.vector /\ t.phase = s.phase
    BY <1>2, <2>1 DEF Restored, AnySession, AnyDraft
  <2> HIDE DEF t
  <2>3. Covers(ed, c, t)
    BY <2>2 DEF DraftOK, Covers
  <2> QED BY <2>1, <2>2, <2>3 DEF SessionOK, DraftOK, t
<1> QED BY <1>1, <1>2

\* A draft that is written covers what is pending; none is written when nothing is.
LEMMA PersistOK ==
    ASSUME NEW ed, NEW c \in Clients, NEW s, SessionOK(ed, c, s), Covers(ed, c, s),
           s.epoch # 0, draft \in [Clients -> AnyDraft], Persist(c, s)
    PROVE  /\ draft' \in [Clients -> AnyDraft]
           /\ DraftOK(ed, c, draft'[c])
           /\ \A x \in Clients \ {c} : draft'[x] = draft[x]
           /\ Dirty(s) => draft'[c].save = s.save
<1> DEFINE d == [id |-> s.id, epoch |-> s.epoch, doc |-> s.doc, base |-> PendingOrBase(s),
                 excl |-> s.excl, viewRev |-> s.viewRev, newer |-> s.newer,
                 newExcl |-> s.newExcl, save |-> s.save]
           n == IF ~Dirty(s) /\ ~s.conflict THEN NoDraft ELSE d
<1>1. draft' = [draft EXCEPT ![c] = n]
  BY DEF Persist
<1>2. s \in AnySession
  BY DEF SessionOK
<1>3. d \in AnyDraft
  BY <1>2, PendingOrBaseType DEF AnyDraft, AnySession
<1>4. d.epoch = s.epoch /\ d.doc = s.doc /\ d.newer = s.newer /\ d.save = s.save
  OBVIOUS
<1>5. n \in AnyDraft
  BY <1>3, NoDraftType
<1>6. DraftOK(ed, c, n)
  <2>1. CASE ~Dirty(s) /\ ~s.conflict
    <3>1. Pending(ed, c) = {}
      BY <2>1, NoSaveType DEF Dirty, Covers
    <3> QED BY <2>1, <3>1, NoDraftType, NoSaveType DEF DraftOK, Covers, Held
  <2>2. CASE Dirty(s) \/ s.conflict
    <3>1. n = d
      BY <2>2
    <3> HIDE DEF d, n
    <3> QED BY <3>1, <1>3, <1>4 DEF SessionOK, DraftOK, Covers
  <2> QED BY <2>1, <2>2
<1>7. Dirty(s) => n.save = s.save
  BY <1>4
<1> HIDE DEF d, n
<1> QED BY <1>1, <1>5, <1>6, <1>7
-----------------------------------------------------------------------------
(* The transaction.                                                          *)

Marks(ed, S, n, new) ==
    new = [e \in DOMAIN ed |-> IF e \in S THEN [ed[e] EXCEPT !.at = n] ELSE ed[e]]

\* Settling edits leaves everything else of them alone.
LEMMA MarkedOK ==
    ASSUME NEW ed, EditsOK(ed), NEW S, NEW n \in Int \ {0}, NEW new,
           Marks(ed, S, n, new)
    PROVE  /\ EditsOK(new) /\ DOMAIN new = DOMAIN ed /\ Grows(ed, new)
           /\ \A e \in DOMAIN ed : /\ new[e].by = ed[e].by
                                   /\ e \in S => new[e].at # 0
                                   /\ e \notin S => new[e].at = ed[e].at
<1>1. ed \in Seq(AnyEdit) /\ Len(ed) \in Nat /\ DOMAIN ed = 1..Len(ed)
  BY LenProperties DEF EditsOK
<1>2. \A e \in 1..Len(ed) : ed[e] \in AnyEdit
  BY <1>1, ElementOfSeq
<1>3. \A r \in AnyEdit : /\ [r EXCEPT !.at = n] \in AnyEdit
                         /\ [r EXCEPT !.at = n].epoch = r.epoch
                         /\ [r EXCEPT !.at = n].by = r.by /\ [r EXCEPT !.at = n].at = n
  BY DEF AnyEdit
<1>4. \A e \in DOMAIN ed : /\ new[e] \in AnyEdit
                           /\ new[e].epoch = ed[e].epoch /\ new[e].by = ed[e].by
                           /\ e \in S => new[e].at # 0
                           /\ e \notin S => new[e].at = ed[e].at
  BY <1>1, <1>2, <1>3 DEF Marks
<1>5. new \in Seq(AnyEdit) /\ DOMAIN new = DOMAIN ed
  <2>1. new \in [1..Len(ed) -> AnyEdit]
    BY <1>1, <1>4 DEF Marks
  <2> QED BY <1>1, <2>1, SeqDef
<1>6. Grows(ed, new)
  <2>1. \A e \in DOMAIN ed : ed[e].at # 0 => new[e].at # 0
    BY <1>4
  <2> QED BY <1>4, <1>5, <2>1 DEF Grows
<1> QED BY <1>4, <1>5, <1>6 DEF EditsOK

LEMMA ReceiptsAdded ==
    ASSUME NEW S, record.receipts \in Seq(S), NEW q, NEW acked,
           [request |-> q, previous |-> rev, revision |-> acked] \in S
    PROVE  /\ AddReceipt(q, acked) \in Seq(S)
           /\ [request |-> q, previous |-> rev, revision |-> acked]
                 \in ToSet(AddReceipt(q, acked))
<1> DEFINE all == record.receipts
           mine == {i \in DOMAIN all : all[i].request.client = q.client}
           j == CHOOSE i \in mine : TRUE
           others == IF mine = {} THEN all ELSE RemoveAt(all, j)
           drop == IF Len(others) > MaxReceipts - 1 THEN Len(others) - MaxReceipts + 1 ELSE 0
<1>1. others \in Seq(S)
  <2>1. CASE mine = {}
    BY <2>1
  <2>2. CASE mine # {}
    <3>1. j \in 1..Len(all)
      BY <2>2
    <3>2. \A i \in 1..Len(all) : all[i] \in S
      BY ElementOfSeq
    <3> HIDE DEF j
    <3>3. SubSeq(all, 1, j - 1) \in Seq(S) /\ SubSeq(all, j + 1, Len(all)) \in Seq(S)
      <4>1. j - 1 \in Int /\ j + 1 \in Int /\ Len(all) \in Int
        BY <3>1, LenProperties
      <4>2. \A i \in 1..(j - 1) : all[i] \in S
        BY <3>1, <3>2, LenProperties
      <4>3. \A i \in (j + 1)..Len(all) : all[i] \in S
        BY <3>1, <3>2, LenProperties
      <4>4. SubSeq(all, 1, j - 1) \in Seq(S)
        BY <4>1, <4>2, SubSeqProperties
      <4>5. SubSeq(all, j + 1, Len(all)) \in Seq(S)
        BY <4>1, <4>3, SubSeqProperties
      <4> QED BY <4>4, <4>5
    <3>4. RemoveAt(all, j) \in Seq(S)
      BY <3>3, ConcatProperties DEF RemoveAt
    <3> QED BY <2>2, <3>4
  <2> QED BY <2>1, <2>2
<1> HIDE DEF others
<1>2. Len(others) \in Nat /\ drop \in Nat
  BY <1>1, LenProperties, BoundsAssumption
<1> HIDE DEF drop
<1>3. SubSeq(others, drop + 1, Len(others)) \in Seq(S)
  <2>1. \A i \in (drop + 1)..Len(others) : others[i] \in S
    BY <1>1, <1>2, ElementOfSeq
  <2> QED BY <1>2, <2>1, SubSeqProperties
<1> DEFINE kept == SubSeq(others, drop + 1, Len(others))
           new == [request |-> q, previous |-> rev, revision |-> acked]
<1>4. AddReceipt(q, acked) = Append(kept, new)
  BY DEF AddReceipt, others, drop
<1> HIDE DEF kept, new
<1>5. Append(kept, new) \in Seq(S) /\ new \in ToSet(Append(kept, new))
  <2>1. kept \in Seq(S) /\ new \in S
    BY <1>3 DEF kept, new
  <2>2. /\ Append(kept, new) \in Seq(S) /\ Len(Append(kept, new)) = Len(kept) + 1
        /\ Append(kept, new)[Len(kept) + 1] = new
    BY <2>1, AppendProperties
  <2>3. Len(kept) + 1 \in DOMAIN Append(kept, new)
    BY <2>1, <2>2, LenProperties
  <2> QED
    BY <2>2, <2>3 DEF ToSet
<1> QED BY <1>4, <1>5 DEF new

\* A commit settles its update and puts it into the epoch in which it was made.
LEMMA CommitOK ==
    ASSUME EditsOK(edit), ServerOK(edit, record, rev), NEW q, StrayOK(edit, q),
           ~Refused(q), Commit(q)
    PROVE  /\ EditsOK(edit') /\ ServerOK(edit', record', rev')
           /\ Grows(edit, edit') /\ \A c \in Clients : Spares(edit, edit', c)
           /\ Settled(edit', q.update)
           /\ record'.epoch # 0
<1>1. record.epoch # 0 /\ q.epoch = record.epoch
  BY DEF Refused
<1>2. CASE Receipts(q) # {}
  <2>1. UNCHANGED <<record, rev, edit>>
    BY <1>2 DEF Commit
  <2>2. Settled(edit, q.update)
    <3>1. PICK i \in DOMAIN record.receipts : record.receipts[i].request = q
      BY <1>2 DEF Receipts, ToSet
    <3>2. record.receipts[i] \in Receipted(edit)
      BY RowFacts, ElementOfSeq
    <3> QED BY <3>1, <3>2 DEF Receipted
  <2>3. Grows(edit, edit') /\ \A c \in Clients : Spares(edit, edit', c)
    BY <2>1 DEF Spares, Grows
  <2> QED BY <1>1, <2>1, <2>2, <2>3
<1>3. CASE Receipts(q) = {}
  <2> DEFINE changed == ~(q.update \subseteq record.state)
             revision == IF changed THEN rev + 1 ELSE rev
             receipt == [request |-> q, previous |-> rev, revision |-> revision]
  <2>1. /\ rev' = revision
        /\ record' = [record EXCEPT
               !.state = record.state \cup q.update,
               !.barrier = IF changed /\ q.excl # 0 THEN revision ELSE record.barrier,
               !.receipts = AddReceipt(q, revision)]
        /\ edit' = [e \in DOMAIN edit |->
                      IF e \in q.update /\ edit[e].at \in {0, -1}
                      THEN [edit[e] EXCEPT !.at = revision] ELSE edit[e]]
    BY <1>3 DEF Commit
  <2>2. revision \in Nat \ {0}
    BY DEF ServerOK
  <2> HIDE DEF revision
  <2> DEFINE S == {e \in q.update : e \in DOMAIN edit /\ edit[e].at \in {0, -1}}
  <2>3. Marks(edit, S, revision, edit')
    BY <2>1 DEF Marks
  <2>4. /\ EditsOK(edit') /\ DOMAIN edit' = DOMAIN edit /\ Grows(edit, edit')
        /\ \A e \in DOMAIN edit : /\ edit'[e].by = edit[e].by
                                  /\ e \in S => edit'[e].at # 0
                                  /\ e \notin S => edit'[e].at = edit[e].at
    <3> HIDE DEF S
    <3> QED BY <2>2, <2>3, MarkedOK
  <2>5. \A e \in q.update : e \in DOMAIN edit' /\ edit'[e].at # 0
    BY <2>4 DEF StrayOK, Held
  <2>6. \A c \in Clients : Spares(edit, edit', c)
    BY <2>4 DEF Spares, Pending
  <2>7. Settled(edit', q.update)
    BY <2>5 DEF Settled
  <2>8. Grows(edit, edit')
    BY <2>4
  <2>9. receipt \in Receipted(edit')
    BY <2>2, <2>7 DEF AnyReceipt, Receipted, StrayOK, ServerOK
  <2>10. ServerOK(edit', record, rev)
    BY <2>8, ServerSpared
  <2>11. AddReceipt(q, revision) \in Seq(Receipted(edit'))
    BY <2>9, <2>10, RowFacts, ReceiptsAdded
  <2>12. /\ record'.state = record.state \cup q.update
         /\ record'.epoch = record.epoch /\ record'.last = record.last
         /\ record' \in AnyRow(edit')
    <3>1. record \in AnyRow(edit') /\ q.update \in SUBSET Nat
      BY <2>10 DEF ServerOK, StrayOK, AnyRequest
    <3> HIDE DEF changed
    <3> QED BY <2>1, <2>2, <2>11, <3>1 DEF AnyRow
  <2>13. Settled(edit', record'.state)
    BY <2>7, <2>10, <2>12 DEF ServerOK, Settled
  <2>14. Held(edit', record'.state, record'.epoch)
    <3>1. Held(edit', q.update, record.epoch)
      BY <1>1, <2>8, StaysHeld DEF StrayOK
    <3> QED BY <3>1, <2>10, <2>12 DEF ServerOK, Held
  <2>15. ServerOK(edit', record', rev')
    BY <2>1, <2>2, <2>10, <2>12, <2>13, <2>14 DEF ServerOK
  <2> QED BY <1>1, <2>4, <2>6, <2>7, <2>8, <2>12, <2>15
<1> QED BY <1>2, <1>3
-----------------------------------------------------------------------------
(* A step of one tab.                                                        *)

\* What holds of the other tabs survives a step of c that spares their edits.
LEMMA TabStep ==
    ASSUME Inv, NEW c \in Clients,
           EditsOK(edit'), ServerOK(edit', record', rev'), Grows(edit, edit'),
           \A x \in Clients \ {c} : /\ Spares(edit, edit', x)
                                    /\ tab'[x] = tab[x] /\ draft'[x] = draft[x]
                                    /\ call'[x] = call[x],
           tab' \in [Clients -> AnySession], draft' \in [Clients -> AnyDraft],
           call' \in [Clients -> AnyCall],
           TabOK(edit', c, tab'[c], draft'[c], call'[c]),
           \A q \in stray' : q \in stray \/ StrayOK(edit, q)
    PROVE  Inv'
<1>1. ASSUME NEW x \in Clients
      PROVE  TabOK(edit', x, tab'[x], draft'[x], call'[x])
  <2>1. CASE x = c
    BY <2>1
  <2>2. CASE x # c
    <3>1. TabOK(edit, x, tab[x], draft[x], call[x])
      BY DEF Inv
    <3>2. TabOK(edit', x, tab[x], draft[x], call[x])
      BY <2>2, <3>1, TabSpared
    <3> QED BY <2>2, <3>2
  <2> QED BY <2>1, <2>2
<1>2. \A q \in stray' : StrayOK(edit', q)
  BY StaysHeld DEF Inv, StrayOK
<1> QED BY <1>1, <1>2 DEF Inv

LEMMA SameSpared == ASSUME NEW ed, NEW c PROVE Grows(ed, ed) /\ Spares(ed, ed, c)
BY DEF Grows, Spares

\* A step of the tab alone.
LEMMA LocalStep ==
    ASSUME Inv, NEW c \in Clients, NEW s, NEW d, NEW k,
           UNCHANGED <<record, rev, edit>>,
           tab' = [tab EXCEPT ![c] = s],
           draft' \in [Clients -> AnyDraft], draft'[c] = d,
           \A x \in Clients \ {c} : draft'[x] = draft[x],
           call' = [call EXCEPT ![c] = k],
           SessionOK(edit, c, s), DraftOK(edit, c, d), CallOK(edit, k, s, d),
           \A q \in stray' : q \in stray \/ StrayOK(edit, q)
    PROVE  Inv'
<1>1. s \in AnySession /\ k \in AnyCall
  BY DEF SessionOK, CallOK
<1>2. /\ tab' \in [Clients -> AnySession] /\ tab'[c] = s
      /\ call' \in [Clients -> AnyCall] /\ call'[c] = k
      /\ \A x \in Clients \ {c} : tab'[x] = tab[x] /\ call'[x] = call[x]
  BY <1>1 DEF Inv
<1>3. EditsOK(edit') /\ ServerOK(edit', record', rev')
  BY DEF Inv
<1>4. TabOK(edit', c, tab'[c], draft'[c], call'[c])
  BY <1>2 DEF TabOK
<1>5. Grows(edit, edit') /\ \A x \in Clients : Spares(edit, edit', x)
  BY SameSpared
<1> QED BY <1>2, <1>3, <1>4, <1>5, TabStep

LEMMA CallTypes ==
    /\ NoCall \in AnyCall /\ NoCall.kind = "none" /\ NoCall.answer.ok = FALSE
    /\ \A kind \in {"info", "update"} :
          /\ Sent(kind) \in AnyCall /\ Sent(kind).kind = kind
          /\ Sent(kind).answered = FALSE /\ Sent(kind).answer.ok = FALSE
<1>1. NoAnswer \in AnyAnswer /\ NoAnswer.ok = FALSE
  BY DEF NoAnswer, AnyAnswer
<1> QED BY <1>1 DEF NoCall, Sent, AnyCall

LEMMA NoCallOK ==
    ASSUME NEW ed, NEW s, NEW d
    PROVE  /\ CallOK(ed, NoCall, s, d)
           /\ s.phase # "closed" => CallOK(ed, Sent("info"), s, d)
BY CallTypes DEF CallOK

LEMMA UpdateSentOK ==
    ASSUME NEW ed, NEW s, NEW d, s.save # NoSave, d.save = s.save, s.phase # "closed"
    PROVE  CallOK(ed, Sent("update"), s, d)
BY CallTypes DEF CallOK

LEMMA StraySaveOK ==
    ASSUME Inv, NEW c \in Clients, Abandon(c)
    PROVE  \A q \in stray' : q \in stray \/ StrayOK(edit, q)
<1>1. StrayOK(edit, tab[c].save)
  BY DEF Inv, TabOK, SessionOK, StrayOK, AnySession
<1> QED BY <1>1 DEF Abandon

\* What Inv says of one tab.
LEMMA TabFacts ==
    ASSUME Inv, NEW c \in Clients
    PROVE  /\ tab[c] \in AnySession /\ draft[c] \in AnyDraft /\ call[c] \in AnyCall
           /\ SessionOK(edit, c, tab[c]) /\ DraftOK(edit, c, draft[c])
           /\ CallOK(edit, call[c], tab[c], draft[c])
           /\ draft \in [Clients -> AnyDraft]
BY DEF Inv, TabOK

LEMMA FailStep ==
    ASSUME Inv, NEW c \in Clients, NEW s, SessionOK(edit, c, s), Covers(edit, c, s),
           s.epoch # 0, Fail(c, s),
           UNCHANGED <<record, rev, edit, stray>>, call' = [call EXCEPT ![c] = NoCall]
    PROVE  Inv'
<1> DEFINE t == [s EXCEPT !.conflict = TRUE, !.phase = "open"]
<1>1. t \in AnySession /\ Kept(s, t) /\ t.phase = "open" /\ s \in AnySession
  BY DEF SessionOK, AnySession, Kept
<1>2. tab' = [tab EXCEPT ![c] = t] /\ Persist(c, t)
  BY DEF Fail, Become
<1> HIDE DEF t
<1>3. SessionOK(edit, c, t) /\ Covers(edit, c, t) /\ t.epoch # 0
  BY <1>1 DEF SessionOK, Kept, Covers
<1>4. /\ draft' \in [Clients -> AnyDraft] /\ DraftOK(edit, c, draft'[c])
      /\ \A x \in Clients \ {c} : draft'[x] = draft[x]
  BY <1>2, <1>3, PersistOK, TabFacts
<1>5. CallOK(edit, NoCall, t, draft'[c])
  BY NoCallOK
<1> QED BY <1>2, <1>3, <1>4, <1>5, LocalStep
-----------------------------------------------------------------------------
(* The actions.                                                              *)

LEMMA CaptureAsStep ==
    ASSUME Inv, NEW c \in Clients, NEW s, NEW exclusive \in BOOLEAN, CaptureAs(c, s, exclusive),
           SessionOK(edit, c, s), s.phase = "open", s.save = tab[c].save
    PROVE  Inv'
<1> DEFINE e == Len(edit) + 1
           t == Captured(s, e)
           new == [by |-> c, exclusive |-> exclusive, view |-> s.view,
                   viewEpoch |-> s.viewEpoch, epoch |-> s.epoch, at |-> 0]
<1>1. /\ edit' = Append(edit, new)
      /\ tab' = [tab EXCEPT ![c] = t] /\ Persist(c, t)
      /\ UNCHANGED <<record, rev, call, stray>>
  BY DEF CaptureAs, Become, server
<1>2. /\ s \in AnySession /\ s.epoch # 0 /\ edit \in Seq(AnyEdit) /\ Len(edit) \in Nat
      /\ e \in Nat
  BY LenProperties DEF SessionOK, Inv, EditsOK
<1>3. new \in AnyEdit /\ new.epoch = s.epoch /\ new.by = c
  BY <1>2 DEF AnyEdit, AnySession
<1>4. /\ t \in AnySession
      /\ t.doc = s.doc \cup {e} /\ t.newer = TRUE
      /\ t.epoch = s.epoch /\ t.vector = s.vector /\ t.save = s.save
      /\ t.phase = s.phase
  <2> HIDE DEF e
  <2> QED BY <1>2, CapturedType
<1> HIDE DEF t, new
<1>5. /\ edit' \in Seq(AnyEdit) /\ DOMAIN edit = 1..Len(edit) /\ DOMAIN edit' = 1..e
      /\ \A x \in 1..Len(edit) : edit'[x] = edit[x]
      /\ edit'[e] = new
  <2>1. edit' \in Seq(AnyEdit) /\ Len(edit') = e
    BY <1>1, <1>2, <1>3, AppendProperties
  <2>2. DOMAIN edit = 1..Len(edit) /\ DOMAIN edit' = 1..e
    BY <1>2, <2>1, LenProperties
  <2> QED BY <1>1, <1>2, <1>3, <2>1, <2>2, AppendProperties
<1>7. EditsOK(edit')
  BY <1>2, <1>3, <1>5 DEF EditsOK, Inv
<1>8. Grows(edit, edit') /\ \A x \in Clients \ {c} : Spares(edit, edit', x)
  BY <1>2, <1>3, <1>5 DEF Grows, Spares, Pending
<1>9. Pending(edit', c) \subseteq Pending(edit, c) \cup {e}
  BY <1>2, <1>5 DEF Pending
<1>10. ServerOK(edit', record', rev')
  BY <1>1, <1>8, ServerSpared DEF Inv
<1>11. SessionOK(edit', c, t) /\ Covers(edit', c, t)
  <2>1. Settled(edit', t.vector) /\ Held(edit', s.doc, s.epoch)
        /\ Held(edit', t.save.update, t.save.epoch)
    BY <1>4, <1>8, StaysSettled, StaysHeld DEF SessionOK
  <2>2. Held(edit', t.doc, t.epoch)
    BY <1>2, <1>3, <1>4, <1>5, <2>1 DEF Held
  <2>3. Covers(edit', c, t)
    BY <1>4, <1>9 DEF Covers, SessionOK, Active
  <2> QED BY <1>2, <1>4, <2>1, <2>2, <2>3 DEF SessionOK
<1>12. /\ draft' \in [Clients -> AnyDraft] /\ DraftOK(edit', c, draft'[c])
       /\ \A x \in Clients \ {c} : draft'[x] = draft[x]
       /\ draft'[c].save = t.save
  BY <1>1, <1>2, <1>4, <1>11, PersistOK, TabFacts DEF Dirty
<1>13. CallOK(edit', call[c], t, draft'[c])
  <2>1. CallOK(edit, call[c], tab[c], draft[c])
    BY TabFacts
  <2> QED BY <1>4, <1>8, <1>12, <2>1, StaysSettled, StaysHeld DEF CallOK
<1>14. /\ tab' \in [Clients -> AnySession] /\ tab'[c] = t
       /\ \A x \in Clients \ {c} : tab'[x] = tab[x]
       /\ call' \in [Clients -> AnyCall]
  BY <1>1, <1>4 DEF Inv
<1> QED BY <1>1, <1>7, <1>8, <1>10, <1>11, <1>12, <1>13, <1>14, TabStep DEF TabOK

LEMMA EditStep ==
    ASSUME Inv, NEW c \in Clients, NEW exclusive \in BOOLEAN, Edit(c, exclusive)
    PROVE  Inv'
<1> DEFINE s == Tracked(tab[c], exclusive)
<1>1. tab[c] \in AnySession /\ SessionOK(edit, c, tab[c])
  BY TabFacts
<1>2. s \in AnySession /\ Kept(tab[c], s) /\ s.phase = tab[c].phase
  BY <1>1, TrackedKeeps
<1>3. CaptureAs(c, s, exclusive) /\ tab[c].phase = "open"
  BY DEF Edit, Working
<1> HIDE DEF s
<1>4. SessionOK(edit, c, s) /\ s.save = tab[c].save
  BY <1>1, <1>2, KeepsOK DEF Kept
<1> QED BY <1>2, <1>3, <1>4, CaptureAsStep

LEMMA CaptureStep ==
    ASSUME Inv, NEW c \in Clients, Capture(c)
    PROVE  Inv'
<1>1. SessionOK(edit, c, tab[c])
  BY TabFacts
<1> QED BY <1>1, CaptureAsStep DEF Capture, Working

\* A step that changes nothing of the session that the invariant is about.
LEMMA KeptStep ==
    ASSUME Inv, NEW c \in Clients, NEW s \in AnySession, Kept(tab[c], s),
           s.phase = tab[c].phase, tab' = [tab EXCEPT ![c] = s],
           UNCHANGED <<record, rev, draft, call, stray, edit>>
    PROVE  Inv'
<1>1. SessionOK(edit, c, s) /\ s.save = tab[c].save
  BY TabFacts, KeepsOK DEF Kept
<1>2. CallOK(edit, call[c], s, draft[c])
  BY <1>1, TabFacts DEF CallOK
<1>3. call' = [call EXCEPT ![c] = call[c]]
  BY DEF Inv
<1> QED BY <1>1, <1>2, <1>3, TabFacts, LocalStep

LEMMA TrackStep ==
    ASSUME Inv, NEW c \in Clients, NEW exclusive \in BOOLEAN, Track(c, exclusive)
    PROVE  Inv'
<1> DEFINE s == Tracked(tab[c], exclusive)
           t == [s EXCEPT !.command = IF exclusive THEN "exclusive" ELSE "plain"]
<1>1. s \in AnySession /\ Kept(tab[c], s) /\ s.phase = tab[c].phase
  BY TabFacts, TrackedKeeps
<1>2. /\ tab' = [tab EXCEPT ![c] = t]
      /\ UNCHANGED <<record, rev, draft, call, stray, edit>>
  BY DEF Track, Become, server
<1> HIDE DEF s
<1>3. t \in AnySession /\ Kept(tab[c], t) /\ t.phase = tab[c].phase
  BY <1>1 DEF AnySession, Kept
<1> QED BY <1>2, <1>3, KeptStep

LEMMA DisplayStep ==
    ASSUME Inv, NEW c \in Clients, Display(c)
    PROVE  Inv'
BY TabFacts, InitializedKeeps, KeptStep DEF Display, Become, server

LEMMA SaveStep ==
    ASSUME Inv, NEW c \in Clients, Save(c)
    PROVE  Inv'
<1> DEFINE s == Saving(c, tab[c])
<1>1. /\ tab[c].phase = "open" /\ tab' = [tab EXCEPT ![c] = s] /\ Persist(c, s)
      /\ call' = [call EXCEPT ![c] = Sent("update")]
      /\ UNCHANGED <<record, rev, stray, edit>>
  BY DEF Save, Working, Become, server
<1>2. SessionOK(edit, c, s) /\ s.save # NoSave /\ s.phase = "open"
  BY <1>1, SavingOK, TabFacts
<1> HIDE DEF s
<1>3. Covers(edit, c, s) /\ s.epoch # 0 /\ Dirty(s)
  BY <1>2 DEF SessionOK, Active, Dirty
<1>4. /\ draft' \in [Clients -> AnyDraft] /\ DraftOK(edit, c, draft'[c])
      /\ \A x \in Clients \ {c} : draft'[x] = draft[x]
      /\ draft'[c].save = s.save
  BY <1>1, <1>2, <1>3, PersistOK, TabFacts
<1>5. CallOK(edit, Sent("update"), s, draft'[c])
  BY <1>2, <1>4, UpdateSentOK
<1> QED BY <1>1, <1>2, <1>4, <1>5, LocalStep

\* A step that changes the call of c, and may abandon what it awaited.
LEMMA CallStep ==
    ASSUME Inv, NEW c \in Clients, NEW k, CallOK(edit, k, tab[c], draft[c]),
           call' = [call EXCEPT ![c] = k], UNCHANGED <<record, rev, tab, draft, edit>>,
           \A q \in stray' : q \in stray \/ StrayOK(edit, q)
    PROVE  Inv'
<1>1. tab' = [tab EXCEPT ![c] = tab[c]]
  BY DEF Inv
<1> QED BY <1>1, TabFacts, LocalStep

LEMMA AskStep ==
    ASSUME Inv, NEW c \in Clients, Ask(c)
    PROVE  Inv'
BY CallStep, NoCallOK DEF Ask, Working, server

\* A closed session holds nothing.
LEMMA ClosedOK ==
    ASSUME NEW ed, NEW c, NEW s \in AnySession, s.epoch = 0, s.doc = {}, s.vector = {},
           s.save = NoSave, s.newer = FALSE, s.phase # "open"
    PROVE  SessionOK(ed, c, s)
BY NoSaveType DEF SessionOK, Settled, Held, Dirty, Active

LEMMA OpenStep ==
    ASSUME Inv, NEW c \in Clients, Open(c), opens \in Nat
    PROVE  Inv'
<1> DEFINE s == [Closed EXCEPT !.phase = "loading", !.id = opens + 1]
<1>1. /\ tab' = [tab EXCEPT ![c] = s]
      /\ UNCHANGED <<record, rev, draft, call, stray, edit>>
  BY DEF Open, Become, server
<1>2. /\ s \in AnySession /\ s.phase = "loading"
      /\ s.epoch = 0 /\ s.doc = {} /\ s.vector = {} /\ s.save = NoSave /\ s.newer = FALSE
  <2>1. \A r \in AnySession, n \in Nat :
          LET x == [r EXCEPT !.phase = "loading", !.id = n]
          IN  /\ x \in AnySession /\ x.phase = "loading"
              /\ x.epoch = r.epoch /\ x.doc = r.doc /\ x.vector = r.vector
              /\ x.save = r.save /\ x.newer = r.newer
    BY DEF AnySession
  <2>2. opens + 1 \in Nat
    OBVIOUS
  <2> QED BY <2>1, <2>2, ClosedType
<1> HIDE DEF s
<1>3. SessionOK(edit, c, s)
  BY <1>2, ClosedOK
<1>4. call[c] = NoCall
  BY TabFacts DEF Open, CallOK
<1>5. CallOK(edit, call[c], s, draft[c]) /\ call' = [call EXCEPT ![c] = call[c]]
  BY <1>1, <1>4, NoCallOK DEF Inv
<1>6. draft' \in [Clients -> AnyDraft] /\ DraftOK(edit, c, draft'[c])
  BY <1>1, TabFacts
<1> QED BY <1>1, <1>3, <1>5, <1>6, LocalStep

LEMMA CloseStep ==
    ASSUME Inv, NEW c \in Clients, Close(c)
    PROVE  Inv'
<1>1. SessionOK(edit, c, Closed)
  BY ClosedType, ClosedOK
<1>2. /\ tab' = [tab EXCEPT ![c] = Closed] /\ call' = [call EXCEPT ![c] = NoCall]
      /\ UNCHANGED <<record, rev, draft, edit>> /\ Abandon(c)
  BY DEF Close, Become, server
<1>3. draft' \in [Clients -> AnyDraft] /\ DraftOK(edit, c, draft'[c])
  BY <1>2, TabFacts
<1> QED BY <1>1, <1>2, <1>3, NoCallOK, StraySaveOK, LocalStep

LEMMA DiscardStep ==
    ASSUME Inv, NEW c \in Clients, Discard(c)
    PROVE  Inv'
<1> DEFINE S == {e \in DOMAIN edit : edit[e].by = c /\ edit[e].at = 0}
<1>1. /\ tab' = [tab EXCEPT ![c] = Closed] /\ call' = [call EXCEPT ![c] = NoCall]
      /\ draft' = [draft EXCEPT ![c] = NoDraft]
      /\ edit' = [e \in DOMAIN edit |-> IF e \in S THEN [edit[e] EXCEPT !.at = -1] ELSE edit[e]]
      /\ UNCHANGED <<record, rev>> /\ Abandon(c)
  BY DEF Discard, Become, server
<1>2. /\ EditsOK(edit') /\ DOMAIN edit' = DOMAIN edit /\ Grows(edit, edit')
      /\ \A e \in DOMAIN edit : /\ edit'[e].by = edit[e].by
                                /\ e \in S => edit'[e].at # 0
                                /\ e \notin S => edit'[e].at = edit[e].at
  <2>1. EditsOK(edit) /\ -1 \in Int \ {0}
    BY DEF Inv
  <2>2. Marks(edit, S, -1, edit')
    BY <1>1 DEF Marks
  <2> HIDE DEF S
  <2> QED BY <2>1, <2>2, MarkedOK
<1>3. \A x \in Clients : Spares(edit, edit', x)
  BY <1>2 DEF Spares, Pending
<1>4. Pending(edit', c) = {}
  BY <1>2 DEF Pending
<1>5. ServerOK(edit', record', rev')
  BY <1>1, <1>2, ServerSpared DEF Inv
<1>6. SessionOK(edit', c, Closed) /\ CallOK(edit', NoCall, Closed, NoDraft)
  BY ClosedType, ClosedOK, NoCallOK
<1>7. DraftOK(edit', c, NoDraft)
  BY <1>4, NoDraftType, NoSaveType DEF DraftOK, Covers, Held
<1>8. /\ tab' \in [Clients -> AnySession] /\ draft' \in [Clients -> AnyDraft]
      /\ call' \in [Clients -> AnyCall]
      /\ tab'[c] = Closed /\ draft'[c] = NoDraft /\ call'[c] = NoCall
      /\ \A x \in Clients \ {c} : /\ tab'[x] = tab[x] /\ draft'[x] = draft[x]
                                  /\ call'[x] = call[x]
  BY <1>1, ClosedType, NoDraftType, CallTypes DEF Inv
<1>9. \A q \in stray' : q \in stray \/ StrayOK(edit, q)
  BY <1>1, StraySaveOK
<1> QED BY <1>2, <1>3, <1>5, <1>6, <1>7, <1>8, <1>9, TabStep DEF TabOK

LEMMA LoseStep ==
    ASSUME Inv, NEW c \in Clients, Lose(c)
    PROVE  Inv'
<1> DEFINE s == tab[c]
<1>1. /\ tab' = [tab EXCEPT ![c] = s] /\ call' = [call EXCEPT ![c] = NoCall]
      /\ UNCHANGED <<record, rev, edit>> /\ Abandon(c)
  BY DEF Lose, server, Inv
<1>2. SessionOK(edit, c, s) /\ CallOK(edit, call[c], s, draft[c])
  BY TabFacts
<1>3. /\ draft' \in [Clients -> AnyDraft] /\ DraftOK(edit, c, draft'[c])
      /\ \A x \in Clients \ {c} : draft'[x] = draft[x]
  <2>1. CASE call[c].kind = "update"
    <3>1. s.save # NoSave /\ Persist(c, s)
      BY <1>2, <2>1 DEF CallOK, Lose
    <3>2. s.epoch # 0 /\ Covers(edit, c, s)
      BY <1>2, <3>1 DEF SessionOK, Dirty, Active
    <3> HIDE DEF s
    <3> QED BY <1>2, <3>1, <3>2, PersistOK, TabFacts
  <2>2. CASE call[c].kind # "update"
    BY <2>2, TabFacts DEF Lose
  <2> QED BY <2>1, <2>2
<1> HIDE DEF s
<1> QED BY <1>1, <1>2, <1>3, NoCallOK, StraySaveOK, LocalStep

\* The server's answer, from the state after the transaction.
LEMMA AnswerOK ==
    ASSUME ServerOK(edit', record', rev'), record'.epoch # 0,
           NEW previous \in Nat, NEW acked \in Nat
    PROVE  LET a == Answer(previous, acked)
           IN  /\ a \in AnyAnswer /\ a.ok = TRUE /\ a.epoch # 0
               /\ Settled(edit', a.state) /\ Held(edit', a.state, a.epoch)
BY RowFacts DEF Answer, AnyAnswer

LEMMA InfoStep ==
    ASSUME Inv, NEW c \in Clients, Info(c)
    PROVE  Inv'
<1> DEFINE k == [call[c] EXCEPT !.answered = TRUE, !.answer = Answer(0, 0)]
<1>1. /\ call' = [call EXCEPT ![c] = k] /\ UNCHANGED <<rev, tab, draft, stray, edit>>
      /\ call[c].kind = "info"
  BY DEF Info, Inv
<1>2. ServerOK(edit', record', rev') /\ record'.epoch # 0
  <2>1. CASE record.epoch # 0
    BY <1>1, <2>1 DEF Info, Inv
  <2>2. CASE record.epoch = 0
    <3>1. record' = [epoch |-> record.last + 1, state |-> {}, barrier |-> 0,
                     receipts |-> <<>>, last |-> record.last + 1]
      BY <2>2 DEF Info
    <3>2. record.last \in Nat
      BY RowFacts DEF Inv
    <3>3. record' \in AnyRow(edit')
      BY <3>1, <3>2, EmptySeq DEF AnyRow
    <3> QED BY <1>1, <3>1, <3>2, <3>3 DEF Inv, ServerOK, Settled, Held
  <2> QED BY <2>1, <2>2
<1>3. /\ Answer(0, 0) \in AnyAnswer /\ Answer(0, 0).ok = TRUE /\ Answer(0, 0).epoch # 0
      /\ Settled(edit', Answer(0, 0).state)
      /\ Held(edit', Answer(0, 0).state, Answer(0, 0).epoch)
  BY <1>2, AnswerOK
<1>4. CallOK(edit', k, tab[c], draft[c])
  <2>1. call[c] \in AnyCall /\ CallOK(edit, call[c], tab[c], draft[c])
    BY TabFacts
  <2>2. /\ k \in AnyCall /\ k.kind = "info" /\ k.answered = TRUE /\ k.answer = Answer(0, 0)
    BY <1>1, <1>3, <2>1 DEF AnyCall
  <2>3. tab[c].phase # "closed"
    BY <1>1, <2>1, CallTypes DEF CallOK
  <2> HIDE DEF k
  <2> QED BY <1>3, <2>2, <2>3 DEF CallOK
<1>5. SessionOK(edit', c, tab[c]) /\ DraftOK(edit', c, draft[c])
  BY <1>1, TabFacts
<1>6. /\ tab' \in [Clients -> AnySession] /\ draft' \in [Clients -> AnyDraft]
      /\ call' \in [Clients -> AnyCall] /\ call'[c] = k
      /\ \A x \in Clients \ {c} : call'[x] = call[x]
  BY <1>1, <1>4 DEF Inv, CallOK
<1>7. EditsOK(edit') /\ Grows(edit, edit') /\ \A x \in Clients : Spares(edit, edit', x)
  BY <1>1, SameSpared DEF Inv
<1> HIDE DEF k
<1> QED BY <1>1, <1>2, <1>4, <1>5, <1>6, <1>7, TabStep DEF TabOK

LEMMA ReceiptTypes ==
    ASSUME ServerOK(edit, record, rev), NEW q, NEW r \in Receipts(q)
    PROVE  r.previous \in Nat /\ r.revision \in Nat
<1>1. PICK i \in DOMAIN record.receipts : r = record.receipts[i]
  BY DEF Receipts, ToSet
<1>2. r \in Receipted(edit)
  BY <1>1, RowFacts, ElementOfSeq
<1> QED BY <1>2 DEF AnyReceipt, Receipted

LEMMA UpdateStep ==
    ASSUME Inv, NEW c \in Clients, Update(c)
    PROVE  Inv'
<1> DEFINE q == tab[c].save
<1>1. /\ call[c].kind = "update" /\ ~call[c].answered /\ UNCHANGED <<tab, draft>>
      /\ stray' \subseteq stray
  BY DEF Update
<1>2. /\ SessionOK(edit, c, tab[c]) /\ DraftOK(edit, c, draft[c])
      /\ CallOK(edit, call[c], tab[c], draft[c]) /\ call[c] \in AnyCall
      /\ tab[c].phase # "closed" /\ q # NoSave /\ draft[c].save = q
  BY <1>1, TabFacts, CallTypes DEF CallOK
<1>3. StrayOK(edit, q)
  BY <1>2 DEF SessionOK, AnySession, StrayOK
<1>4. CASE Refused(q)
  <2> DEFINE k == [call[c] EXCEPT !.answered = TRUE]
  <2>1. UNCHANGED <<record, rev, edit>> /\ call' = [call EXCEPT ![c] = k]
    BY <1>4 DEF Update, Inv
  <2>2. /\ k \in AnyCall /\ k.kind = "update" /\ k.answer.ok = FALSE
    BY <1>1, <1>2 DEF AnyCall, CallOK, AnyAnswer
  <2> HIDE DEF k
  <2>3. CallOK(edit, k, tab[c], draft[c])
    BY <1>2, <2>2 DEF CallOK
  <2> QED BY <1>1, <2>1, <2>3, CallStep
<1>5. CASE ~Refused(q)
  <2> DEFINE old == CHOOSE x \in Receipts(q) : TRUE
             previous == IF Receipts(q) # {} THEN old.previous ELSE rev
             acked == IF Receipts(q) # {} THEN old.revision ELSE rev'
             a == Answer(previous, acked)
             k == [call[c] EXCEPT !.answered = TRUE, !.answer = a]
  <2>1. Commit(q)
    BY <1>5 DEF Update
  <2>2. /\ EditsOK(edit') /\ ServerOK(edit', record', rev')
        /\ Grows(edit, edit') /\ \A x \in Clients : Spares(edit, edit', x)
        /\ Settled(edit', q.update) /\ record'.epoch # 0
    BY <1>3, <1>5, <2>1, CommitOK DEF Inv
  <2>3. call' = [call EXCEPT ![c] = k]
    BY <1>5 DEF Update, Inv
  <2>4. previous \in Nat /\ acked \in Nat
    <3>1. CASE Receipts(q) # {}
      BY <3>1, ReceiptTypes DEF Inv
    <3>2. CASE Receipts(q) = {}
      BY <2>2, <3>2 DEF Inv, ServerOK
    <3> QED BY <3>1, <3>2
  <2> HIDE DEF previous, acked
  <2>5. /\ a \in AnyAnswer /\ a.ok = TRUE /\ a.epoch # 0
        /\ Settled(edit', a.state) /\ Held(edit', a.state, a.epoch)
    BY <2>2, <2>4, AnswerOK
  <2> HIDE DEF a
  <2>6. k \in AnyCall /\ k.kind = "update" /\ k.answered = TRUE /\ k.answer = a
    BY <1>1, <1>2, <2>5 DEF AnyCall
  <2> HIDE DEF k
  <2>7. CallOK(edit', k, tab[c], draft[c])
    BY <1>2, <2>2, <2>5, <2>6 DEF CallOK
  <2>8. SessionOK(edit', c, tab[c]) /\ DraftOK(edit', c, draft[c])
    <3>1. TabOK(edit', c, tab[c], draft[c], call[c])
      BY <2>2, TabSpared DEF Inv
    <3> QED BY <3>1 DEF TabOK
  <2>9. /\ tab' \in [Clients -> AnySession] /\ draft' \in [Clients -> AnyDraft]
        /\ call' \in [Clients -> AnyCall] /\ call'[c] = k
        /\ \A x \in Clients \ {c} : call'[x] = call[x]
    BY <1>1, <2>3, <2>6 DEF Inv
  <2> HIDE DEF q
  <2> QED BY <1>1, <2>2, <2>7, <2>8, <2>9, TabStep DEF TabOK
<1> QED BY <1>4, <1>5

\* A step of the server that no tab takes part in.
LEMMA ServerStep ==
    ASSUME Inv, EditsOK(edit'), ServerOK(edit', record', rev'),
           \A c \in Clients : Spares(edit, edit', c), Grows(edit, edit'),
           UNCHANGED <<tab, draft, call>>, stray' \subseteq stray
    PROVE  Inv'
<1>1. \A c \in Clients : TabOK(edit', c, tab[c], draft[c], call[c])
  BY TabSpared DEF Inv
<1>2. \A q \in stray' : StrayOK(edit', q)
  BY StaysHeld DEF Inv, StrayOK
<1> QED BY <1>1, <1>2 DEF Inv

LEMMA UpdateStrayStep ==
    ASSUME Inv, NEW q \in stray, UpdateStray(q)
    PROVE  Inv'
<1>1. StrayOK(edit, q) /\ EditsOK(edit) /\ ServerOK(edit, record, rev)
  BY DEF Inv
<1>2. UNCHANGED <<tab, draft, call>> /\ stray' \subseteq stray
  BY DEF UpdateStray
<1>3. CASE Refused(q)
  <2>1. UNCHANGED <<record, rev, edit>>
    BY <1>3 DEF UpdateStray
  <2>2. Grows(edit, edit') /\ \A c \in Clients : Spares(edit, edit', c)
    BY <2>1, SameSpared
  <2> QED BY <1>1, <1>2, <2>1, <2>2, ServerStep
<1>4. CASE ~Refused(q)
  <2>1. Commit(q)
    BY <1>4 DEF UpdateStray
  <2>2. /\ EditsOK(edit') /\ ServerOK(edit', record', rev')
        /\ Grows(edit, edit') /\ \A c \in Clients : Spares(edit, edit', c)
    BY <1>1, <1>4, <2>1, CommitOK
  <2> QED BY <1>2, <2>2, ServerStep
<1> QED BY <1>3, <1>4

LEMMA OutsideStep ==
    ASSUME Inv, NEW replaces \in BOOLEAN, Outside(replaces)
    PROVE  Inv'
<1>1. UNCHANGED <<tab, draft, call, stray, edit>> /\ rev' = rev + 1
  BY DEF Outside
<1>2. ServerOK(edit', record', rev')
  <2>1. CASE replaces
    <3>1. record' = [record EXCEPT !.epoch = 0, !.state = {}, !.barrier = 0, !.receipts = <<>>]
      BY <2>1 DEF Outside
    <3>2. record \in AnyRow(edit') /\ rev \in Nat
      BY <1>1 DEF Inv, ServerOK
    <3>3. record' \in AnyRow(edit') /\ record'.epoch = 0 /\ record'.state = {}
      BY <3>1, <3>2, EmptySeq DEF AnyRow
    <3>4. 0 <= record'.last
      BY <3>3 DEF AnyRow
    <3> QED BY <1>1, <3>2, <3>3, <3>4 DEF ServerOK, Settled, Held
  <2>2. CASE ~replaces
    BY <1>1, <2>2 DEF Outside, Inv, ServerOK
  <2> QED BY <2>1, <2>2
<1>3. EditsOK(edit') /\ Grows(edit, edit') /\ \A c \in Clients : Spares(edit, edit', c)
  BY <1>1, SameSpared DEF Inv
<1> QED BY <1>1, <1>2, <1>3, ServerStep

-----------------------------------------------------------------------------
(* Receiving.                                                                *)

LEMMA LoadedOK ==
    ASSUME NEW ed, NEW c, NEW s, SessionOK(ed, c, s), Covers(ed, c, s), s.epoch # 0
    PROVE  SessionOK(ed, c, Loaded(s))
<1>1. Loaded(s) \in AnySession /\ Kept(s, Loaded(s))
  BY LoadedKeeps DEF SessionOK
<1> QED BY <1>1 DEF SessionOK, Kept, Covers

\* A workbook that was replaced is only received when nothing is pending.
LEMMA ReceivedOK ==
    ASSUME NEW ed, EditsOK(ed), NEW c, NEW s, SessionOK(ed, c, s), Covers(ed, c, s),
           NEW a \in AnyAnswer, a.epoch # 0,
           Settled(ed, a.state), Held(ed, a.state, a.epoch),
           s.epoch # 0 /\ s.epoch # a.epoch => ~Dirty(s)
    PROVE  LET t == Received(s, a)
           IN  /\ t \in AnySession /\ SessionOK(ed, c, t) /\ Covers(ed, c, t)
               /\ t.epoch = a.epoch /\ t.phase = s.phase
               /\ t.save = s.save /\ t.newer = s.newer
<1> DEFINE t == Received(s, a)
<1>1. /\ t \in AnySession
      /\ t.epoch = a.epoch /\ t.vector = a.state
      /\ t.doc = (IF s.epoch # 0 /\ s.epoch # a.epoch THEN a.state ELSE s.doc \cup a.state)
      /\ t.save = s.save /\ t.newer = s.newer /\ t.phase = s.phase
  BY ReceivedType DEF SessionOK
<1> HIDE DEF t
<1>2. Covers(ed, c, t)
  <2>1. CASE s.epoch # 0 /\ s.epoch # a.epoch
    <3>1. Pending(ed, c) = {}
      BY <2>1, NoSaveType DEF Covers, Dirty
    <3> QED BY <3>1 DEF Covers
  <2>2. CASE ~(s.epoch # 0 /\ s.epoch # a.epoch)
    BY <1>1, <2>2 DEF Covers
  <2> QED BY <2>1, <2>2
<1>3. Held(ed, t.doc, t.epoch)
  <2>1. CASE s.epoch # 0 /\ s.epoch # a.epoch
    BY <1>1, <2>1
  <2>2. CASE s.epoch = a.epoch
    BY <1>1, <2>2 DEF Held, SessionOK
  <2>3. CASE s.epoch = 0
    BY <1>1, <2>3 DEF Held, SessionOK, EditsOK
  <2> QED BY <2>1, <2>2, <2>3
<1>4. SessionOK(ed, c, t)
  BY <1>1, <1>2, <1>3 DEF SessionOK
<1> QED BY <1>1, <1>2, <1>4 DEF t

LEMMA RefreshStep ==
    ASSUME Inv, NEW c \in Clients, Refresh(c)
    PROVE  Inv'
<1> DEFINE a == call[c].answer
           t == Received(tab[c], a)
<1>1. /\ tab[c].phase = "open" /\ call[c].kind = "info" /\ call[c].answered
      /\ call' = [call EXCEPT ![c] = NoCall] /\ UNCHANGED <<record, rev, stray, edit>>
  BY DEF Refresh, server
<1>2. /\ SessionOK(edit, c, tab[c]) /\ Covers(edit, c, tab[c]) /\ tab[c].epoch # 0
  BY <1>1, TabFacts DEF SessionOK, Active
<1>3. /\ a \in AnyAnswer /\ a.epoch # 0
      /\ Settled(edit, a.state) /\ Held(edit, a.state, a.epoch)
  BY <1>1, TabFacts DEF CallOK, AnyCall
<1>4. CASE Conflicts(tab[c], a, FALSE)
  BY <1>1, <1>2, <1>4, FailStep DEF Refresh
<1>5. CASE ~Conflicts(tab[c], a, FALSE)
  <2>1. tab' = [tab EXCEPT ![c] = t] /\ UNCHANGED draft
    BY <1>5 DEF Refresh, Become
  <2>2. tab[c].epoch # 0 /\ tab[c].epoch # a.epoch => ~Dirty(tab[c])
    BY <1>5 DEF Conflicts
  <2>3. EditsOK(edit)
    BY DEF Inv
  <2> HIDE DEF a
  <2>4. SessionOK(edit, c, t)
    BY <1>2, <1>3, <2>2, <2>3, ReceivedOK
  <2> HIDE DEF t
  <2>5. draft' \in [Clients -> AnyDraft] /\ DraftOK(edit, c, draft'[c])
    BY <2>1, TabFacts
  <2> QED BY <1>1, <2>1, <2>4, <2>5, NoCallOK, LocalStep
<1> QED BY <1>4, <1>5

Acknowledged(r, m, n) == [r EXCEPT !.save = NoSave, !.excl = m, !.pending = n]

LEMMA AcknowledgedType ==
    ASSUME NEW r \in AnySession, NEW m \in Nat, NEW n \in Nat
    PROVE  LET t == Acknowledged(r, m, n)
           IN  /\ t \in AnySession /\ t.save = NoSave
               /\ t.epoch = r.epoch /\ t.doc = r.doc /\ t.vector = r.vector
               /\ t.newer = r.newer /\ t.phase = r.phase
BY NoSaveType DEF Acknowledged, AnySession

LEMMA AcknowledgeStep ==
    ASSUME Inv, NEW c \in Clients, Acknowledge(c)
    PROVE  Inv'
<1> DEFINE a == call[c].answer
           s == Advance(tab[c], a.previous, a.acked)
           r == Received(s, a)
           t == [r EXCEPT !.save = NoSave,
                          !.excl = IF s.newExcl THEN r.excl ELSE 0,
                          !.pending = IF s.newer THEN a.rev ELSE 0]
<1>1. /\ call[c].kind = "update" /\ call[c].answered
      /\ call' = [call EXCEPT ![c] = NoCall] /\ UNCHANGED <<record, rev, stray, edit>>
  BY DEF Acknowledge, server
<1>2. /\ SessionOK(edit, c, tab[c]) /\ tab[c] \in AnySession
      /\ CallOK(edit, call[c], tab[c], draft[c]) /\ a \in AnyAnswer
  BY TabFacts DEF AnyCall
<1>3. tab[c].save # NoSave
  BY <1>1, <1>2 DEF CallOK
<1>4. Covers(edit, c, tab[c]) /\ tab[c].epoch # 0
  BY <1>2, <1>3 DEF SessionOK, Active, Dirty
<1>5. CASE ~a.ok
  <2>1. Fail(c, tab[c])
    BY <1>5 DEF Acknowledge
  <2> QED BY <1>1, <1>2, <1>4, <2>1, FailStep
<1>6. CASE a.ok
  <2>1. s \in AnySession /\ Kept(tab[c], s) /\ s.phase = tab[c].phase
    <3>1. a.previous \in Nat /\ a.acked \in Nat
      BY <1>2 DEF AnyAnswer
    <3> HIDE DEF a
    <3> QED BY <1>2, <3>1, AdvanceKeeps
  <2>2. \/ Fail(c, s)
        \/ ~Conflicts(s, a, TRUE) /\ Persist(c, t) /\ tab' = [tab EXCEPT ![c] = Loaded(t)]
    BY <1>6 DEF Acknowledge, Become
  <2>3. /\ a.epoch # 0 /\ Settled(edit, a.state) /\ Held(edit, a.state, a.epoch)
        /\ Settled(edit, tab[c].save.update) /\ a.rev \in Nat
    BY <1>1, <1>2, <1>6 DEF CallOK, AnyAnswer
  <2> HIDE DEF a, s
  <2>4. SessionOK(edit, c, s) /\ Covers(edit, c, s) /\ s.epoch # 0 /\ s.save = tab[c].save
    BY <1>2, <1>4, <2>1, KeepsOK DEF Kept, Covers
  <2>5. CASE Fail(c, s)
    BY <1>1, <2>4, <2>5, FailStep
  <2>6. CASE ~Conflicts(s, a, TRUE) /\ Persist(c, t) /\ tab' = [tab EXCEPT ![c] = Loaded(t)]
    <3>1. s.epoch = a.epoch
      BY <1>3, <2>4, <2>6 DEF Conflicts, Dirty
    <3>2. EditsOK(edit)
      BY DEF Inv
    <3>3. /\ r \in AnySession /\ SessionOK(edit, c, r) /\ Covers(edit, c, r)
          /\ r.epoch = a.epoch /\ r.save = s.save
      BY <1>2, <2>3, <2>4, <3>1, <3>2, ReceivedOK
    <3> HIDE DEF r
    <3>4. /\ t \in AnySession /\ t.save = NoSave
          /\ t.epoch = r.epoch /\ t.doc = r.doc /\ t.vector = r.vector
          /\ t.newer = r.newer /\ t.phase = r.phase
      <4> DEFINE m == IF s.newExcl THEN r.excl ELSE 0
                 n == IF s.newer THEN a.rev ELSE 0
      <4>1. m \in Nat /\ n \in Nat
        BY <2>1, <2>3, <3>3 DEF AnySession
      <4>2. t = Acknowledged(r, m, n)
        BY DEF Acknowledged
      <4> HIDE DEF m, n
      <4> QED BY <3>3, <4>1, <4>2, AcknowledgedType
    <3> HIDE DEF t
    <3>5. Covers(edit, c, t)
      BY <2>3, <2>4, <3>3, <3>4 DEF Covers, Settled, Pending
    <3>6. SessionOK(edit, c, t)
      BY <2>3, <3>3, <3>4, <3>5, NoSaveType DEF SessionOK, Held
    <3>7. t.epoch # 0
      BY <2>3, <3>3, <3>4
    <3>8. /\ draft' \in [Clients -> AnyDraft] /\ DraftOK(edit, c, draft'[c])
          /\ \A x \in Clients \ {c} : draft'[x] = draft[x]
      BY <2>6, <3>5, <3>6, <3>7, PersistOK, TabFacts
    <3>9. SessionOK(edit, c, Loaded(t))
      BY <3>5, <3>6, <3>7, LoadedOK
    <3> QED BY <1>1, <2>6, <3>8, <3>9, NoCallOK, LocalStep
  <2> QED BY <2>2, <2>5, <2>6
<1> QED BY <1>5, <1>6

LEMMA LoadStep ==
    ASSUME Inv, NEW c \in Clients, Load(c)
    PROVE  Inv'
<1> DEFINE a == call[c].answer
           d == draft[c]
           s == Restored(tab[c], d)
<1>1. /\ tab[c].phase = "loading" /\ call[c].kind = "info" /\ call[c].answered
      /\ UNCHANGED <<record, rev, stray, edit>>
  BY DEF Load, server
<1>2. SessionOK(edit, c, tab[c]) /\ DraftOK(edit, c, d)
  BY TabFacts
<1>3. /\ a \in AnyAnswer /\ a.epoch # 0
      /\ Settled(edit, a.state) /\ Held(edit, a.state, a.epoch)
  BY <1>1, TabFacts DEF CallOK, AnyCall
<1>4. \/ d # NoDraft /\ Fail(c, s) /\ call' = [call EXCEPT ![c] = NoCall]
      \/ /\ s.save # NoSave /\ tab' = [tab EXCEPT ![c] = s] /\ Persist(c, s)
         /\ call' = [call EXCEPT ![c] = Sent("update")]
      \/ /\ call' = [call EXCEPT ![c] = NoCall]
         /\ \/ Conflicts(s, a, FALSE) /\ Fail(c, s)
            \/ /\ ~Conflicts(s, a, FALSE) /\ UNCHANGED draft
               /\ tab' = [tab EXCEPT ![c] = Loaded(Received(s, a))]
  BY DEF Load, Become
<1>5. /\ s \in AnySession /\ SessionOK(edit, c, s) /\ s.phase = "loading"
      /\ Covers(edit, c, s) \/ d = NoDraft
      /\ d # NoDraft => s.epoch # 0
  <2> HIDE DEF d
  <2> QED BY <1>1, <1>2, RestoredOK
<1>6. Covers(edit, c, s)
  <2>1. CASE d = NoDraft
    <3>1. Pending(edit, c) = {}
      BY <1>2, <2>1, NoDraftType, NoSaveType DEF DraftOK, Covers
    <3> QED BY <3>1 DEF Covers
  <2> QED BY <1>5, <2>1
<1>7. Dirty(s) => s.epoch # 0
  BY <1>5 DEF SessionOK
<1> HIDE DEF a, s
<1>8. CASE d # NoDraft /\ Fail(c, s) /\ call' = [call EXCEPT ![c] = NoCall]
  BY <1>1, <1>5, <1>6, <1>8, FailStep
<1>9. CASE /\ s.save # NoSave /\ tab' = [tab EXCEPT ![c] = s] /\ Persist(c, s)
           /\ call' = [call EXCEPT ![c] = Sent("update")]
  <2>1. Dirty(s) /\ s.epoch # 0
    BY <1>7, <1>9 DEF Dirty
  <2>2. /\ draft' \in [Clients -> AnyDraft] /\ DraftOK(edit, c, draft'[c])
        /\ \A x \in Clients \ {c} : draft'[x] = draft[x]
        /\ draft'[c].save = s.save
    BY <1>5, <1>6, <1>9, <2>1, PersistOK, TabFacts
  <2>3. CallOK(edit, Sent("update"), s, draft'[c])
    BY <1>5, <1>9, <2>2, UpdateSentOK
  <2> QED BY <1>1, <1>5, <1>9, <2>2, <2>3, LocalStep
<1>10. CASE /\ call' = [call EXCEPT ![c] = NoCall]
            /\ Conflicts(s, a, FALSE) /\ Fail(c, s)
  <2>1. s.epoch # 0
    BY <1>7, <1>10 DEF Conflicts
  <2> QED BY <1>1, <1>5, <1>6, <1>10, <2>1, FailStep
<1>11. CASE /\ call' = [call EXCEPT ![c] = NoCall]
            /\ ~Conflicts(s, a, FALSE) /\ UNCHANGED draft
            /\ tab' = [tab EXCEPT ![c] = Loaded(Received(s, a))]
  <2> DEFINE t == Received(s, a)
  <2>1. s.epoch # 0 /\ s.epoch # a.epoch => ~Dirty(s)
    BY <1>11 DEF Conflicts
  <2>2. EditsOK(edit)
    BY DEF Inv
  <2>3. SessionOK(edit, c, t) /\ Covers(edit, c, t) /\ t.epoch # 0
    BY <1>3, <1>5, <1>6, <2>1, <2>2, ReceivedOK
  <2>4. tab' = [tab EXCEPT ![c] = Loaded(t)]
    BY <1>11
  <2> HIDE DEF t
  <2>5. SessionOK(edit, c, Loaded(t))
    BY <2>3, LoadedOK
  <2>6. draft' \in [Clients -> AnyDraft] /\ DraftOK(edit, c, draft'[c])
    BY <1>11, TabFacts
  <2> QED BY <1>1, <1>11, <2>4, <2>5, <2>6, NoCallOK, LocalStep
<1> QED BY <1>4, <1>8, <1>9, <1>10, <1>11

-----------------------------------------------------------------------------
(* The invariant holds.                                                      *)

OpensOK == opens \in Nat

LEMMA OpensType == Spec => []OpensOK
<1>1. Init => OpensOK
  BY DEF Init, OpensOK
<1>2. OpensOK /\ [Next]_vars => OpensOK'
  <2> SUFFICES ASSUME opens \in Nat, [Next]_vars
               PROVE  opens' \in Nat
    BY DEF OpensOK
  <2>1. ASSUME NEW c \in Clients, Open(c)
        PROVE  opens' \in Nat
    BY <2>1 DEF Open
  <2>2. ASSUME NEW c \in Clients,
               (\E exclusive \in BOOLEAN : Edit(c, exclusive) \/ Track(c, exclusive))
               \/ Capture(c) \/ Display(c) \/ Save(c) \/ Ask(c) \/ Close(c)
               \/ Discard(c) \/ Lose(c) \/ Update(c) \/ Info(c)
               \/ Acknowledge(c) \/ Refresh(c) \/ Load(c)
        PROVE  opens' = opens
    BY <2>2 DEF Edit, Track, Capture, CaptureAs, Display, Save, Ask, Close, Discard, Lose,
                Update, Info, Acknowledge, Refresh, Load, bounds
  <2>3. ASSUME NEW q \in stray, UpdateStray(q)
        PROVE  opens' = opens
    BY <2>3 DEF UpdateStray, bounds
  <2>4. ASSUME NEW replaces \in BOOLEAN, Outside(replaces)
        PROVE  opens' = opens
    BY <2>4 DEF Outside
  <2>5. CASE UNCHANGED vars
    BY <2>5 DEF vars
  <2> QED BY <2>1, <2>2, <2>3, <2>4, <2>5 DEF Next
<1> QED BY <1>1, <1>2, PTL DEF Spec

LEMMA InitInv == Init => Inv
<1> SUFFICES ASSUME Init PROVE Inv
  OBVIOUS
<1>1. EditsOK(edit)
  <2>1. edit \in Seq(AnyEdit) /\ DOMAIN edit = {}
    BY EmptySeq DEF Init
  <2> QED BY <2>1 DEF EditsOK
<1>2. ServerOK(edit, record, rev)
  <2>1. record \in AnyRow(edit) /\ record.epoch = 0 /\ record.state = {} /\ record.last = 0
    BY EmptySeq DEF Init, AnyRow
  <2> QED BY <2>1 DEF Init, ServerOK, Settled, Held
<1>3. \A c \in Clients : Pending(edit, c) = {}
  BY DEF Init, Pending
<1>4. \A c \in Clients : tab[c] = Closed /\ draft[c] = NoDraft /\ call[c] = NoCall
  BY DEF Init
<1>5. \A c \in Clients : SessionOK(edit, c, Closed) /\ CallOK(edit, NoCall, Closed, NoDraft)
  BY ClosedType, ClosedOK, NoCallOK
<1>6. \A c \in Clients : DraftOK(edit, c, NoDraft)
  BY <1>3, NoDraftType, NoSaveType DEF DraftOK, Covers, Held
<1>7. /\ tab \in [Clients -> AnySession] /\ draft \in [Clients -> AnyDraft]
      /\ call \in [Clients -> AnyCall] /\ stray = {}
  BY ClosedType, NoDraftType, CallTypes DEF Init
<1> QED BY <1>1, <1>2, <1>4, <1>5, <1>6, <1>7 DEF Inv, TabOK

LEMMA NextInv == Inv /\ OpensOK /\ [Next]_vars => Inv'
<1> SUFFICES ASSUME Inv, opens \in Nat, [Next]_vars
             PROVE  Inv'
  BY DEF OpensOK
<1>1. ASSUME NEW c \in Clients, NEW exclusive \in BOOLEAN,
             Edit(c, exclusive) \/ Track(c, exclusive)
      PROVE  Inv'
  BY <1>1, EditStep, TrackStep
<1>2. ASSUME NEW c \in Clients, Capture(c) \/ Display(c) \/ Save(c) \/ Ask(c) \/ Open(c)
      PROVE  Inv'
  BY <1>2, CaptureStep, DisplayStep, SaveStep, AskStep, OpenStep
<1>3. ASSUME NEW c \in Clients, Close(c) \/ Discard(c) \/ Lose(c) \/ Update(c) \/ Info(c)
      PROVE  Inv'
  BY <1>3, CloseStep, DiscardStep, LoseStep, UpdateStep, InfoStep
<1>4. ASSUME NEW c \in Clients, Acknowledge(c) \/ Refresh(c) \/ Load(c)
      PROVE  Inv'
  BY <1>4, AcknowledgeStep, RefreshStep, LoadStep
<1>5. ASSUME NEW q \in stray, UpdateStray(q)
      PROVE  Inv'
  BY <1>5, UpdateStrayStep
<1>6. ASSUME NEW replaces \in BOOLEAN, Outside(replaces)
      PROVE  Inv'
  BY <1>6, OutsideStep
<1>7. CASE UNCHANGED vars
  BY <1>7 DEF vars, Inv
<1> QED BY <1>1, <1>2, <1>3, <1>4, <1>5, <1>6, <1>7 DEF Next

LEMMA Invariant == Spec => []Inv
<1> QED BY InitInv, NextInv, OpensType, PTL DEF Spec

-----------------------------------------------------------------------------
(* The results.                                                              *)

\* Whatever crashes, conflicts, replacements and lost or late requests intervene, and with
\* any delay: an edit that is neither committed nor discarded is in its tab's draft.
THEOREM EditsKept == Spec => []NoEditLost
<1>1. Inv => NoEditLost
  <2> SUFFICES ASSUME Inv, NEW e \in DOMAIN edit, edit[e].at = 0
               PROVE  e \in draft[edit[e].by].doc
    BY DEF NoEditLost
  <2>1. edit[e].by \in Clients
    <3>1. edit \in Seq(AnyEdit)
      BY DEF Inv, EditsOK
    <3>2. edit[e] \in AnyEdit
      BY <3>1, ElementOfSeq, LenProperties
    <3> QED BY <3>2 DEF AnyEdit
  <2>2. e \in Pending(edit, edit[e].by)
    BY DEF Pending
  <2> QED BY <2>1, <2>2, TabFacts DEF DraftOK, Covers
<1> QED BY <1>1, Invariant, PTL

\* The draft of a tab holds the very request that is under way.
THEOREM RequestsKept == Spec => []InFlightIsRecoverable
<1>1. Inv => InFlightIsRecoverable
  BY TabFacts DEF CallOK, InFlightIsRecoverable
<1> QED BY <1>1, Invariant, PTL

\* A session with nothing left to send has nothing uncommitted.
THEOREM CleanSessionsAreCommitted == Spec => []CleanIsCommitted
<1>1. Inv => CleanIsCommitted
  <2> SUFFICES ASSUME Inv, NEW c \in Clients, Working(c), ~Dirty(tab[c]),
                      NEW e \in DOMAIN edit, edit[e].by = c, edit[e].at = 0
               PROVE  FALSE
    BY DEF CleanIsCommitted
  <2>1. Covers(edit, c, tab[c])
    BY TabFacts DEF SessionOK, Active, Working
  <2> QED BY <2>1, NoSaveType DEF Covers, Dirty, Pending
<1> QED BY <1>1, Invariant, PTL

\* No request, retry, replay, late duplicate or draft brings an edit into a workbook
\* that replaced the one in whose session it was captured.
THEOREM ReplacementsStayClean == Spec => []EpochsStayApart
<1>1. Inv => EpochsStayApart
  BY RowFacts DEF Inv, Held, EpochsStayApart
<1> QED BY <1>1, Invariant, PTL

-----------------------------------------------------------------------------
(* Exclusive edits.  The inductive invariant of their merge: ed, row and rv   *)
(* stand for edit, record and rev.                                            *)

\* An edit made in a view of the workbook in whose session it was captured.
Here(ed, e) == ed[e].viewEpoch = ed[e].epoch

\* Such an exclusive edit; with the delay "capture" nothing is claimed of those.
Excl(ed, x) == ed[x].exclusive /\ Here(ed, x) /\ "capture" \notin Gaps

\* The edits of S that are not committed, and the committed ones up to a revision.
Unc(ed, S) == {e \in S : ed[e].at <= 0}
UpTo(ed, st, r) == {e \in st : ed[e].at <= r}
ExclUpTo(ed, st, r) == {x \in UpTo(ed, st, r) : Excl(ed, x)}

\* One of two edits was made in view of the other, unless in an obsolete view.
Seen(ed, x, e) ==
    Here(ed, x) /\ Here(ed, e) => x \in ed[e].view \/ e \in ed[x].view
AllSeen(ed, S) == \A x, e \in S : x # e => Seen(ed, x, e)

\* The edits of S are safe to commit at revision excl, or with a barrier below base.
Guarded(ed, st, S, excl, base) ==
    /\ \A x \in S : Excl(ed, x) =>
          excl # 0 /\ \A e \in UpTo(ed, st, excl) : Seen(ed, x, e)
    /\ \A e \in S, x \in ExclUpTo(ed, st, base) : Seen(ed, x, e)

ReqSerial(ed, st, q) ==
    /\ AllSeen(ed, Unc(ed, q.update))
    /\ Guarded(ed, st, Unc(ed, q.update), q.excl, q.base)

\* Edits of others are in a document only once committed.
Own(ed, c, S) == \A e \in S : ed[e].by = c \/ ed[e].at > 0

\* What was captured since the request was built.
New(ed, s) == Unc(ed, s.doc) \ s.save.update

\* A session, or a draft, keeps what its next request has to be guarded by.
CopySerial(ed, st, c, s, base) ==
    /\ Own(ed, c, s.doc) /\ Own(ed, c, s.save.update)
    /\ AllSeen(ed, Unc(ed, s.doc))
    /\ ReqSerial(ed, st, s.save)
    /\ Guarded(ed, st, New(ed, s), s.excl, base)
    /\ \A x \in New(ed, s) : Excl(ed, x) => s.newExcl
    /\ \A e \in New(ed, s), x \in s.save.update : ed[x].by = c => Seen(ed, x, e)
    /\ New(ed, s) # {} => s.newer
    /\ s.save # NoSave \/ s.newer => base # 0
    /\ s.save # NoSave => base = s.save.base

\* What the view of the present workbook displays.
ViewOK(ed, st, c, s) ==
    /\ \A e \in (s.doc \ s.vector) \cup s.save.update : ed[e].by = c => e \in s.view
    /\ UpTo(ed, st, s.viewRev) \subseteq s.view
    /\ UpTo(ed, st, s.excl) \subseteq s.view
    /\ ExclUpTo(ed, st, s.pending) \subseteq s.view

SessionView(ed, st, c, s) ==
    /\ s.vector \subseteq st
    /\ UpTo(ed, st, s.base) \subseteq s.doc
    /\ CopySerial(ed, st, c, s, s.pending)
    /\ s.phase = "open" /\ s.viewEpoch = s.epoch => ViewOK(ed, st, c, s)

\* The epoch whose row is there.
Now(row, epoch) == epoch = row.epoch /\ epoch # 0

SaveFine(rv, c, s) ==
    /\ s.save # NoSave => s.save.epoch = s.epoch /\ s.save.client[1] = c
    /\ s.save.update \subseteq s.doc
    /\ s.save.base <= rv /\ s.save.excl <= rv

\* Revisions and epochs are past ones.
SessionBounds(row, rv, c, s) ==
    /\ s.viewEpoch <= s.epoch /\ s.epoch <= row.last
    /\ s.base <= rv /\ s.viewRev <= rv /\ s.pending <= rv /\ s.excl <= rv
    /\ s.command # "none" => "capture" \in Gaps
    /\ SaveFine(rv, c, s)

\* A session that works has received, and displayed, no later than that.
Upright(s) ==
    /\ s.viewRev # 0 /\ s.base # 0
    /\ s.viewRev <= s.base /\ s.pending <= s.base /\ s.excl <= s.base

SessionFine(ed, row, rv, c, s) ==
    /\ SessionBounds(row, rv, c, s)
    /\ s.phase = "loading" => s.base = 0 /\ s.vector = {} /\ s.viewEpoch = 0
    /\ s.phase = "open" /\ ~s.conflict => Upright(s)
    /\ Now(row, s.epoch) => SessionView(ed, row.state, c, s)

DraftFine(ed, row, rv, c, d) ==
    /\ d.epoch <= row.last
    /\ d.base <= rv /\ d.viewRev <= rv /\ d.excl <= rv
    /\ SaveFine(rv, c, d)
    /\ Now(row, d.epoch) => CopySerial(ed, row.state, c, d, d.base)

\* An answer is of a revision that the tab has not reached otherwise.
AnswerAhead(a, s, d) ==
    /\ s.epoch <= a.epoch /\ s.viewEpoch <= a.epoch
    /\ s.viewRev <= a.rev /\ s.base <= a.rev /\ s.excl <= a.rev /\ s.pending <= a.rev
    /\ d.base <= a.rev /\ d.viewRev <= a.rev /\ d.excl <= a.rev

\* The commit of request q of tab c raised the revision from previous to revision.
CommitFine(ed, st, c, q, previous, revision) ==
    /\ q.update \subseteq st
    /\ \A e \in st : previous < ed[e].at /\ ed[e].at <= revision =>
          e \in q.update /\ ed[e].by = c
    /\ \A x \in ExclUpTo(ed, st, previous) : ed[x].at <= q.base

CallFine(ed, row, rv, c, k, s, d) ==
    LET a == k.answer
    IN  a.ok =>
        /\ AnswerAhead(a, s, d)
        /\ a.epoch <= row.last /\ a.rev # 0 /\ a.rev <= rv
        /\ a.previous <= a.acked /\ a.acked <= a.rev
        /\ Now(row, a.epoch) =>
            /\ UpTo(ed, row.state, a.rev) = a.state
            /\ \A x \in ExclUpTo(ed, row.state, a.rev) : ed[x].at <= a.barrier
            /\ s.epoch = a.epoch => s.vector \subseteq a.state
            /\ k.kind = "update" =>
                  CommitFine(ed, row.state, c, s.save, a.previous, a.acked)

TabFine(ed, row, rv, c, s, d, k) ==
    /\ SessionFine(ed, row, rv, c, s)
    /\ DraftFine(ed, row, rv, c, d)
    /\ CallFine(ed, row, rv, c, k, s, d)

StrayFine(ed, row, rv, q) ==
    /\ q.epoch <= row.last /\ q.base <= rv /\ q.excl <= rv
    /\ Now(row, q.epoch) =>
          ReqSerial(ed, row.state, q) /\ Own(ed, q.client[1], q.update)

ReceiptsFine(ed, st, rv) ==
    {r \in AnyReceipt :
        /\ r.previous <= r.revision /\ r.revision <= rv
        /\ CommitFine(ed, st, r.request.client[1], r.request, r.previous, r.revision)}

RowFine(ed, row, rv) ==
    /\ row.epoch \in {0, row.last}
    /\ \A e \in DOMAIN ed : ed[e].epoch <= row.last /\ -1 <= ed[e].at /\ ed[e].at <= rv
    /\ row.epoch # 0 =>
          \A e \in DOMAIN ed : ed[e].epoch = row.epoch /\ ed[e].at > 0 => e \in row.state
    /\ \A e \in row.state : ed[e].at > 0
    /\ \A x \in row.state : Excl(ed, x) => ed[x].at <= row.barrier
    /\ \A x, e \in row.state : x # e /\ Excl(ed, x) => Seen(ed, x, e)
    /\ row.receipts \in Seq(ReceiptsFine(ed, row.state, rv))

MergeInv ==
    /\ RowFine(edit, record, rev)
    /\ \A c \in Clients : TabFine(edit, record, rev, c, tab[c], draft[c], call[c])
    /\ \A q \in stray : StrayFine(edit, record, rev, q)

\* What a step of the server, or a capture, does to what others rely on.
Advances(ed, row, rv, ed2, row2, rv2) ==
    /\ rv <= rv2 /\ row.last <= row2.last
    /\ row2.epoch # 0 /\ row2.epoch # row.epoch => row2.epoch > row.last
    /\ row2.epoch # 0 /\ row2.epoch = row.epoch =>
          /\ row.state \subseteq row2.state
          /\ \A e \in row2.state \ row.state : ed2[e].at > rv
    /\ \A e \in DOMAIN ed :
          /\ e \in DOMAIN ed2
          /\ ed2[e].by = ed[e].by /\ ed2[e].view = ed[e].view
          /\ ed2[e].exclusive = ed[e].exclusive
          /\ ed2[e].epoch = ed[e].epoch /\ ed2[e].viewEpoch = ed[e].viewEpoch
          /\ ed[e].at > 0 => ed2[e].at = ed[e].at

-----------------------------------------------------------------------------
(* What others do leaves a holder's guards alone.                            *)

LEMMA EditTypes ==
    ASSUME NEW ed, EditsOK(ed), NEW e \in DOMAIN ed
    PROVE  ed[e] \in AnyEdit /\ ed[e].at \in Int /\ ed[e].epoch \in Nat
<1>1. ed \in Seq(AnyEdit)
  BY DEF EditsOK
<1>2. ed[e] \in AnyEdit
  BY <1>1, ElementOfSeq, LenProperties
<1> QED BY <1>2 DEF AnyEdit

LEMMA NowStays ==
    ASSUME NEW ed, NEW row, NEW rv, NEW ed2, NEW row2, NEW rv2,
           Advances(ed, row, rv, ed2, row2, rv2),
           row.last \in Nat, row2.epoch \in Nat,
           NEW epoch \in Nat, epoch <= row.last, Now(row2, epoch)
    PROVE  Now(row, epoch)
BY DEF Advances, Now

LEMMA UpToStays ==
    ASSUME NEW ed, NEW row, NEW rv, NEW ed2, NEW row2, NEW rv2,
           Advances(ed, row, rv, ed2, row2, rv2), EditsOK(ed), EditsOK(ed2),
           ServerOK(ed, row, rv), ServerOK(ed2, row2, rv2), RowFine(ed, row, rv),
           NEW epoch, Now(row, epoch), Now(row2, epoch), NEW r \in Nat, r <= rv
    PROVE  /\ UpTo(ed2, row2.state, r) = UpTo(ed, row.state, r)
           /\ ExclUpTo(ed2, row2.state, r) = ExclUpTo(ed, row.state, r)
           /\ UpTo(ed, row.state, r) \subseteq DOMAIN ed
<1>1. \A e \in row.state : e \in DOMAIN ed /\ ed[e].at > 0
  BY DEF ServerOK, Settled, RowFine
<1>2. row.state \subseteq row2.state /\ \A e \in row2.state \ row.state : ed2[e].at > rv
  BY DEF Advances, Now
<1>3. \A e \in row2.state : e \in DOMAIN ed2 /\ ed2[e].at \in Int
  BY EditTypes DEF ServerOK, Settled
<1>4. rv \in Nat
  BY DEF ServerOK
<1>5. \A e \in row.state :
          /\ ed2[e].at = ed[e].at /\ ed2[e].exclusive = ed[e].exclusive
          /\ Here(ed2, e) <=> Here(ed, e)
  BY <1>1 DEF Advances, Here
<1>6. UpTo(ed2, row2.state, r) = UpTo(ed, row.state, r)
  BY <1>2, <1>3, <1>4, <1>5 DEF UpTo
<1> QED BY <1>1, <1>5, <1>6 DEF ExclUpTo, UpTo, Excl

\* The same for a set of edits.
LEMMA EditsStay ==
    ASSUME NEW ed, NEW row, NEW rv, NEW ed2, NEW row2, NEW rv2,
           Advances(ed, row, rv, ed2, row2, rv2), EditsOK(ed), EditsOK(ed2),
           NEW S, S \subseteq DOMAIN ed
    PROVE  /\ Unc(ed2, S) \subseteq Unc(ed, S)
           /\ \A x, e \in DOMAIN ed : Seen(ed2, x, e) <=> Seen(ed, x, e)
           /\ \A x \in DOMAIN ed : Excl(ed2, x) <=> Excl(ed, x)
           /\ \A c : Own(ed, c, S) => Own(ed2, c, S)
<1>1. \A e \in DOMAIN ed : /\ e \in DOMAIN ed2 /\ ed[e].at \in Int /\ ed2[e].at \in Int
                           /\ ed2[e].by = ed[e].by /\ ed2[e].view = ed[e].view
                           /\ ed2[e].exclusive = ed[e].exclusive
                           /\ ed[e].at > 0 => ed2[e].at = ed[e].at
  BY EditTypes DEF Advances
<1>2. Unc(ed2, S) \subseteq Unc(ed, S)
  BY <1>1 DEF Unc
<1>3. \A c : Own(ed, c, S) => Own(ed2, c, S)
  BY <1>1 DEF Own
<1>4. \A e \in DOMAIN ed : Here(ed2, e) <=> Here(ed, e)
  BY DEF Advances, Here
<1> QED BY <1>1, <1>2, <1>3, <1>4 DEF Seen, Excl

LEMMA GuardedStays ==
    ASSUME NEW ed, NEW row, NEW rv, NEW ed2, NEW row2, NEW rv2,
           Advances(ed, row, rv, ed2, row2, rv2), EditsOK(ed), EditsOK(ed2),
           ServerOK(ed, row, rv), ServerOK(ed2, row2, rv2), RowFine(ed, row, rv),
           NEW epoch, Now(row, epoch), Now(row2, epoch),
           NEW excl \in Nat, excl <= rv, NEW base \in Nat, base <= rv,
           NEW S, NEW T, S \subseteq DOMAIN ed, T \subseteq S,
           Guarded(ed, row.state, S, excl, base)
    PROVE  Guarded(ed2, row2.state, T, excl, base)
<1>1. /\ UpTo(ed2, row2.state, excl) = UpTo(ed, row.state, excl)
      /\ UpTo(ed, row.state, excl) \subseteq DOMAIN ed
  BY UpToStays
<1>2. /\ ExclUpTo(ed2, row2.state, base) = ExclUpTo(ed, row.state, base)
      /\ UpTo(ed, row.state, base) \subseteq DOMAIN ed
  BY UpToStays
<1>3. /\ \A x, e \in DOMAIN ed : Seen(ed2, x, e) <=> Seen(ed, x, e)
      /\ \A x \in DOMAIN ed : Excl(ed2, x) <=> Excl(ed, x)
  BY EditsStay
<1>4. \A x \in T : Excl(ed2, x) =>
          excl # 0 /\ \A e \in UpTo(ed2, row2.state, excl) : Seen(ed2, x, e)
  BY <1>1, <1>3 DEF Guarded
<1>5. \A e \in T, x \in ExclUpTo(ed2, row2.state, base) : Seen(ed2, x, e)
  BY <1>2, <1>3 DEF Guarded, ExclUpTo
<1> QED BY <1>4, <1>5 DEF Guarded

LEMMA SeenTogether ==
    ASSUME NEW ed, NEW row, NEW rv, NEW ed2, NEW row2, NEW rv2,
           Advances(ed, row, rv, ed2, row2, rv2), EditsOK(ed), EditsOK(ed2),
           NEW S, S \subseteq DOMAIN ed, AllSeen(ed, Unc(ed, S))
    PROVE  AllSeen(ed2, Unc(ed2, S))
<1>1. Unc(ed2, S) \subseteq Unc(ed, S) /\ Unc(ed, S) \subseteq DOMAIN ed
  BY EditsStay DEF Unc
<1>2. \A x, e \in DOMAIN ed : Seen(ed2, x, e) <=> Seen(ed, x, e)
  BY EditsStay
<1> QED BY <1>1, <1>2 DEF AllSeen

LEMMA ReqSerialStays ==
    ASSUME NEW ed, NEW row, NEW rv, NEW ed2, NEW row2, NEW rv2,
           Advances(ed, row, rv, ed2, row2, rv2), EditsOK(ed), EditsOK(ed2),
           ServerOK(ed, row, rv), ServerOK(ed2, row2, rv2), RowFine(ed, row, rv),
           NEW epoch, Now(row, epoch), Now(row2, epoch),
           NEW q \in AnyRequest, q.base <= rv, q.excl <= rv, q.update \subseteq DOMAIN ed,
           ReqSerial(ed, row.state, q)
    PROVE  ReqSerial(ed2, row2.state, q)
<1>1. AllSeen(ed2, Unc(ed2, q.update))
  BY SeenTogether DEF ReqSerial
<1>2. Unc(ed2, q.update) \subseteq Unc(ed, q.update) /\ Unc(ed, q.update) \subseteq DOMAIN ed
  BY EditsStay DEF Unc
<1>3. q.base \in Nat /\ q.excl \in Nat
  BY DEF AnyRequest
<1>4. Guarded(ed2, row2.state, Unc(ed2, q.update), q.excl, q.base)
  BY <1>2, <1>3, GuardedStays DEF ReqSerial
<1> QED BY <1>1, <1>4 DEF ReqSerial

\* s is a session or a draft.
LEMMA CopySerialStays ==
    ASSUME NEW ed, NEW row, NEW rv, NEW ed2, NEW row2, NEW rv2,
           Advances(ed, row, rv, ed2, row2, rv2), EditsOK(ed), EditsOK(ed2),
           ServerOK(ed, row, rv), ServerOK(ed2, row2, rv2), RowFine(ed, row, rv),
           NEW epoch, Now(row, epoch), Now(row2, epoch),
           NEW c, NEW s, NEW base \in Nat, base <= rv, s.excl \in Nat, s.excl <= rv,
           s.save \in AnyRequest, s.save.base <= rv, s.save.excl <= rv,
           s.doc \subseteq DOMAIN ed, s.save.update \subseteq DOMAIN ed,
           CopySerial(ed, row.state, c, s, base)
    PROVE  CopySerial(ed2, row2.state, c, s, base)
<1>1. Own(ed2, c, s.doc) /\ Own(ed2, c, s.save.update)
  BY EditsStay DEF CopySerial
<1>2. AllSeen(ed2, Unc(ed2, s.doc))
  BY SeenTogether DEF CopySerial
<1>3. ReqSerial(ed2, row2.state, s.save)
  BY ReqSerialStays DEF CopySerial
<1>4. /\ \A x, e \in DOMAIN ed : Seen(ed2, x, e) <=> Seen(ed, x, e)
      /\ \A x \in DOMAIN ed : Excl(ed2, x) <=> Excl(ed, x)
      /\ \A x \in DOMAIN ed : ed2[x].by = ed[x].by
  BY EditsStay DEF Advances
<1>5. New(ed2, s) \subseteq New(ed, s) /\ New(ed, s) \subseteq DOMAIN ed
  <2>1. Unc(ed2, s.doc) \subseteq Unc(ed, s.doc)
    BY EditsStay
  <2> QED BY <2>1 DEF New, Unc
<1>6. Guarded(ed2, row2.state, New(ed2, s), s.excl, base)
  BY <1>5, GuardedStays DEF CopySerial
<1>7. \A x \in New(ed2, s) : Excl(ed2, x) => s.newExcl
  BY <1>4, <1>5 DEF CopySerial
<1>8. \A e \in New(ed2, s), x \in s.save.update : ed2[x].by = c => Seen(ed2, x, e)
  BY <1>4, <1>5 DEF CopySerial
<1>9. /\ New(ed2, s) # {} => s.newer
      /\ s.save # NoSave \/ s.newer => base # 0
      /\ s.save # NoSave => base = s.save.base
  BY <1>5 DEF CopySerial
<1> QED BY <1>1, <1>2, <1>3, <1>6, <1>7, <1>8, <1>9 DEF CopySerial

LEMMA SessionFineStays ==
    ASSUME NEW ed, NEW row, NEW rv, NEW ed2, NEW row2, NEW rv2,
           Advances(ed, row, rv, ed2, row2, rv2), EditsOK(ed), EditsOK(ed2),
           ServerOK(ed, row, rv), ServerOK(ed2, row2, rv2), RowFine(ed, row, rv),
           NEW c, NEW s, SessionOK(ed, c, s), SessionFine(ed, row, rv, c, s)
    PROVE  SessionFine(ed2, row2, rv2, c, s)
<1>1. /\ s \in AnySession
      /\ s.epoch \in Nat /\ s.viewEpoch \in Nat /\ s.base \in Nat /\ s.viewRev \in Nat
      /\ s.pending \in Nat /\ s.excl \in Nat /\ s.save \in AnyRequest
      /\ s.save.base \in Nat /\ s.save.excl \in Nat
      /\ s.doc \subseteq DOMAIN ed /\ s.save.update \subseteq DOMAIN ed
  BY DEF SessionOK, AnySession, AnyRequest, Held
<1>2. /\ rv \in Nat /\ rv2 \in Nat /\ rv <= rv2
      /\ row.last \in Nat /\ row2.last \in Nat /\ row.last <= row2.last /\ row2.epoch \in Nat
  BY RowFacts DEF Advances
<1>3. SessionBounds(row2, rv2, c, s)
  BY <1>1, <1>2 DEF SessionFine, SessionBounds, SaveFine
<1>4. ASSUME Now(row2, s.epoch)
      PROVE  SessionView(ed2, row2.state, c, s)
  <2>1. Now(row, s.epoch)
    BY <1>1, <1>2, <1>4, NowStays DEF SessionFine, SessionBounds
  <2>2. SessionView(ed, row.state, c, s)
    BY <2>1 DEF SessionFine
  <2>3. s.vector \subseteq row2.state
    BY <1>4, <2>1, <2>2 DEF SessionView, Advances, Now
  <2>4. CopySerial(ed2, row2.state, c, s, s.pending)
    BY <1>1, <1>4, <2>1, <2>2, CopySerialStays
       DEF SessionFine, SessionBounds, SaveFine, SessionView
  <2>5. \A r \in Nat : r <= rv =>
          /\ UpTo(ed2, row2.state, r) = UpTo(ed, row.state, r)
          /\ ExclUpTo(ed2, row2.state, r) = ExclUpTo(ed, row.state, r)
    BY <1>4, <2>1, UpToStays
  <2>6. \A e \in DOMAIN ed : ed2[e].by = ed[e].by
    BY DEF Advances
  <2>7. ViewOK(ed, row.state, c, s) => ViewOK(ed2, row2.state, c, s)
    BY <1>1, <2>5, <2>6 DEF ViewOK, SessionFine, SessionBounds
  <2> QED BY <1>1, <2>2, <2>3, <2>4, <2>5, <2>7 DEF SessionView, SessionFine, SessionBounds
<1> QED BY <1>3, <1>4 DEF SessionFine

LEMMA DraftFineStays ==
    ASSUME NEW ed, NEW row, NEW rv, NEW ed2, NEW row2, NEW rv2,
           Advances(ed, row, rv, ed2, row2, rv2), EditsOK(ed), EditsOK(ed2),
           ServerOK(ed, row, rv), ServerOK(ed2, row2, rv2), RowFine(ed, row, rv),
           NEW c, NEW d, DraftOK(ed, c, d), DraftFine(ed, row, rv, c, d)
    PROVE  DraftFine(ed2, row2, rv2, c, d)
<1>1. /\ d.epoch \in Nat /\ d.base \in Nat /\ d.viewRev \in Nat /\ d.excl \in Nat
      /\ d.save \in AnyRequest /\ d.save.base \in Nat /\ d.save.excl \in Nat
      /\ d.doc \subseteq DOMAIN ed /\ d.save.update \subseteq DOMAIN ed
  BY DEF DraftOK, AnyDraft, AnyRequest, Held
<1>2. /\ rv \in Nat /\ rv2 \in Nat /\ rv <= rv2
      /\ row.last \in Nat /\ row2.last \in Nat /\ row.last <= row2.last /\ row2.epoch \in Nat
  BY RowFacts DEF Advances
<1>3. ASSUME Now(row2, d.epoch)
      PROVE  CopySerial(ed2, row2.state, c, d, d.base)
  <2>1. Now(row, d.epoch)
    BY <1>1, <1>2, <1>3, NowStays DEF DraftFine
  <2> QED BY <1>1, <1>3, <2>1, CopySerialStays DEF DraftFine, SaveFine
<1> QED BY <1>1, <1>2, <1>3 DEF DraftFine, SaveFine

LEMMA CommitFineStays ==
    ASSUME NEW ed, NEW row, NEW rv, NEW ed2, NEW row2, NEW rv2,
           Advances(ed, row, rv, ed2, row2, rv2), EditsOK(ed), EditsOK(ed2),
           ServerOK(ed, row, rv), ServerOK(ed2, row2, rv2), RowFine(ed, row, rv),
           NEW epoch, Now(row, epoch), Now(row2, epoch),
           NEW c, NEW q, NEW previous \in Nat, NEW revision \in Nat,
           previous <= revision, revision <= rv,
           CommitFine(ed, row.state, c, q, previous, revision)
    PROVE  CommitFine(ed2, row2.state, c, q, previous, revision)
<1>1. row.state \subseteq row2.state /\ \A e \in row2.state \ row.state : ed2[e].at > rv
  BY DEF Advances, Now
<1>2. \A e \in row.state : /\ e \in DOMAIN ed /\ ed[e].at \in Int /\ ed[e].at > 0
                           /\ ed2[e].at = ed[e].at /\ ed2[e].by = ed[e].by
  <2>1. \A e \in row.state : e \in DOMAIN ed /\ ed[e].at > 0
    BY DEF ServerOK, Settled, RowFine
  <2> QED BY <2>1, EditTypes DEF Advances
<1>3. \A e \in row2.state : ed2[e].at \in Int
  BY EditTypes DEF ServerOK, Settled
<1>4. rv \in Nat
  BY RowFacts
<1>5. \A e \in row2.state : ed2[e].at <= revision => e \in row.state
  BY <1>1, <1>3, <1>4
<1>6. \A e \in row2.state : previous < ed2[e].at /\ ed2[e].at <= revision =>
          e \in q.update /\ ed2[e].by = c
  BY <1>2, <1>5 DEF CommitFine
<1>7. ExclUpTo(ed2, row2.state, previous) = ExclUpTo(ed, row.state, previous)
  BY <1>4, UpToStays
<1>8. \A x \in ExclUpTo(ed2, row2.state, previous) : ed2[x].at <= q.base
  BY <1>2, <1>7 DEF CommitFine, ExclUpTo, UpTo
<1>9. q.update \subseteq row2.state
  BY <1>1 DEF CommitFine
<1> QED BY <1>6, <1>8, <1>9 DEF CommitFine

LEMMA CallFineStays ==
    ASSUME NEW ed, NEW row, NEW rv, NEW ed2, NEW row2, NEW rv2,
           Advances(ed, row, rv, ed2, row2, rv2), EditsOK(ed), EditsOK(ed2),
           ServerOK(ed, row, rv), ServerOK(ed2, row2, rv2), RowFine(ed, row, rv),
           NEW c, NEW s, NEW d, NEW k \in AnyCall, CallFine(ed, row, rv, c, k, s, d)
    PROVE  CallFine(ed2, row2, rv2, c, k, s, d)
<1> DEFINE a == k.answer
<1> SUFFICES ASSUME a.ok
             PROVE  CallFine(ed2, row2, rv2, c, k, s, d)
  BY DEF CallFine
<1>1. /\ a.epoch \in Nat /\ a.rev \in Nat /\ a.previous \in Nat /\ a.acked \in Nat
  BY DEF AnyCall, AnyAnswer
<1>2. /\ rv \in Nat /\ rv2 \in Nat /\ rv <= rv2
      /\ row.last \in Nat /\ row2.last \in Nat /\ row.last <= row2.last /\ row2.epoch \in Nat
  BY RowFacts DEF Advances
<1>3. /\ AnswerAhead(a, s, d)
      /\ a.epoch <= row.last /\ a.rev # 0 /\ a.rev <= rv
      /\ a.previous <= a.acked /\ a.acked <= a.rev
  BY DEF CallFine
<1>4. ASSUME Now(row2, a.epoch)
      PROVE  /\ UpTo(ed2, row2.state, a.rev) = a.state
             /\ \A x \in ExclUpTo(ed2, row2.state, a.rev) : ed2[x].at <= a.barrier
             /\ s.epoch = a.epoch => s.vector \subseteq a.state
             /\ k.kind = "update" =>
                   CommitFine(ed2, row2.state, c, s.save, a.previous, a.acked)
  <2>1. Now(row, a.epoch)
    BY <1>1, <1>2, <1>3, <1>4, NowStays
  <2>2. /\ UpTo(ed, row.state, a.rev) = a.state
        /\ \A x \in ExclUpTo(ed, row.state, a.rev) : ed[x].at <= a.barrier
        /\ s.epoch = a.epoch => s.vector \subseteq a.state
        /\ k.kind = "update" =>
              CommitFine(ed, row.state, c, s.save, a.previous, a.acked)
    BY <2>1 DEF CallFine
  <2>3. /\ UpTo(ed2, row2.state, a.rev) = UpTo(ed, row.state, a.rev)
        /\ ExclUpTo(ed2, row2.state, a.rev) = ExclUpTo(ed, row.state, a.rev)
        /\ UpTo(ed, row.state, a.rev) \subseteq DOMAIN ed
    BY <1>1, <1>3, <1>4, <2>1, UpToStays
  <2>4. \A x \in ExclUpTo(ed, row.state, a.rev) : ed2[x].at = ed[x].at
    <3>1. \A x \in row.state : ed[x].at > 0
      BY DEF RowFine
    <3> QED BY <2>3, <3>1 DEF ExclUpTo, UpTo, Advances
  <2>5. a.acked <= rv
    BY <1>1, <1>2, <1>3
  <2> HIDE DEF a
  <2>6. k.kind = "update" => CommitFine(ed2, row2.state, c, s.save, a.previous, a.acked)
    BY <1>1, <1>3, <1>4, <2>1, <2>2, <2>5, CommitFineStays DEF Now
  <2> QED BY <2>2, <2>3, <2>4, <2>6
<1>5. a.epoch <= row2.last /\ a.rev <= rv2
  BY <1>1, <1>2, <1>3
<1> HIDE DEF a
<1> QED BY <1>3, <1>4, <1>5 DEF CallFine, a

LEMMA StrayFineStays ==
    ASSUME NEW ed, NEW row, NEW rv, NEW ed2, NEW row2, NEW rv2,
           Advances(ed, row, rv, ed2, row2, rv2), EditsOK(ed), EditsOK(ed2),
           ServerOK(ed, row, rv), ServerOK(ed2, row2, rv2), RowFine(ed, row, rv),
           NEW q, StrayOK(ed, q), StrayFine(ed, row, rv, q)
    PROVE  StrayFine(ed2, row2, rv2, q)
<1>1. /\ q \in AnyRequest /\ q.epoch \in Nat /\ q.base \in Nat /\ q.excl \in Nat
      /\ q.update \subseteq DOMAIN ed
  BY DEF StrayOK, AnyRequest, Held
<1>2. /\ rv \in Nat /\ rv2 \in Nat /\ rv <= rv2
      /\ row.last \in Nat /\ row2.last \in Nat /\ row.last <= row2.last /\ row2.epoch \in Nat
  BY RowFacts DEF Advances
<1>3. ASSUME Now(row2, q.epoch)
      PROVE  ReqSerial(ed2, row2.state, q) /\ Own(ed2, q.client[1], q.update)
  <2>1. Now(row, q.epoch)
    BY <1>1, <1>2, <1>3, NowStays DEF StrayFine
  <2>2. ReqSerial(ed2, row2.state, q)
    BY <1>1, <1>3, <2>1, ReqSerialStays DEF StrayFine
  <2>3. Own(ed2, q.client[1], q.update)
    BY <1>1, <2>1, EditsStay DEF StrayFine
  <2> QED BY <2>2, <2>3
<1> QED BY <1>1, <1>2, <1>3 DEF StrayFine

\* What others do leaves a tab alone.
LEMMA TabFineStays ==
    ASSUME NEW ed, NEW row, NEW rv, NEW ed2, NEW row2, NEW rv2,
           Advances(ed, row, rv, ed2, row2, rv2), EditsOK(ed), EditsOK(ed2),
           ServerOK(ed, row, rv), ServerOK(ed2, row2, rv2), RowFine(ed, row, rv),
           NEW c, NEW s, NEW d, NEW k, TabOK(ed, c, s, d, k),
           TabFine(ed, row, rv, c, s, d, k)
    PROVE  TabFine(ed2, row2, rv2, c, s, d, k)
<1>1. SessionFine(ed2, row2, rv2, c, s)
  BY SessionFineStays DEF TabOK, TabFine
<1>2. DraftFine(ed2, row2, rv2, c, d)
  BY DraftFineStays DEF TabOK, TabFine
<1>3. CallFine(ed2, row2, rv2, c, k, s, d)
  BY CallFineStays DEF TabOK, TabFine, CallOK
<1> QED BY <1>1, <1>2, <1>3 DEF TabFine

LEMMA ReceiptsFineStay ==
    ASSUME NEW ed, NEW row, NEW rv, NEW ed2, NEW row2, NEW rv2,
           Advances(ed, row, rv, ed2, row2, rv2), EditsOK(ed), EditsOK(ed2),
           ServerOK(ed, row, rv), ServerOK(ed2, row2, rv2), RowFine(ed, row, rv),
           NEW epoch, Now(row, epoch), Now(row2, epoch)
    PROVE  ReceiptsFine(ed, row.state, rv) \subseteq ReceiptsFine(ed2, row2.state, rv2)
<1> SUFFICES ASSUME NEW r \in ReceiptsFine(ed, row.state, rv)
             PROVE  r \in ReceiptsFine(ed2, row2.state, rv2)
  OBVIOUS
<1>1. /\ r \in AnyReceipt /\ r.previous <= r.revision /\ r.revision <= rv
      /\ CommitFine(ed, row.state, r.request.client[1], r.request, r.previous, r.revision)
      /\ r.previous \in Nat /\ r.revision \in Nat
  BY DEF ReceiptsFine, AnyReceipt
<1>2. CommitFine(ed2, row2.state, r.request.client[1], r.request, r.previous, r.revision)
  BY <1>1, CommitFineStays
<1>3. rv \in Nat /\ rv2 \in Nat /\ rv <= rv2
  BY RowFacts DEF Advances
<1>4. r.revision <= rv2
  BY <1>1, <1>3
<1> QED BY <1>1, <1>2, <1>4 DEF ReceiptsFine
-----------------------------------------------------------------------------
(* The transaction.                                                          *)

LEMMA MarkedFields ==
    ASSUME NEW ed, EditsOK(ed), NEW S, NEW n \in Int \ {0}, NEW new, Marks(ed, S, n, new)
    PROVE  /\ EditsOK(new) /\ DOMAIN new = DOMAIN ed
           /\ \A e \in DOMAIN ed :
                /\ new[e].by = ed[e].by /\ new[e].view = ed[e].view
                /\ new[e].exclusive = ed[e].exclusive
                /\ new[e].viewEpoch = ed[e].viewEpoch /\ new[e].epoch = ed[e].epoch
                /\ e \in S => new[e].at = n
                /\ e \notin S => new[e].at = ed[e].at
<1>1. \A r \in AnyEdit : LET x == [r EXCEPT !.at = n]
                         IN  /\ x.by = r.by /\ x.view = r.view /\ x.exclusive = r.exclusive
                             /\ x.viewEpoch = r.viewEpoch /\ x.epoch = r.epoch /\ x.at = n
  BY DEF AnyEdit
<1>2. \A e \in DOMAIN ed : ed[e] \in AnyEdit
  BY EditTypes
<1>3. EditsOK(new) /\ DOMAIN new = DOMAIN ed
  BY MarkedOK
<1> QED BY <1>1, <1>2, <1>3 DEF Marks

\* What a commit without a receipt does.
LEMMA CommitFields ==
    ASSUME EditsOK(edit), ServerOK(edit, record, rev),
           RowFine(edit, record, rev), NEW q, StrayOK(edit, q),
           ~Refused(q), Commit(q), Receipts(q) = {}
    PROVE  LET new == q.update \ record.state
           IN  /\ Now(record, q.epoch) /\ Now(record', q.epoch)
               /\ record.barrier <= q.base /\ (q.excl # 0 => q.excl = rev)
               /\ rev' = IF new = {} THEN rev ELSE rev + 1
               /\ record'.last = record.last /\ record'.state = record.state \cup new
               /\ record'.barrier = IF new # {} /\ q.excl # 0 THEN rev' ELSE record.barrier
               /\ record'.receipts = AddReceipt(q, rev')
               /\ DOMAIN edit' = DOMAIN edit /\ EditsOK(edit')
               /\ \A e \in new : e \in DOMAIN edit /\ edit[e].at <= 0
               /\ \A e \in DOMAIN edit :
                    /\ edit'[e].by = edit[e].by /\ edit'[e].view = edit[e].view
                    /\ edit'[e].exclusive = edit[e].exclusive
                    /\ edit'[e].viewEpoch = edit[e].viewEpoch /\ edit'[e].epoch = edit[e].epoch
                    /\ edit'[e].at = IF e \in new THEN rev' ELSE edit[e].at
<1> DEFINE new == q.update \ record.state
           S == {e \in q.update : e \in DOMAIN edit /\ edit[e].at \in {0, -1}}
<1>1. record.epoch # 0 /\ q.epoch = record.epoch
      /\ ~(q.base < record.barrier) /\ (q.excl # 0 => q.excl = rev)
  BY DEF Refused
<1>2. /\ rev' = IF new = {} THEN rev ELSE rev + 1
      /\ record' = [record EXCEPT
             !.state = record.state \cup q.update,
             !.barrier = IF new # {} /\ q.excl # 0 THEN rev' ELSE record.barrier,
             !.receipts = AddReceipt(q, rev')]
      /\ edit' = [e \in DOMAIN edit |->
                    IF e \in S THEN [edit[e] EXCEPT !.at = rev'] ELSE edit[e]]
  <2>1. new = {} <=> q.update \subseteq record.state
    OBVIOUS
  <2> HIDE DEF new
  <2> QED BY <2>1 DEF Commit
<1>3. \A e \in q.update : e \in DOMAIN edit /\ edit[e].epoch = record.epoch
                          /\ edit[e].at \in Int /\ -1 <= edit[e].at
  <2>1. \A e \in q.update : e \in DOMAIN edit /\ edit[e].epoch = record.epoch
    BY <1>1 DEF StrayOK, Held
  <2> QED BY <2>1, EditTypes DEF RowFine
<1>4. \A e \in new : e \in DOMAIN edit /\ edit[e].at \in {0, -1}
  BY <1>1, <1>3 DEF RowFine
<1>5. S = new
  BY <1>4 DEF RowFine
<1>6. rev \in Nat \ {0} /\ rev' \in Int \ {0} /\ record.barrier \in Nat /\ q.base \in Nat
  BY <1>2, RowFacts DEF ServerOK, StrayOK, AnyRequest
<1>7. Marks(edit, new, rev', edit')
  BY <1>2, <1>5 DEF Marks
<1> HIDE DEF S, new
<1>8. /\ EditsOK(edit') /\ DOMAIN edit' = DOMAIN edit
      /\ \A e \in DOMAIN edit :
           /\ edit'[e].by = edit[e].by /\ edit'[e].view = edit[e].view
           /\ edit'[e].exclusive = edit[e].exclusive
           /\ edit'[e].viewEpoch = edit[e].viewEpoch /\ edit'[e].epoch = edit[e].epoch
           /\ e \in new => edit'[e].at = rev'
           /\ e \notin new => edit'[e].at = edit[e].at
  BY <1>6, <1>7, MarkedFields
<1>9. record \in AnyRow(edit)
  BY DEF ServerOK
<1>10. /\ record'.epoch = record.epoch /\ record'.last = record.last
       /\ record'.state = record.state \cup q.update
       /\ record'.barrier = IF new # {} /\ q.excl # 0 THEN rev' ELSE record.barrier
       /\ record'.receipts = AddReceipt(q, rev')
  BY <1>2, <1>9 DEF AnyRow
<1>11. record'.state = record.state \cup new
  BY <1>10 DEF new
<1>12. record.barrier <= q.base
  BY <1>1, <1>6
<1>13. Now(record, q.epoch) /\ Now(record', q.epoch)
  BY <1>1, <1>10 DEF Now
<1>14. \A e \in new : edit[e].at <= 0
  BY <1>4
<1> QED BY <1>1, <1>2, <1>4, <1>8, <1>10, <1>11, <1>12, <1>13, <1>14 DEF new

LEMMA CommitMerges ==
    ASSUME EditsOK(edit), ServerOK(edit, record, rev),
           ServerOK(edit', record', rev'), RowFine(edit, record, rev),
           NEW q, StrayOK(edit, q), StrayFine(edit, record, rev, q),
           ~Refused(q), Commit(q), Receipts(q) = {}
    PROVE  /\ Advances(edit, record, rev, edit', record', rev')
           /\ RowFine(edit', record', rev')
           /\ CommitFine(edit', record'.state, q.client[1], q, rev, rev')
<1> DEFINE new == q.update \ record.state
<1>1. /\ Now(record, q.epoch) /\ Now(record', q.epoch)
      /\ record.barrier <= q.base /\ (q.excl # 0 => q.excl = rev)
      /\ rev' = IF new = {} THEN rev ELSE rev + 1
      /\ record'.last = record.last /\ record'.state = record.state \cup new
      /\ record'.barrier = IF new # {} /\ q.excl # 0 THEN rev' ELSE record.barrier
      /\ record'.receipts = AddReceipt(q, rev')
      /\ DOMAIN edit' = DOMAIN edit /\ EditsOK(edit')
      /\ \A e \in new : e \in DOMAIN edit /\ edit[e].at <= 0
      /\ \A e \in DOMAIN edit :
           /\ edit'[e].by = edit[e].by /\ edit'[e].view = edit[e].view
           /\ edit'[e].exclusive = edit[e].exclusive
           /\ edit'[e].viewEpoch = edit[e].viewEpoch /\ edit'[e].epoch = edit[e].epoch
           /\ edit'[e].at = IF e \in new THEN rev' ELSE edit[e].at
  BY CommitFields
<1>2. /\ rev \in Nat /\ rev' \in Nat /\ rev <= rev' /\ (new # {} => rev < rev')
      /\ record.last \in Nat /\ record.barrier \in Nat /\ q.base \in Nat /\ q.excl \in Nat
  <2>1. /\ rev \in Nat /\ record.last \in Nat /\ record.barrier \in Nat
    BY RowFacts
  <2>2. q.base \in Nat /\ q.excl \in Nat
    BY DEF StrayOK, AnyRequest
  <2>3. rev' = IF new = {} THEN rev ELSE rev + 1
    BY <1>1
  <2> HIDE DEF new
  <2> QED BY <2>1, <2>2, <2>3
<1>3. /\ new \subseteq q.update
      /\ ReqSerial(edit, record.state, q) /\ Own(edit, q.client[1], q.update)
  BY <1>1 DEF StrayFine
<1> HIDE DEF new
<1>4. \A e \in record.state : e \in DOMAIN edit /\ e \notin new /\ edit[e].at \in Int
                              /\ 0 < edit[e].at /\ edit[e].at <= rev
  <2>1. \A e \in record.state : e \in DOMAIN edit
    BY DEF ServerOK, Settled
  <2> QED BY <2>1, EditTypes DEF RowFine, new
<1>5. Advances(edit, record, rev, edit', record', rev')
  <2>1. \A e \in record'.state \ record.state : edit'[e].at > rev
    BY <1>1, <1>2
  <2>2. \A e \in DOMAIN edit : edit[e].at > 0 => edit'[e].at = edit[e].at
    BY <1>1, EditTypes
  <2> QED BY <1>1, <1>2, <2>1, <2>2 DEF Advances, Now
<1>6. /\ \A x, e \in DOMAIN edit : Seen(edit', x, e) <=> Seen(edit, x, e)
      /\ \A x \in DOMAIN edit : Excl(edit', x) <=> Excl(edit, x)
  BY <1>1 DEF Seen, Excl, Here
<1>7. \A x, e \in record'.state : x # e /\ Excl(edit', x) => Seen(edit', x, e)
  <2> SUFFICES ASSUME NEW x \in record.state \cup new, NEW e \in record.state \cup new,
                      x # e, Excl(edit, x)
               PROVE  Seen(edit, x, e)
    BY <1>1, <1>4, <1>6
  <2>1. CASE x \in record.state /\ e \in record.state
    BY <2>1 DEF RowFine
  <2>2. CASE x \in new /\ e \in new
    BY <1>1, <1>3, <2>2 DEF ReqSerial, AllSeen, Unc
  <2>3. CASE x \in new /\ e \in record.state
    <3>1. x \in Unc(edit, q.update)
      BY <1>1, <1>3, <2>3 DEF Unc
    <3>2. q.excl # 0 /\ \A y \in UpTo(edit, record.state, q.excl) : Seen(edit, x, y)
      BY <1>3, <3>1 DEF ReqSerial, Guarded
    <3>3. e \in UpTo(edit, record.state, q.excl)
      BY <1>1, <1>4, <2>3, <3>2 DEF UpTo
    <3> QED BY <3>2, <3>3
  <2>4. CASE x \in record.state /\ e \in new
    <3>1. e \in Unc(edit, q.update)
      BY <1>1, <1>3, <2>4 DEF Unc
    <3>2. edit[x].at <= record.barrier
      BY <2>4 DEF RowFine
    <3>3. x \in ExclUpTo(edit, record.state, q.base)
      BY <1>1, <1>2, <1>4, <2>4, <3>2 DEF ExclUpTo, UpTo
    <3> QED BY <1>3, <3>1, <3>3 DEF ReqSerial, Guarded
  <2> QED BY <2>1, <2>2, <2>3, <2>4
<1>8. \A x \in record'.state : Excl(edit', x) => edit'[x].at <= record'.barrier
  <2> SUFFICES ASSUME NEW x \in record.state \cup new, Excl(edit, x)
               PROVE  edit'[x].at <= record'.barrier
    BY <1>1, <1>4, <1>6
  <2>1. CASE x \in new
    <3>1. x \in Unc(edit, q.update)
      BY <1>1, <1>3, <2>1 DEF Unc
    <3>2. q.excl # 0
      BY <1>3, <3>1 DEF ReqSerial, Guarded
    <3> QED BY <1>1, <1>2, <2>1, <3>2
  <2>2. CASE x \in record.state
    <3>1. edit[x].at <= record.barrier /\ edit'[x].at = edit[x].at
      BY <1>1, <1>4, <2>2 DEF RowFine
    <3> QED BY <1>1, <1>2, <1>4, <2>2, <3>1
  <2> QED BY <2>1, <2>2
<1>9. CommitFine(edit', record'.state, q.client[1], q, rev, rev')
  <2>1. q.update \subseteq record'.state
    BY <1>1 DEF new
  <2>2. \A e \in record'.state : rev < edit'[e].at /\ edit'[e].at <= rev' =>
            e \in q.update /\ edit'[e].by = q.client[1]
    <3> SUFFICES ASSUME NEW e \in record.state \cup new, rev < edit'[e].at
                 PROVE  e \in q.update /\ edit'[e].by = q.client[1]
      BY <1>1
    <3>1. e \in new
      BY <1>1, <1>2, <1>4
    <3>2. ~(edit[e].at > 0)
      BY <1>1, <3>1, EditTypes
    <3> QED BY <1>1, <1>3, <3>1, <3>2 DEF Own
  <2>3. \A x \in ExclUpTo(edit', record'.state, rev) : edit'[x].at <= q.base
    <3> SUFFICES ASSUME NEW x \in record.state \cup new, Excl(edit', x), edit'[x].at <= rev
                 PROVE  edit'[x].at <= q.base
      BY <1>1 DEF ExclUpTo, UpTo
    <3>1. x \in record.state
      BY <1>1, <1>2
    <3>2. Excl(edit, x) /\ edit'[x].at = edit[x].at /\ edit[x].at \in Int
      BY <1>1, <1>4, <1>6, <3>1
    <3>3. edit[x].at <= record.barrier
      BY <3>1, <3>2 DEF RowFine
    <3> QED BY <1>1, <1>2, <3>2, <3>3
  <2> QED BY <2>1, <2>2, <2>3 DEF CommitFine
<1>10. record'.receipts \in Seq(ReceiptsFine(edit', record'.state, rev'))
  <2>1. ReceiptsFine(edit, record.state, rev)
            \subseteq ReceiptsFine(edit', record'.state, rev')
    <3>1. Now(record, q.epoch) /\ Now(record', q.epoch) /\ EditsOK(edit')
      BY <1>1
    <3> QED BY <1>5, <3>1, ReceiptsFineStay
  <2>2. record.receipts \in Seq(ReceiptsFine(edit', record'.state, rev'))
    BY <2>1, SeqMonotonic DEF RowFine
  <2>3. [request |-> q, previous |-> rev, revision |-> rev']
            \in ReceiptsFine(edit', record'.state, rev')
    BY <1>2, <1>9 DEF ReceiptsFine, AnyReceipt, StrayOK
  <2>4. AddReceipt(q, rev') \in Seq(ReceiptsFine(edit', record'.state, rev'))
    BY <2>2, <2>3, ReceiptsAdded
  <2> QED BY <1>1, <2>4
<1>11. RowFine(edit', record', rev')
  <2>1. record'.epoch \in {0, record'.last} /\ record'.epoch = record.epoch
    BY <1>1 DEF RowFine, Now
  <2>2. \A e \in DOMAIN edit' : /\ edit'[e].epoch <= record'.last
                                /\ -1 <= edit'[e].at /\ edit'[e].at <= rev'
    BY <1>1, <1>2, EditTypes DEF RowFine
  <2>3. \A e \in DOMAIN edit' :
            edit'[e].epoch = record'.epoch /\ edit'[e].at > 0 => e \in record'.state
    BY <1>1, <2>1 DEF RowFine, Now
  <2>4. \A e \in record'.state : edit'[e].at > 0
    BY <1>1, <1>2, <1>4
  <2> QED BY <1>7, <1>8, <1>10, <2>1, <2>2, <2>3, <2>4 DEF RowFine
<1> QED BY <1>5, <1>9, <1>11

LEMMA SameAdvances ==
    ASSUME NEW ed, NEW row, NEW rv, ServerOK(ed, row, rv)
    PROVE  Advances(ed, row, rv, ed, row, rv)
BY RowFacts DEF Advances

\* A receipt speaks of a commit that was made.
LEMMA ReceiptFacts ==
    ASSUME RowFine(edit, record, rev), NEW q, NEW r \in Receipts(q)
    PROVE  /\ r.previous \in Nat /\ r.revision \in Nat
           /\ r.previous <= r.revision /\ r.revision <= rev
           /\ CommitFine(edit, record.state, q.client[1], q, r.previous, r.revision)
<1>1. PICK i \in DOMAIN record.receipts : r = record.receipts[i]
  BY DEF Receipts, ToSet
<1>2. r \in ReceiptsFine(edit, record.state, rev)
  BY <1>1, ElementOfSeq, LenProperties DEF RowFine
<1>3. r.request = q
  BY DEF Receipts
<1> QED BY <1>2, <1>3 DEF ReceiptsFine, AnyReceipt

\* An answer tells the present state.
LEMMA AnswerFine ==
    ASSUME Inv', RowFine(edit', record', rev'), record'.epoch # 0,
           NEW c \in Clients, SessionFine(edit', record', rev', c, tab'[c]),
           DraftFine(edit', record', rev', c, draft'[c]),
           NEW previous \in Nat, NEW acked \in Nat, previous <= acked, acked <= rev',
           NEW k, k.answer = Answer(previous, acked),
           k.kind = "update" =>
               CommitFine(edit', record'.state, c, tab'[c].save, previous, acked)
    PROVE  CallFine(edit', record', rev', c, k, tab'[c], draft'[c])
<1> DEFINE s == tab'[c]
           d == draft'[c]
           a == k.answer
<1>1. /\ a.epoch = record'.epoch /\ a.rev = rev' /\ a.barrier = record'.barrier
      /\ a.state = record'.state /\ a.previous = previous /\ a.acked = acked
  BY DEF Answer
<1>2. /\ s \in AnySession /\ d \in AnyDraft /\ ServerOK(edit', record', rev')
  BY DEF Inv
<1>3. /\ rev' \in Nat \ {0} /\ record'.epoch = record'.last /\ record'.last \in Nat
  BY <1>2, RowFacts DEF ServerOK, RowFine
<1> HIDE DEF s, d, a
<1>4. AnswerAhead(a, s, d)
  BY <1>1, <1>2, <1>3
     DEF AnswerAhead, SessionFine, SessionBounds, DraftFine, AnySession, AnyDraft, s, d
<1>5. \A e \in record'.state : e \in DOMAIN edit' /\ edit'[e].at <= rev'
  BY <1>2 DEF ServerOK, Settled, RowFine
<1>6. UpTo(edit', record'.state, a.rev) = a.state
  BY <1>1, <1>5 DEF UpTo
<1>7. \A x \in ExclUpTo(edit', record'.state, a.rev) : edit'[x].at <= a.barrier
  BY <1>1 DEF ExclUpTo, UpTo, RowFine
<1>8. Now(record', a.epoch) /\ s.epoch = a.epoch => s.vector \subseteq a.state
  BY <1>1 DEF SessionFine, SessionView, s, Now
<1>9. /\ a.epoch <= record'.last /\ a.rev # 0 /\ a.rev <= rev'
      /\ a.previous <= a.acked /\ a.acked <= a.rev
  BY <1>1, <1>3
<1> QED BY <1>1, <1>4, <1>6, <1>7, <1>8, <1>9 DEF CallFine, s, d, a

-----------------------------------------------------------------------------
(* Steps.                                                                    *)

\* A step of one tab, of the server, or of both.
LEMMA FineStep ==
    ASSUME Inv, Inv', MergeInv, NEW c \in Clients,
           Advances(edit, record, rev, edit', record', rev'), RowFine(edit', record', rev'),
           \A x \in Clients \ {c} : /\ tab'[x] = tab[x] /\ draft'[x] = draft[x]
                                    /\ call'[x] = call[x],
           TabFine(edit', record', rev', c, tab'[c], draft'[c], call'[c]),
           \A q \in stray' : q \in stray \/ StrayFine(edit', record', rev', q)
    PROVE  MergeInv'
<1>1. /\ EditsOK(edit) /\ EditsOK(edit') /\ RowFine(edit, record, rev)
      /\ ServerOK(edit, record, rev) /\ ServerOK(edit', record', rev')
  BY DEF Inv, MergeInv
<1>2. ASSUME NEW x \in Clients
      PROVE  TabFine(edit', record', rev', x, tab'[x], draft'[x], call'[x])
  <2>1. CASE x = c
    BY <2>1
  <2>2. CASE x # c
    <3>1. /\ TabOK(edit, x, tab[x], draft[x], call[x])
          /\ TabFine(edit, record, rev, x, tab[x], draft[x], call[x])
      BY DEF Inv, MergeInv
    <3>2. TabFine(edit', record', rev', x, tab[x], draft[x], call[x])
      BY <1>1, <3>1, TabFineStays
    <3> QED BY <2>2, <3>2
  <2> QED BY <2>1, <2>2
<1>3. ASSUME NEW q \in stray'
      PROVE  StrayFine(edit', record', rev', q)
  <2>1. CASE q \in stray
    <3>1. StrayOK(edit, q) /\ StrayFine(edit, record, rev, q)
      BY <2>1 DEF Inv, MergeInv
    <3> QED BY <1>1, <3>1, StrayFineStays
  <2> QED BY <2>1
<1> QED BY <1>2, <1>3 DEF MergeInv

\* A step of the server that no tab takes part in.
LEMMA FineServerStep ==
    ASSUME Inv, Inv', MergeInv,
           Advances(edit, record, rev, edit', record', rev'), RowFine(edit', record', rev'),
           UNCHANGED <<tab, draft, call>>, stray' \subseteq stray
    PROVE  MergeInv'
<1>1. /\ EditsOK(edit) /\ EditsOK(edit') /\ RowFine(edit, record, rev)
      /\ ServerOK(edit, record, rev) /\ ServerOK(edit', record', rev')
  BY DEF Inv, MergeInv
<1>2. ASSUME NEW x \in Clients
      PROVE  TabFine(edit', record', rev', x, tab[x], draft[x], call[x])
  <2>1. /\ TabOK(edit, x, tab[x], draft[x], call[x])
        /\ TabFine(edit, record, rev, x, tab[x], draft[x], call[x])
    BY DEF Inv, MergeInv
  <2> QED BY <1>1, <2>1, TabFineStays
<1>3. ASSUME NEW q \in stray'
      PROVE  StrayFine(edit', record', rev', q)
  <2>1. StrayOK(edit, q) /\ StrayFine(edit, record, rev, q)
    BY DEF Inv, MergeInv
  <2> QED BY <1>1, <2>1, StrayFineStays
<1> QED BY <1>2, <1>3 DEF MergeInv

\* What MergeInv says of one tab.
LEMMA TabFineFacts ==
    ASSUME MergeInv, NEW c \in Clients
    PROVE  /\ SessionFine(edit, record, rev, c, tab[c])
           /\ DraftFine(edit, record, rev, c, draft[c])
           /\ CallFine(edit, record, rev, c, call[c], tab[c], draft[c])
           /\ RowFine(edit, record, rev)
BY DEF MergeInv, TabFine

\* A step of one tab and the server that changes nothing of the tab but its call.
LEMMA FineCallStep ==
    ASSUME Inv, Inv', MergeInv, NEW c \in Clients, NEW k, call' = [call EXCEPT ![c] = k],
           Advances(edit, record, rev, edit', record', rev'), RowFine(edit', record', rev'),
           UNCHANGED <<tab, draft>>,
           CallFine(edit', record', rev', c, k, tab'[c], draft'[c]),
           \A q \in stray' : q \in stray \/ StrayFine(edit', record', rev', q)
    PROVE  MergeInv'
<1>1. /\ call'[c] = k /\ \A x \in Clients \ {c} : call'[x] = call[x]
  BY DEF Inv
<1>2. TabOK(edit, c, tab[c], draft[c], call[c])
  BY DEF Inv
<1>3. /\ EditsOK(edit) /\ EditsOK(edit') /\ RowFine(edit, record, rev)
      /\ ServerOK(edit, record, rev) /\ ServerOK(edit', record', rev')
  BY DEF Inv, MergeInv
<1>4. SessionFine(edit', record', rev', c, tab[c])
  BY <1>2, <1>3, SessionFineStays, TabFineFacts DEF TabOK
<1>5. DraftFine(edit', record', rev', c, draft[c])
  BY <1>2, <1>3, DraftFineStays, TabFineFacts DEF TabOK
<1>6. TabFine(edit', record', rev', c, tab'[c], draft'[c], call'[c])
  BY <1>1, <1>4, <1>5 DEF TabFine
<1> QED BY <1>1, <1>6, FineStep

LEMMA UpdateStepFine ==
    ASSUME Inv, Inv', MergeInv, NEW c \in Clients, Update(c)
    PROVE  MergeInv'
<1> DEFINE q == tab[c].save
<1>1. /\ call[c].kind = "update" /\ ~call[c].answered /\ UNCHANGED <<tab, draft>>
      /\ stray' \subseteq stray
  BY DEF Update
<1>2. /\ EditsOK(edit) /\ EditsOK(edit') /\ RowFine(edit, record, rev)
      /\ ServerOK(edit, record, rev) /\ ServerOK(edit', record', rev')
  BY DEF Inv, MergeInv
<1>3. CASE Refused(q)
  <2> DEFINE k == [call[c] EXCEPT !.answered = TRUE]
  <2>1. UNCHANGED <<record, rev, edit>> /\ call' = [call EXCEPT ![c] = k]
    BY <1>3 DEF Update, Inv
  <2>2. k.answer.ok = FALSE
    BY <1>1, TabFacts DEF CallOK, AnyCall, AnyAnswer
  <2> HIDE DEF k
  <2>3. CallFine(edit', record', rev', c, k, tab'[c], draft'[c])
    BY <2>2 DEF CallFine
  <2>4. Advances(edit, record, rev, edit', record', rev') /\ RowFine(edit', record', rev')
    BY <1>2, <2>1, SameAdvances
  <2> QED BY <1>1, <2>1, <2>3, <2>4, FineCallStep
<1>4. CASE ~Refused(q)
  <2> DEFINE old == CHOOSE x \in Receipts(q) : TRUE
             previous == IF Receipts(q) # {} THEN old.previous ELSE rev
             acked == IF Receipts(q) # {} THEN old.revision ELSE rev'
             k == [call[c] EXCEPT !.answered = TRUE, !.answer = Answer(previous, acked)]
  <2>1. Commit(q) /\ record.epoch # 0 /\ q.epoch = record.epoch
    BY <1>4 DEF Update, Refused
  <2>2. call' = [call EXCEPT ![c] = k]
    BY <1>4 DEF Update, Inv
  <2>3. /\ StrayOK(edit, q) /\ q # NoSave /\ call[c] \in AnyCall
    BY <1>1, TabFacts DEF SessionOK, AnySession, StrayOK, CallOK
  <2>4. StrayFine(edit, record, rev, q) /\ q.client[1] = c
    <3>1. SessionFine(edit, record, rev, c, tab[c])
      BY TabFineFacts
    <3>2. SessionView(edit, record.state, c, tab[c])
      BY <2>1, <2>3, <3>1 DEF SessionFine, SessionBounds, SaveFine, Now
    <3> QED BY <2>3, <3>1, <3>2
            DEF SessionFine, SessionBounds, SaveFine, SessionView, CopySerial, StrayFine
  <2>5. /\ Advances(edit, record, rev, edit', record', rev')
        /\ RowFine(edit', record', rev') /\ record'.epoch # 0
        /\ previous \in Nat /\ acked \in Nat /\ previous <= acked /\ acked <= rev'
        /\ CommitFine(edit', record'.state, c, q, previous, acked)
    <3>1. CASE Receipts(q) # {}
      <4>1. UNCHANGED <<record, rev, edit>>
        BY <2>1, <3>1 DEF Commit
      <4>2. old \in Receipts(q) /\ previous = old.previous /\ acked = old.revision
        BY <3>1
      <4> HIDE DEF old, previous, acked, q
      <4> QED BY <1>2, <2>1, <2>4, <4>1, <4>2, SameAdvances, ReceiptFacts
    <3>2. CASE Receipts(q) = {}
      <4>1. previous = rev /\ acked = rev'
        BY <3>2
      <4>2. StrayOK(edit, q) /\ StrayFine(edit, record, rev, q)
        BY <2>3, <2>4
      <4> HIDE DEF q, previous, acked
      <4>3. /\ Advances(edit, record, rev, edit', record', rev')
            /\ RowFine(edit', record', rev')
            /\ CommitFine(edit', record'.state, q.client[1], q, rev, rev')
        BY <1>2, <1>4, <2>1, <3>2, <4>2, CommitMerges
      <4>4. rev \in Nat /\ rev' \in Nat /\ rev <= rev' /\ Now(record', q.epoch)
        BY <1>2, <1>4, <2>1, <3>2, <4>2, <4>3, CommitFields, RowFacts DEF Advances
      <4> QED BY <2>4, <4>1, <4>3, <4>4 DEF Now
    <3> QED BY <3>1, <3>2
  <2> HIDE DEF previous, acked
  <2>6. k.answer = Answer(previous, acked)
    BY <2>3 DEF AnyCall
  <2> HIDE DEF k
  <2>7. TabOK(edit, c, tab[c], draft[c], call[c])
    BY DEF Inv
  <2>8. /\ SessionFine(edit', record', rev', c, tab'[c])
        /\ DraftFine(edit', record', rev', c, draft'[c])
    BY <1>1, <1>2, <2>5, <2>7, SessionFineStays, DraftFineStays, TabFineFacts DEF TabOK
  <2>9. CallFine(edit', record', rev', c, k, tab'[c], draft'[c])
    BY <1>1, <2>5, <2>6, <2>8, AnswerFine
  <2> QED BY <1>1, <2>2, <2>5, <2>9, FineCallStep
<1> QED BY <1>3, <1>4

LEMMA UpdateStrayStepFine ==
    ASSUME Inv, Inv', MergeInv, NEW q \in stray, UpdateStray(q)
    PROVE  MergeInv'
<1>1. /\ EditsOK(edit) /\ EditsOK(edit') /\ RowFine(edit, record, rev)
      /\ ServerOK(edit, record, rev) /\ ServerOK(edit', record', rev')
      /\ StrayOK(edit, q) /\ StrayFine(edit, record, rev, q)
  BY DEF Inv, MergeInv
<1>2. UNCHANGED <<tab, draft, call>> /\ stray' \subseteq stray
  BY DEF UpdateStray
<1>3. CASE Refused(q) \/ Receipts(q) # {}
  <2>1. UNCHANGED <<record, rev, edit>>
    BY <1>3 DEF UpdateStray, Commit
  <2>2. Advances(edit, record, rev, edit', record', rev') /\ RowFine(edit', record', rev')
    BY <1>1, <2>1, SameAdvances
  <2> QED BY <1>2, <2>2, FineServerStep
<1>4. CASE ~Refused(q) /\ Receipts(q) = {}
  <2>1. Commit(q)
    BY <1>4 DEF UpdateStray
  <2>2. Advances(edit, record, rev, edit', record', rev') /\ RowFine(edit', record', rev')
    BY <1>1, <1>4, <2>1, CommitMerges
  <2> QED BY <1>2, <2>2, FineServerStep
<1> QED BY <1>3, <1>4

LEMMA InfoStepFine ==
    ASSUME Inv, Inv', MergeInv, NEW c \in Clients, Info(c)
    PROVE  MergeInv'
<1> DEFINE k == [call[c] EXCEPT !.answered = TRUE, !.answer = Answer(0, 0)]
<1>1. /\ call' = [call EXCEPT ![c] = k] /\ UNCHANGED <<rev, tab, draft, stray, edit>>
      /\ call[c].kind = "info"
  BY DEF Info, Inv
<1>2. /\ EditsOK(edit) /\ EditsOK(edit') /\ RowFine(edit, record, rev)
      /\ ServerOK(edit, record, rev) /\ ServerOK(edit', record', rev')
  BY DEF Inv, MergeInv
<1>3. /\ Advances(edit, record, rev, edit', record', rev') /\ RowFine(edit', record', rev')
      /\ record'.epoch # 0
  <2>1. CASE record.epoch # 0
    <3>1. record' = record
      BY <2>1 DEF Info
    <3> QED BY <1>1, <1>2, <2>1, <3>1, SameAdvances
  <2>2. CASE record.epoch = 0
    <3>1. record' = [epoch |-> record.last + 1, state |-> {}, barrier |-> 0,
                     receipts |-> <<>>, last |-> record.last + 1]
      BY <2>2 DEF Info
    <3>2. record.last \in Nat /\ rev \in Nat
      BY <1>2, RowFacts
    <3>3. Advances(edit, record, rev, edit', record', rev')
      BY <1>1, <2>2, <3>1, <3>2 DEF Advances
    <3>4. \A e \in DOMAIN edit : edit[e].epoch \in Nat
      BY <1>2, EditTypes
    <3>5. \A e \in DOMAIN edit : edit[e].epoch < record'.epoch
      BY <1>2, <3>1, <3>2, <3>4 DEF RowFine
    <3>6. record'.receipts \in Seq(ReceiptsFine(edit', record'.state, rev'))
      BY <3>1, EmptySeq
    <3>7. record'.state = {} /\ record'.epoch = record'.last /\ record'.epoch # 0
      BY <3>1, <3>2
    <3>8. \A e \in DOMAIN edit' : /\ edit'[e].epoch <= record'.last
                                  /\ -1 <= edit'[e].at /\ edit'[e].at <= rev'
      BY <1>1, <1>2, <3>1, <3>2, <3>4, <3>5 DEF RowFine
    <3>9. \A e \in DOMAIN edit' : edit'[e].epoch # record'.epoch
      BY <1>1, <3>1, <3>2, <3>4, <3>5
    <3> QED BY <3>3, <3>6, <3>7, <3>8, <3>9 DEF RowFine
  <2> QED BY <2>1, <2>2
<1>4. k.answer = Answer(0, 0) /\ k.kind = "info"
  BY <1>1, TabFacts DEF AnyCall
<1> HIDE DEF k
<1>5. TabOK(edit, c, tab[c], draft[c], call[c])
  BY DEF Inv
<1>6. /\ SessionFine(edit', record', rev', c, tab'[c])
      /\ DraftFine(edit', record', rev', c, draft'[c])
  BY <1>1, <1>2, <1>3, <1>5, SessionFineStays, DraftFineStays, TabFineFacts DEF TabOK
<1>7. rev' \in Nat
  BY <1>2, RowFacts
<1>8. CallFine(edit', record', rev', c, k, tab'[c], draft'[c])
  BY <1>3, <1>4, <1>6, <1>7, AnswerFine
<1> QED BY <1>1, <1>3, <1>8, FineCallStep

LEMMA OutsideStepFine ==
    ASSUME Inv, Inv', MergeInv, NEW replaces \in BOOLEAN, Outside(replaces)
    PROVE  MergeInv'
<1>1. UNCHANGED <<tab, draft, call, stray, edit>> /\ rev' = rev + 1
  BY DEF Outside
<1>2. /\ RowFine(edit, record, rev) /\ ServerOK(edit, record, rev) /\ rev \in Nat
      /\ EditsOK(edit) /\ EditsOK(edit') /\ ServerOK(edit', record', rev')
  BY RowFacts DEF Inv, MergeInv
<1>3. \A e \in DOMAIN edit : edit[e].at <= rev'
  BY <1>1, <1>2, EditTypes DEF RowFine
<1>4. Advances(edit, record, rev, edit', record', rev') /\ RowFine(edit', record', rev')
  <2>1. CASE replaces
    <3>1. record' = [record EXCEPT !.epoch = 0, !.state = {}, !.barrier = 0, !.receipts = <<>>]
      BY <2>1 DEF Outside
    <3>2. record \in AnyRow(edit) /\ record.last \in Nat
      BY <1>2, RowFacts DEF ServerOK
    <3>3. /\ record'.epoch = 0 /\ record'.state = {} /\ record'.receipts = <<>>
          /\ record'.last = record.last
      BY <3>1, <3>2 DEF AnyRow
    <3>4. record'.receipts \in Seq(ReceiptsFine(edit', record'.state, rev'))
      BY <3>3, EmptySeq
    <3>5. Advances(edit, record, rev, edit', record', rev')
      BY <1>1, <1>2, <3>2, <3>3 DEF Advances
    <3> QED BY <1>1, <1>2, <1>3, <3>3, <3>4, <3>5 DEF RowFine
  <2>2. CASE ~replaces
    <3>1. record' = record
      BY <2>2 DEF Outside
    <3>2. Advances(edit, record, rev, edit', record', rev')
      BY <1>1, <1>2, <3>1, RowFacts DEF Advances
    <3>3. record'.receipts \in Seq(ReceiptsFine(edit', record'.state, rev'))
      <4>1. ASSUME NEW r \in ReceiptsFine(edit, record.state, rev)
            PROVE  r \in ReceiptsFine(edit', record'.state, rev')
        <5>1. /\ r \in AnyReceipt /\ r.previous <= r.revision /\ r.revision <= rev
              /\ CommitFine(edit, record.state, r.request.client[1], r.request,
                            r.previous, r.revision)
              /\ r.revision \in Nat
          BY DEF ReceiptsFine, AnyReceipt
        <5>2. r.revision <= rev' /\ edit' = edit /\ record'.state = record.state
          BY <1>1, <1>2, <3>1, <5>1
        <5> QED BY <5>1, <5>2 DEF ReceiptsFine
      <4>2. ReceiptsFine(edit, record.state, rev)
                \subseteq ReceiptsFine(edit', record'.state, rev')
        BY <4>1
      <4> QED BY <1>2, <3>1, <4>2, SeqMonotonic DEF RowFine
    <3> QED BY <1>1, <1>2, <1>3, <3>1, <3>2, <3>3 DEF RowFine
  <2> QED BY <2>1, <2>2
<1> QED BY <1>1, <1>4, FineServerStep

-----------------------------------------------------------------------------
(* Editing and sending.                                                      *)

\* A step of the tab alone.
LEMMA FineLocalStep ==
    ASSUME Inv, Inv', MergeInv, NEW c \in Clients, NEW s, NEW k,
           UNCHANGED <<record, rev, edit>>,
           tab' = [tab EXCEPT ![c] = s], call' = [call EXCEPT ![c] = k],
           \A x \in Clients \ {c} : draft'[x] = draft[x],
           SessionFine(edit, record, rev, c, s),
           DraftFine(edit, record, rev, c, draft'[c]),
           CallFine(edit, record, rev, c, k, s, draft'[c]),
           \A q \in stray' : q \in stray \/ StrayFine(edit, record, rev, q)
    PROVE  MergeInv'
<1>1. /\ tab'[c] = s /\ call'[c] = k
      /\ \A x \in Clients \ {c} : tab'[x] = tab[x] /\ call'[x] = call[x]
  BY DEF Inv
<1>2. /\ ServerOK(edit, record, rev) /\ RowFine(edit, record, rev)
  BY DEF Inv, MergeInv
<1>3. Advances(edit, record, rev, edit', record', rev') /\ RowFine(edit', record', rev')
  BY <1>2, SameAdvances
<1>4. TabFine(edit', record', rev', c, tab'[c], draft'[c], call'[c])
  BY <1>1 DEF TabFine
<1> QED BY <1>1, <1>3, <1>4, FineStep

\* The draft that persistDraft() writes.
Stored(s) ==
    IF ~Dirty(s) /\ ~s.conflict THEN NoDraft
    ELSE [id |-> s.id, epoch |-> s.epoch, doc |-> s.doc, base |-> PendingOrBase(s),
          excl |-> s.excl, viewRev |-> s.viewRev, newer |-> s.newer,
          newExcl |-> s.newExcl, save |-> s.save]

LEMMA PersistStores ==
    ASSUME Inv, NEW c \in Clients, NEW s, s.epoch # 0, Persist(c, s)
    PROVE  /\ draft'[c] = Stored(s) /\ \A x \in Clients \ {c} : draft'[x] = draft[x]
BY DEF Inv, Persist, Stored

LEMMA NoDraftFine ==
    ASSUME NEW ed, NEW row, NEW rv \in Nat, row.last \in Nat, NEW c
    PROVE  DraftFine(ed, row, rv, c, NoDraft)
BY DEF DraftFine, NoDraft, SaveFine, NoSave, Now

LEMMA StoredFine ==
    ASSUME NEW ed, NEW row, NEW rv, ServerOK(ed, row, rv), NEW c, NEW s \in AnySession,
           SessionBounds(row, rv, c, s),
           Now(row, s.epoch) => CopySerial(ed, row.state, c, s, s.pending)
    PROVE  DraftFine(ed, row, rv, c, Stored(s))
<1>0. row.last \in Nat /\ rv \in Nat
  BY RowFacts
<1>1. CASE ~Dirty(s) /\ ~s.conflict
  BY <1>0, <1>1, NoDraftFine DEF Stored
<1>2. CASE Dirty(s) \/ s.conflict
  <2> DEFINE d == Stored(s)
  <2>1. /\ d.epoch = s.epoch /\ d.doc = s.doc /\ d.base = PendingOrBase(s) /\ d.excl = s.excl
        /\ d.viewRev = s.viewRev /\ d.newer = s.newer /\ d.newExcl = s.newExcl
        /\ d.save = s.save
    BY <1>2 DEF Stored
  <2> HIDE DEF d
  <2>2. ASSUME Now(row, s.epoch)
        PROVE  CopySerial(ed, row.state, c, d, d.base)
    <3>1. CopySerial(ed, row.state, c, s, s.pending)
      BY <2>2
    <3>2. New(ed, d) = New(ed, s)
      BY <2>1 DEF New
    <3>3. Own(ed, c, d.doc) /\ Own(ed, c, d.save.update) /\ AllSeen(ed, Unc(ed, d.doc))
          /\ ReqSerial(ed, row.state, d.save)
      BY <2>1, <3>1 DEF CopySerial
    <3>4. CASE Dirty(s)
      <4>1. d.base = s.pending
        BY <2>1, <3>1, <3>4 DEF CopySerial, Dirty, PendingOrBase
      <4> QED BY <2>1, <3>1, <3>2, <3>3, <4>1 DEF CopySerial
    <3>5. CASE ~Dirty(s)
      <4>1. s.save = NoSave /\ s.newer = FALSE /\ New(ed, s) = {}
        BY <3>1, <3>5 DEF CopySerial, Dirty, AnySession
      <4>2. Guarded(ed, row.state, New(ed, d), d.excl, d.base)
        BY <3>2, <4>1 DEF Guarded
      <4> QED BY <2>1, <3>2, <3>3, <4>1, <4>2 DEF CopySerial
    <3> QED BY <3>4, <3>5
  <2>3. PendingOrBase(s) <= rv
    BY DEF SessionBounds, PendingOrBase
  <2>4. SaveFine(rv, c, d)
    BY <2>1 DEF SessionBounds, SaveFine
  <2>5. Now(row, d.epoch) => Now(row, s.epoch)
    BY <2>1
  <2> QED BY <2>1, <2>2, <2>3, <2>4, <2>5 DEF DraftFine, SessionBounds, d
<1> QED BY <1>1, <1>2

LEMMA TrackedFine ==
    ASSUME NEW ed, NEW row, NEW rv, NEW c, NEW s \in AnySession, NEW exclusive \in BOOLEAN,
           SessionFine(ed, row, rv, c, s), s.phase = "open", ~s.conflict
    PROVE  LET t == Tracked(s, exclusive)
           IN  /\ SessionFine(ed, row, rv, c, t) /\ ~t.conflict
               /\ t.viewRev = s.viewRev /\ t.epoch = s.epoch /\ t.viewEpoch = s.viewEpoch
               /\ t.base = s.base /\ t.pending = s.pending /\ t.excl \in {s.excl, s.viewRev}
               /\ t.save = s.save /\ t.vector = s.vector /\ t.command = s.command
               /\ exclusive => t.excl # 0 /\ t.newExcl
<1>1. CASE ~exclusive
  BY <1>1 DEF Tracked
<1>2. CASE exclusive
  <2> DEFINE t == Tracked(s, exclusive)
  <2>1. /\ t.phase = s.phase /\ t.epoch = s.epoch /\ t.doc = s.doc /\ t.vector = s.vector
        /\ t.view = s.view /\ t.viewEpoch = s.viewEpoch /\ t.base = s.base
        /\ t.viewRev = s.viewRev /\ t.pending = s.pending
        /\ t.save = s.save /\ t.newer = s.newer /\ t.conflict = s.conflict
        /\ t.command = s.command
        /\ t.excl = (IF s.excl = 0 THEN s.viewRev ELSE s.excl) /\ t.newExcl = TRUE
    BY <1>2 DEF Tracked, AnySession
  <2> HIDE DEF t
  <2>2. Upright(s) /\ Upright(t) /\ t.excl # 0
    BY <2>1 DEF SessionFine, Upright
  <2>3. SessionBounds(row, rv, c, t)
    BY <2>1 DEF SessionFine, SessionBounds, SaveFine
  <2>4. ASSUME Now(row, s.epoch)
        PROVE  SessionView(ed, row.state, c, t)
    <3>1. SessionView(ed, row.state, c, s)
      BY <2>4 DEF SessionFine
    <3>2. New(ed, t) = New(ed, s)
      BY <2>1 DEF New
    <3>3. Guarded(ed, row.state, New(ed, t), t.excl, t.pending)
      BY <2>1, <3>1, <3>2 DEF SessionView, CopySerial, Guarded
    <3>4. CopySerial(ed, row.state, c, t, t.pending)
      BY <2>1, <3>1, <3>2, <3>3 DEF SessionView, CopySerial
    <3>5. t.viewEpoch = t.epoch => ViewOK(ed, row.state, c, t)
      BY <2>1, <3>1 DEF ViewOK, SessionView
    <3> QED BY <2>1, <3>1, <3>4, <3>5 DEF SessionView
  <2>5. SessionFine(ed, row, rv, c, t)
    BY <2>1, <2>2, <2>3, <2>4 DEF SessionFine
  <2> QED BY <2>1, <2>2, <2>5 DEF t
<1> QED BY <1>1, <1>2

\* A captured edit was made in view of all that it is going to be merged with unseen.
LEMMA CapturedFine ==
    ASSUME NEW ed, NEW row, NEW rv, EditsOK(ed), RowFine(ed, row, rv),
           NEW c, NEW s \in AnySession, s.doc \subseteq DOMAIN ed,
           SessionFine(ed, row, rv, c, s), s.phase = "open", ~s.conflict,
           NEW e \in DOMAIN ed, ed[e].by = c, ed[e].view = s.view, ed[e].at = 0,
           ed[e].viewEpoch = s.viewEpoch, ed[e].epoch = s.epoch,
           Excl(ed, e) => s.excl # 0 /\ s.newExcl
    PROVE  LET t == Captured(s, e)
           IN  /\ SessionFine(ed, row, rv, c, t)
               /\ t.epoch = s.epoch /\ t.viewEpoch = s.viewEpoch /\ t.viewRev = s.viewRev
               /\ t.base = s.base /\ t.excl = s.excl /\ t.pending \in {s.pending, s.viewRev}
               /\ t.save = s.save /\ t.vector = s.vector
<1> DEFINE t == Captured(s, e)
<1>1. /\ t.phase = s.phase /\ t.epoch = s.epoch /\ t.doc = s.doc \cup {e}
      /\ t.vector = s.vector /\ t.view = s.view \cup {e} /\ t.viewEpoch = s.viewEpoch
      /\ t.base = s.base /\ t.viewRev = s.viewRev /\ t.excl = s.excl
      /\ t.pending = (IF s.pending = 0 THEN s.viewRev ELSE s.pending)
      /\ t.save = s.save /\ t.newer = TRUE /\ t.newExcl = s.newExcl
      /\ t.conflict = s.conflict /\ t.command = "none"
  BY DEF Captured, AnySession
<1> HIDE DEF t
<1>2. Upright(s) /\ Upright(t) /\ t.pending # 0
  BY <1>1 DEF SessionFine, Upright
<1>3. SessionBounds(row, rv, c, t)
  BY <1>1 DEF SessionFine, SessionBounds, SaveFine
<1>4. ASSUME Now(row, s.epoch)
      PROVE  SessionView(ed, row.state, c, t)
  <2>1. /\ SessionView(ed, row.state, c, s)
        /\ Here(ed, e) => ViewOK(ed, row.state, c, s)
    BY <1>4 DEF SessionFine, SessionView, Here
  <2>2. CopySerial(ed, row.state, c, s, s.pending)
    BY <2>1 DEF SessionView
  <2>3. ASSUME Here(ed, e)
        PROVE  \A y \in Unc(ed, s.doc) : y \in s.view
    <3> SUFFICES ASSUME NEW y \in s.doc, ed[y].at <= 0
                 PROVE  y \in s.view
      BY DEF Unc
    <3>1. ed[y].at \in Int
      BY EditTypes
    <3>2. ed[y].by = c /\ y \notin row.state
      BY <2>2, <3>1 DEF CopySerial, Own, RowFine
    <3> QED BY <2>1, <2>3, <3>2 DEF SessionView, ViewOK
  <2>4. /\ \A y \in s.view : Seen(ed, y, e) /\ Seen(ed, e, y)
        /\ ~Here(ed, e) => \A y : Seen(ed, y, e) /\ Seen(ed, e, y)
    BY DEF Seen
  <2>5. Unc(ed, t.doc) \subseteq Unc(ed, s.doc) \cup {e}
    BY <1>1 DEF Unc
  <2>6. AllSeen(ed, Unc(ed, t.doc))
    BY <2>2, <2>3, <2>4, <2>5 DEF CopySerial, AllSeen
  <2>7. New(ed, t) \subseteq New(ed, s) \cup {e} /\ New(ed, s) \subseteq Unc(ed, s.doc)
    BY <1>1, <2>5 DEF New
  <2>8. New(ed, s) # {} => s.pending # 0
    BY <2>2 DEF CopySerial
  <2>9. Guarded(ed, row.state, New(ed, t), t.excl, t.pending)
    <3>1. \A x \in New(ed, t) : Excl(ed, x) =>
              t.excl # 0 /\ \A y \in UpTo(ed, row.state, t.excl) : Seen(ed, x, y)
      BY <1>1, <2>1, <2>2, <2>4, <2>7 DEF CopySerial, Guarded, ViewOK
    <3>2. Here(ed, e) => ExclUpTo(ed, row.state, t.pending) \subseteq s.view
      BY <1>1, <2>1 DEF ViewOK, ExclUpTo
    <3>3. \A y \in New(ed, s), x \in ExclUpTo(ed, row.state, t.pending) : Seen(ed, x, y)
      BY <1>1, <2>2, <2>8 DEF CopySerial, Guarded
    <3>4. \A y \in New(ed, t), x \in ExclUpTo(ed, row.state, t.pending) : Seen(ed, x, y)
      BY <2>4, <2>7, <3>2, <3>3
    <3> QED BY <3>1, <3>4 DEF Guarded
  <2>10. \A x \in New(ed, t) : Excl(ed, x) => t.newExcl
    BY <1>1, <2>2, <2>7 DEF CopySerial
  <2>11. \A y \in New(ed, t), x \in t.save.update : ed[x].by = c => Seen(ed, x, y)
    BY <1>1, <2>1, <2>2, <2>4, <2>7 DEF CopySerial, ViewOK
  <2>12. Own(ed, c, t.doc) /\ Own(ed, c, t.save.update) /\ ReqSerial(ed, row.state, t.save)
    BY <1>1, <2>2 DEF CopySerial, Own
  <2>13. CopySerial(ed, row.state, c, t, t.pending)
    BY <1>1, <1>2, <2>2, <2>6, <2>9, <2>10, <2>11, <2>12 DEF CopySerial
  <2>14. ASSUME t.viewEpoch = t.epoch
         PROVE  ViewOK(ed, row.state, c, t)
    <3>1. ViewOK(ed, row.state, c, s)
      BY <1>1, <2>1, <2>14 DEF Here
    <3>2. ExclUpTo(ed, row.state, t.pending) \subseteq t.view
      BY <1>1, <3>1 DEF ViewOK, ExclUpTo
    <3> QED BY <1>1, <3>1, <3>2 DEF ViewOK
  <2> QED BY <1>1, <2>1, <2>13, <2>14 DEF SessionView
<1>5. SessionFine(ed, row, rv, c, t)
  BY <1>1, <1>2, <1>3, <1>4 DEF SessionFine
<1> QED BY <1>1, <1>5 DEF t

LEMMA InitializedFine ==
    ASSUME NEW ed, NEW row, NEW rv, EditsOK(ed), ServerOK(ed, row, rv),
           NEW c, NEW s \in AnySession,
           SessionFine(ed, row, rv, c, s), s.phase = "open", ~s.conflict
    PROVE  LET t == Initialized(s)
           IN  /\ SessionFine(ed, row, rv, c, t)
               /\ t.epoch = s.epoch /\ t.viewEpoch = s.epoch /\ t.viewRev = s.base
               /\ t.base = s.base /\ t.excl = s.excl /\ t.pending = s.pending
               /\ t.save = s.save /\ t.vector = s.vector
<1> DEFINE t == Initialized(s)
<1>1. /\ t.phase = s.phase /\ t.epoch = s.epoch /\ t.doc = s.doc
      /\ t.vector = s.vector /\ t.view = s.doc /\ t.viewEpoch = s.epoch
      /\ t.base = s.base /\ t.viewRev = s.base /\ t.excl = s.excl
      /\ t.pending = s.pending
      /\ t.save = s.save /\ t.newer = s.newer /\ t.newExcl = s.newExcl
      /\ t.conflict = s.conflict /\ t.command = s.command
  BY DEF Initialized, AnySession
<1> HIDE DEF t
<1>2. Upright(s) /\ Upright(t)
  BY <1>1 DEF SessionFine, Upright, AnySession
<1>3. SessionBounds(row, rv, c, t)
  BY <1>1 DEF SessionFine, SessionBounds, SaveFine, AnySession
<1>4. ASSUME Now(row, s.epoch)
      PROVE  SessionView(ed, row.state, c, t)
  <2>1. SessionView(ed, row.state, c, s)
    BY <1>4 DEF SessionFine
  <2>2. \A r \in Nat : r <= s.base => UpTo(ed, row.state, r) \subseteq s.doc
    <3> SUFFICES ASSUME NEW r \in Nat, r <= s.base, NEW y \in row.state, ed[y].at <= r
                 PROVE  y \in s.doc
      BY DEF UpTo
    <3>1. s.base \in Nat /\ ed[y].at \in Int
      BY EditTypes DEF AnySession, ServerOK, Settled
    <3>2. ed[y].at <= s.base
      BY <3>1
    <3> QED BY <2>1, <3>2 DEF SessionView, UpTo
  <2>3. ViewOK(ed, row.state, c, t)
    <3>1. s.save.update \subseteq s.doc
      BY DEF SessionFine, SessionBounds, SaveFine
    <3>2. s.base \in Nat /\ s.excl \in Nat /\ s.pending \in Nat
      BY DEF AnySession
    <3> QED BY <1>1, <1>2, <2>2, <3>1, <3>2 DEF ViewOK, Upright, ExclUpTo
  <2>4. New(ed, t) = New(ed, s)
    BY <1>1 DEF New
  <2>5. CopySerial(ed, row.state, c, t, t.pending)
    BY <1>1, <2>1, <2>4 DEF SessionView, CopySerial
  <2> QED BY <1>1, <2>1, <2>3, <2>5 DEF SessionView
<1>5. SessionFine(ed, row, rv, c, t)
  BY <1>1, <1>2, <1>3, <1>4 DEF SessionFine
<1> QED BY <1>1, <1>5 DEF t

LEMMA SavingFine ==
    ASSUME NEW ed, EditsOK(ed), NEW row, NEW rv, RowFine(ed, row, rv), NEW c \in Clients,
           NEW s \in AnySession, s.doc \subseteq DOMAIN ed,
           SessionFine(ed, row, rv, c, s), s.phase = "open", Dirty(s)
    PROVE  SessionFine(ed, row, rv, c, Saving(c, s))
<1>1. CASE s.save # NoSave
  BY <1>1 DEF Saving
<1>2. CASE s.save = NoSave
  <2> DEFINE q == [client |-> <<c, s.id>>, epoch |-> s.epoch, update |-> s.doc \ s.vector,
                   base |-> PendingOrBase(s), excl |-> s.excl]
             t == Saving(c, s)
  <2>1. /\ t.phase = s.phase /\ t.epoch = s.epoch /\ t.doc = s.doc
        /\ t.vector = s.vector /\ t.view = s.view /\ t.viewEpoch = s.viewEpoch
        /\ t.base = s.base /\ t.viewRev = s.viewRev /\ t.excl = s.excl
        /\ t.pending = s.pending
        /\ t.save = q /\ t.newer = FALSE /\ t.newExcl = FALSE
        /\ t.conflict = s.conflict /\ t.command = s.command
    BY <1>2 DEF Saving, AnySession
  <2>2. /\ q.client[1] = c /\ q.epoch = s.epoch /\ q.update = s.doc \ s.vector
        /\ q.base = PendingOrBase(s) /\ q.excl = s.excl
    OBVIOUS
  <2> HIDE DEF t, q
  <2>3. s.newer = TRUE
    BY <1>2 DEF Dirty, AnySession
  <2>4. PendingOrBase(s) <= rv
    BY DEF SessionFine, SessionBounds, PendingOrBase
  <2>5. SessionBounds(row, rv, c, t)
    BY <2>1, <2>2, <2>4 DEF SessionFine, SessionBounds, SaveFine
  <2>6. ASSUME Now(row, s.epoch)
        PROVE  SessionView(ed, row.state, c, t)
    <3>1. SessionView(ed, row.state, c, s) /\ CopySerial(ed, row.state, c, s, s.pending)
      BY <2>6 DEF SessionFine, SessionView
    <3>2. s.pending # 0 /\ q.base = s.pending
      BY <2>2, <2>3, <3>1 DEF CopySerial, PendingOrBase
    <3>3. New(ed, t) = {}
      <4>1. \A y \in s.vector \cap s.doc : ed[y].at > 0 /\ ed[y].at \in Int
        BY <3>1, EditTypes DEF SessionView, RowFine
      <4> QED BY <2>1, <2>2, <4>1 DEF New, Unc
    <3>4. Unc(ed, q.update) \subseteq Unc(ed, s.doc) /\ New(ed, s) = Unc(ed, s.doc)
      BY <1>2, <2>2, NoSaveType DEF New, Unc
    <3>5. AllSeen(ed, Unc(ed, q.update))
      BY <3>1, <3>4 DEF CopySerial, AllSeen
    <3>6. Guarded(ed, row.state, Unc(ed, q.update), q.excl, q.base)
      BY <2>2, <3>1, <3>2, <3>4 DEF CopySerial, Guarded
    <3>7. Own(ed, c, t.save.update) /\ ReqSerial(ed, row.state, t.save)
      BY <2>1, <2>2, <3>1, <3>5, <3>6 DEF CopySerial, Own, ReqSerial
    <3>8. Guarded(ed, row.state, New(ed, t), t.excl, t.pending)
      BY <3>3 DEF Guarded
    <3>9. CopySerial(ed, row.state, c, t, t.pending)
      BY <2>1, <3>1, <3>2, <3>3, <3>7, <3>8 DEF CopySerial
    <3>10. ViewOK(ed, row.state, c, s) => ViewOK(ed, row.state, c, t)
      BY <2>1, <2>2 DEF ViewOK
    <3> QED BY <2>1, <3>1, <3>9, <3>10 DEF SessionView
  <2>7. s.phase = "open" /\ ~s.conflict => Upright(t)
    BY <2>1 DEF SessionFine, Upright
  <2> QED BY <2>1, <2>5, <2>6, <2>7 DEF SessionFine, t
<1> QED BY <1>1, <1>2

\* An answer under way stays ahead of a session that is edited or displayed meanwhile.
LEMMA CallFineMoves ==
    ASSUME NEW ed, NEW row, NEW rv, NEW c, NEW k \in AnyCall, NEW s, NEW d,
           CallFine(ed, row, rv, c, k, s, d),
           NEW t \in AnySession, t.save = s.save, t.vector = s.vector, t.epoch = s.epoch,
           t.viewEpoch \in {s.viewEpoch, s.epoch}, t.viewRev \in {s.viewRev, s.base},
           t.base = s.base, t.excl \in {s.excl, s.viewRev},
           t.pending \in {s.pending, s.viewRev}
    PROVE  /\ CallFine(ed, row, rv, c, k, t, d)
           /\ CallFine(ed, row, rv, c, k, t, Stored(t))
<1>1. SUFFICES ASSUME k.answer.ok
               PROVE  /\ CallFine(ed, row, rv, c, k, t, d)
                      /\ CallFine(ed, row, rv, c, k, t, Stored(t))
  BY DEF CallFine
<1>2. AnswerAhead(k.answer, s, d)
  BY <1>1 DEF CallFine
<1>3. AnswerAhead(k.answer, t, d)
  BY <1>2 DEF AnswerAhead
<1>4. AnswerAhead(k.answer, t, Stored(t))
  <2>1. CASE Stored(t) = NoDraft
    <3>1. k.answer.rev \in Nat
      BY DEF AnyCall, AnyAnswer
    <3> QED BY <1>3, <2>1, <3>1 DEF AnswerAhead, NoDraft
  <2>2. CASE Stored(t) # NoDraft
    <3>1. /\ Stored(t).base = PendingOrBase(t) /\ Stored(t).excl = t.excl
          /\ Stored(t).viewRev = t.viewRev
      BY <2>2 DEF Stored
    <3> QED BY <1>3, <3>1 DEF AnswerAhead, PendingOrBase
  <2> QED BY <2>1, <2>2
<1> QED BY <1>1, <1>3, <1>4 DEF CallFine

\* What is committed stays fine when other edits are made or discarded.
LEMMA RowFineKept ==
    ASSUME NEW ed, NEW ed2, NEW row, NEW rv, EditsOK(ed), ServerOK(ed, row, rv),
           RowFine(ed, row, rv), Advances(ed, row, rv, ed2, row, rv),
           \A e \in DOMAIN ed2 :
               /\ ed2[e].epoch <= row.last /\ -1 <= ed2[e].at /\ ed2[e].at <= rv
               /\ ed2[e].at > 0 => e \in DOMAIN ed /\ ed[e].at > 0
    PROVE  RowFine(ed2, row, rv)
<1>1. \A e \in row.state :
          /\ ed[e].at > 0 /\ ed2[e].at = ed[e].at /\ ed2[e].by = ed[e].by
          /\ ed2[e].view = ed[e].view /\ ed2[e].exclusive = ed[e].exclusive
          /\ Here(ed2, e) <=> Here(ed, e)
  BY DEF ServerOK, Settled, RowFine, Advances, Here
<1>2. row.epoch # 0 =>
          \A e \in DOMAIN ed2 : ed2[e].epoch = row.epoch /\ ed2[e].at > 0 => e \in row.state
  BY DEF RowFine, Advances
<1>3. row.receipts \in Seq(ReceiptsFine(ed2, row.state, rv))
  <2>1. ASSUME NEW r \in ReceiptsFine(ed, row.state, rv)
        PROVE  r \in ReceiptsFine(ed2, row.state, rv)
    <3>1. CommitFine(ed, row.state, r.request.client[1], r.request, r.previous, r.revision)
      BY DEF ReceiptsFine
    <3>2. CommitFine(ed2, row.state, r.request.client[1], r.request, r.previous, r.revision)
      BY <1>1, <3>1 DEF CommitFine, ExclUpTo, UpTo, Excl
    <3> QED BY <3>2 DEF ReceiptsFine
  <2>2. ReceiptsFine(ed, row.state, rv) \subseteq ReceiptsFine(ed2, row.state, rv)
    BY <2>1
  <2> QED BY <2>2, SeqMonotonic DEF RowFine
<1>4. \A x, e \in row.state : x # e /\ Excl(ed2, x) => Seen(ed2, x, e)
  BY <1>1 DEF RowFine, Excl, Seen
<1>5. \A x \in row.state : Excl(ed2, x) => ed2[x].at <= row.barrier
  BY <1>1 DEF RowFine, Excl
<1>6. row.epoch \in {0, row.last} /\ \A e \in row.state : ed2[e].at > 0
  BY <1>1 DEF RowFine
<1> QED BY <1>2, <1>3, <1>4, <1>5, <1>6 DEF RowFine

LEMMA CaptureAsFine ==
    ASSUME Inv, Inv', MergeInv, NEW c \in Clients, NEW s,
           NEW exclusive \in BOOLEAN, CaptureAs(c, s, exclusive), SessionOK(edit, c, s),
           SessionFine(edit, record, rev, c, s), s.phase = "open", ~s.conflict,
           s.save = tab[c].save, CallFine(edit, record, rev, c, call[c], s, draft[c]),
           exclusive /\ "capture" \notin Gaps => s.excl # 0 /\ s.newExcl
    PROVE  MergeInv'
<1> DEFINE e == Len(edit) + 1
           t == Captured(s, e)
           new == [by |-> c, exclusive |-> exclusive, view |-> s.view,
                   viewEpoch |-> s.viewEpoch, epoch |-> s.epoch, at |-> 0]
<1>1. /\ edit' = Append(edit, new)
      /\ tab' = [tab EXCEPT ![c] = t] /\ Persist(c, t)
      /\ UNCHANGED <<record, rev, call, stray>>
  BY DEF CaptureAs, Become, server
<1>2. /\ s \in AnySession /\ s.epoch # 0 /\ edit \in Seq(AnyEdit) /\ Len(edit) \in Nat
      /\ e \in Nat /\ s.doc \subseteq DOMAIN edit
  BY LenProperties DEF SessionOK, Inv, EditsOK, Held
<1>3. /\ new.by = c /\ new.view = s.view /\ new.exclusive = exclusive
      /\ new.viewEpoch = s.viewEpoch /\ new.epoch = s.epoch /\ new.at = 0
      /\ new \in AnyEdit
  BY <1>2 DEF AnyEdit, AnySession
<1>4. /\ EditsOK(edit) /\ EditsOK(edit') /\ RowFine(edit, record, rev)
      /\ ServerOK(edit, record, rev) /\ ServerOK(edit', record', rev')
      /\ record.last \in Nat /\ rev \in Nat /\ call[c] \in AnyCall
  BY RowFacts DEF Inv, MergeInv
<1> HIDE DEF new
<1>5. /\ DOMAIN edit = 1..Len(edit) /\ DOMAIN edit' = 1..e /\ e \notin DOMAIN edit
      /\ \A x \in DOMAIN edit : edit'[x] = edit[x]
      /\ edit'[e] = new
  <2>1. DOMAIN edit = 1..Len(edit)
    BY <1>2, LenProperties
  <2> QED BY <1>1, <1>2, <1>3, <2>1, AppendProperties, LenProperties
<1>6. Advances(edit, record, rev, edit', record', rev')
  BY <1>1, <1>2, <1>4, <1>5 DEF Advances
<1>7. RowFine(edit', record', rev')
  <2>1. DOMAIN edit' = DOMAIN edit \cup {e}
    BY <1>2, <1>5
  <2>2. edit'[e].epoch <= record.last /\ edit'[e].at = 0
    BY <1>1, <1>3, <1>5 DEF SessionFine, SessionBounds
  <2>3. \A x \in DOMAIN edit' :
            /\ edit'[x].epoch <= record.last /\ -1 <= edit'[x].at /\ edit'[x].at <= rev
            /\ edit'[x].at > 0 => x \in DOMAIN edit /\ edit[x].at > 0
    BY <1>4, <1>5, <2>1, <2>2 DEF RowFine
  <2> QED BY <1>1, <1>4, <1>6, <2>3, RowFineKept
<1>8. SessionFine(edit', record', rev', c, s)
  BY <1>4, <1>6, SessionFineStays
<1>9. CallFine(edit', record', rev', c, call[c], s, draft[c])
  BY <1>4, <1>6, CallFineStays
<1>10. e \in DOMAIN edit' /\ s.doc \subseteq DOMAIN edit'
       /\ (Excl(edit', e) => s.excl # 0 /\ s.newExcl)
  BY <1>2, <1>3, <1>5 DEF Excl, Here
<1>11. /\ SessionFine(edit', record', rev', c, t)
       /\ t.epoch = s.epoch /\ t.viewEpoch = s.viewEpoch /\ t.viewRev = s.viewRev
       /\ t.base = s.base /\ t.excl = s.excl /\ t.pending \in {s.pending, s.viewRev}
       /\ t.save = s.save /\ t.vector = s.vector
  <2>1. /\ edit'[e].by = c /\ edit'[e].view = s.view /\ edit'[e].at = 0
        /\ edit'[e].viewEpoch = s.viewEpoch /\ edit'[e].epoch = s.epoch
    BY <1>3, <1>5
  <2>2. s \in AnySession /\ EditsOK(edit')
    BY <1>2, <1>4
  <2> HIDE DEF e
  <2> QED BY <1>7, <1>8, <1>10, <2>1, <2>2, CapturedFine
<1>12. t \in AnySession
  <2> HIDE DEF e
  <2> QED BY <1>2, CapturedType
<1> HIDE DEF t, e
<1>13. draft'[c] = Stored(t) /\ \A x \in Clients \ {c} : draft'[x] = draft[x]
  BY <1>1, <1>2, <1>11, PersistStores
<1>14. DraftFine(edit', record', rev', c, draft'[c])
  BY <1>4, <1>11, <1>12, <1>13, StoredFine DEF SessionFine, SessionView
<1>15. CallFine(edit', record', rev', c, call[c], t, draft'[c])
  BY <1>4, <1>9, <1>11, <1>12, <1>13, CallFineMoves
<1>16. /\ tab'[c] = t /\ call'[c] = call[c]
       /\ \A x \in Clients \ {c} : tab'[x] = tab[x] /\ call'[x] = call[x]
  BY <1>1 DEF Inv
<1>17. TabFine(edit', record', rev', c, tab'[c], draft'[c], call'[c])
  BY <1>11, <1>14, <1>15, <1>16 DEF TabFine
<1> QED BY <1>1, <1>6, <1>7, <1>13, <1>16, <1>17, FineStep

LEMMA EditStepFine ==
    ASSUME Inv, Inv', MergeInv, NEW c \in Clients,
           NEW exclusive \in BOOLEAN, Edit(c, exclusive)
    PROVE  MergeInv'
<1> DEFINE s == Tracked(tab[c], exclusive)
<1>1. /\ CaptureAs(c, s, exclusive)
      /\ tab[c].phase = "open" /\ ~tab[c].conflict
  BY DEF Edit, Working
<1>2. /\ tab[c] \in AnySession /\ SessionOK(edit, c, tab[c]) /\ call[c] \in AnyCall
      /\ SessionFine(edit, record, rev, c, tab[c])
      /\ CallFine(edit, record, rev, c, call[c], tab[c], draft[c])
  BY TabFacts, TabFineFacts
<1>3. s \in AnySession /\ Kept(tab[c], s) /\ s.phase = "open"
  BY <1>1, <1>2, TrackedKeeps
<1>4. SessionOK(edit, c, s)
  BY <1>1, <1>2, <1>3, KeepsOK
<1>6. /\ SessionFine(edit, record, rev, c, s) /\ ~s.conflict
      /\ s.epoch = tab[c].epoch /\ s.viewEpoch = tab[c].viewEpoch
      /\ s.viewRev = tab[c].viewRev /\ s.base = tab[c].base /\ s.pending = tab[c].pending
      /\ s.excl \in {tab[c].excl, tab[c].viewRev}
      /\ s.save = tab[c].save /\ s.vector = tab[c].vector
      /\ exclusive => s.excl # 0 /\ s.newExcl
  BY <1>1, <1>2, TrackedFine
<1> HIDE DEF s
<1>7. CallFine(edit, record, rev, c, call[c], s, draft[c])
  BY <1>2, <1>3, <1>6, CallFineMoves
<1> QED BY <1>1, <1>3, <1>4, <1>6, <1>7, CaptureAsFine

\* With a delay between a command and its capture nothing is claimed of exclusive edits.
LEMMA CaptureStepFine ==
    ASSUME Inv, Inv', MergeInv, NEW c \in Clients, Capture(c)
    PROVE  MergeInv'
<1>1. /\ SessionOK(edit, c, tab[c])
      /\ SessionFine(edit, record, rev, c, tab[c])
      /\ CallFine(edit, record, rev, c, call[c], tab[c], draft[c])
  BY TabFacts, TabFineFacts
<1>2. "capture" \in Gaps
  BY <1>1 DEF Capture, SessionFine, SessionBounds
<1> QED BY <1>1, <1>2, CaptureAsFine DEF Capture, Working

\* A step of a session that is edited or displayed, and of nothing else.
LEMMA FineSessionStep ==
    ASSUME Inv, Inv', MergeInv, NEW c \in Clients, NEW t \in AnySession,
           tab' = [tab EXCEPT ![c] = t],
           UNCHANGED <<record, rev, draft, call, stray, edit>>,
           SessionFine(edit, record, rev, c, t),
           t.save = tab[c].save, t.vector = tab[c].vector, t.epoch = tab[c].epoch,
           t.viewEpoch \in {tab[c].viewEpoch, tab[c].epoch},
           t.viewRev \in {tab[c].viewRev, tab[c].base},
           t.base = tab[c].base, t.excl \in {tab[c].excl, tab[c].viewRev},
           t.pending \in {tab[c].pending, tab[c].viewRev}
    PROVE  MergeInv'
<1>1. call[c] \in AnyCall /\ call' = [call EXCEPT ![c] = call[c]]
  BY DEF Inv
<1>2. CallFine(edit, record, rev, c, call[c], t, draft[c])
  BY <1>1, CallFineMoves, TabFineFacts
<1> QED BY <1>1, <1>2, TabFineFacts, FineLocalStep

LEMMA TrackStepFine ==
    ASSUME Inv, Inv', MergeInv, NEW c \in Clients,
           NEW exclusive \in BOOLEAN, Track(c, exclusive)
    PROVE  MergeInv'
<1> DEFINE s == Tracked(tab[c], exclusive)
           t == [s EXCEPT !.command = IF exclusive THEN "exclusive" ELSE "plain"]
<1>1. /\ "capture" \in Gaps /\ tab[c].phase = "open" /\ ~tab[c].conflict
      /\ tab' = [tab EXCEPT ![c] = t]
      /\ UNCHANGED <<record, rev, draft, call, stray, edit>>
  BY DEF Track, Working, Become, server
<1>2. tab[c] \in AnySession /\ SessionFine(edit, record, rev, c, tab[c])
  BY TabFacts, TabFineFacts
<1>3. s \in AnySession
  BY <1>2, TrackedKeeps
<1>4. /\ SessionFine(edit, record, rev, c, s)
      /\ s.epoch = tab[c].epoch /\ s.viewEpoch = tab[c].viewEpoch
      /\ s.viewRev = tab[c].viewRev /\ s.base = tab[c].base /\ s.pending = tab[c].pending
      /\ s.excl \in {tab[c].excl, tab[c].viewRev}
      /\ s.save = tab[c].save /\ s.vector = tab[c].vector
  BY <1>1, <1>2, TrackedFine
<1> HIDE DEF s
<1>5. /\ t \in AnySession
      /\ t.phase = s.phase /\ t.epoch = s.epoch /\ t.doc = s.doc /\ t.vector = s.vector
      /\ t.view = s.view /\ t.viewEpoch = s.viewEpoch /\ t.base = s.base
      /\ t.viewRev = s.viewRev /\ t.pending = s.pending /\ t.excl = s.excl
      /\ t.save = s.save /\ t.newer = s.newer /\ t.newExcl = s.newExcl
      /\ t.conflict = s.conflict
  BY <1>3 DEF AnySession
<1> HIDE DEF t
<1>6. SessionBounds(record, rev, c, t)
  BY <1>1, <1>4, <1>5 DEF SessionFine, SessionBounds, SaveFine
<1>7. Upright(s) => Upright(t)
  BY <1>5 DEF Upright
<1>8. SessionView(edit, record.state, c, s) => SessionView(edit, record.state, c, t)
  <2>1. ViewOK(edit, record.state, c, s) => ViewOK(edit, record.state, c, t)
    BY <1>5 DEF ViewOK
  <2>2. New(edit, t) = New(edit, s)
    BY <1>5 DEF New
  <2>3. CopySerial(edit, record.state, c, s, s.pending)
            => CopySerial(edit, record.state, c, t, t.pending)
    BY <1>5, <2>2 DEF CopySerial
  <2> QED BY <1>5, <2>1, <2>3 DEF SessionView
<1>9. SessionFine(edit, record, rev, c, t)
  BY <1>4, <1>5, <1>6, <1>7, <1>8 DEF SessionFine
<1> QED BY <1>1, <1>4, <1>5, <1>9, FineSessionStep

LEMMA DisplayStepFine ==
    ASSUME Inv, Inv', MergeInv, NEW c \in Clients, Display(c)
    PROVE  MergeInv'
<1> DEFINE t == Initialized(tab[c])
<1>1. /\ tab[c].phase = "open" /\ ~tab[c].conflict
      /\ tab' = [tab EXCEPT ![c] = t]
      /\ UNCHANGED <<record, rev, draft, call, stray, edit>>
  BY DEF Display, Working, Become, server
<1>2. /\ tab[c] \in AnySession /\ SessionFine(edit, record, rev, c, tab[c])
      /\ EditsOK(edit) /\ ServerOK(edit, record, rev)
  BY TabFacts, TabFineFacts DEF Inv
<1>3. t \in AnySession
  BY <1>2, InitializedKeeps
<1>4. /\ SessionFine(edit, record, rev, c, t)
      /\ t.epoch = tab[c].epoch /\ t.viewEpoch = tab[c].epoch /\ t.viewRev = tab[c].base
      /\ t.base = tab[c].base /\ t.excl = tab[c].excl /\ t.pending = tab[c].pending
      /\ t.save = tab[c].save /\ t.vector = tab[c].vector
  BY <1>1, <1>2, InitializedFine
<1> HIDE DEF t
<1> QED BY <1>1, <1>3, <1>4, FineSessionStep

\* A call without an answer claims nothing.
LEMMA UnansweredFine ==
    ASSUME NEW ed, NEW row, NEW rv, NEW c, NEW s, NEW d
    PROVE  /\ CallFine(ed, row, rv, c, NoCall, s, d)
           /\ CallFine(ed, row, rv, c, Sent("info"), s, d)
           /\ CallFine(ed, row, rv, c, Sent("update"), s, d)
BY CallTypes DEF CallFine

LEMMA SaveStepFine ==
    ASSUME Inv, Inv', MergeInv, NEW c \in Clients, Save(c)
    PROVE  MergeInv'
<1> DEFINE s == Saving(c, tab[c])
<1>1. /\ tab[c].phase = "open" /\ Dirty(tab[c])
      /\ tab' = [tab EXCEPT ![c] = s] /\ Persist(c, s)
      /\ call' = [call EXCEPT ![c] = Sent("update")]
      /\ UNCHANGED <<record, rev, stray, edit>>
  BY DEF Save, Working, Become, server
<1>2. /\ tab[c] \in AnySession /\ SessionOK(edit, c, tab[c])
      /\ SessionFine(edit, record, rev, c, tab[c]) /\ tab[c].doc \subseteq DOMAIN edit
      /\ EditsOK(edit) /\ ServerOK(edit, record, rev) /\ RowFine(edit, record, rev)
  BY TabFacts, TabFineFacts DEF Inv, SessionOK, Held
<1>3. SessionFine(edit, record, rev, c, s)
  BY <1>1, <1>2, SavingFine
<1>4. s \in AnySession /\ s.epoch # 0
  BY <1>1, <1>2, SavingOK DEF SessionOK, Dirty
<1> HIDE DEF s
<1>5. draft'[c] = Stored(s) /\ \A x \in Clients \ {c} : draft'[x] = draft[x]
  BY <1>1, <1>4, PersistStores
<1>6. DraftFine(edit, record, rev, c, draft'[c])
  BY <1>2, <1>3, <1>4, <1>5, StoredFine DEF SessionFine, SessionView
<1> QED BY <1>1, <1>3, <1>5, <1>6, UnansweredFine, FineLocalStep

LEMMA AskStepFine ==
    ASSUME Inv, Inv', MergeInv, NEW c \in Clients, Ask(c)
    PROVE  MergeInv'
<1>1. /\ call' = [call EXCEPT ![c] = Sent("info")]
      /\ UNCHANGED <<record, rev, tab, draft, stray, edit>>
  BY DEF Ask, server
<1>2. tab' = [tab EXCEPT ![c] = tab[c]]
  BY <1>1 DEF Inv
<1> QED BY <1>1, <1>2, UnansweredFine, TabFineFacts, FineLocalStep

\* A session that holds nothing is fine.
LEMMA EmptyFine ==
    ASSUME NEW ed, NEW row, NEW rv, ServerOK(ed, row, rv), NEW c, NEW s,
           s.phase # "open", s.epoch = 0, s.vector = {}, s.viewEpoch = 0,
           s.base = 0, s.viewRev = 0, s.pending = 0, s.excl = 0, s.save = NoSave,
           s.command = "none"
    PROVE  SessionFine(ed, row, rv, c, s)
<1>1. NoSave.update = {} /\ NoSave.base = 0 /\ NoSave.excl = 0
  BY DEF NoSave
<1>2. row.last \in Nat /\ rv \in Nat
  BY RowFacts
<1> QED BY <1>1, <1>2 DEF SessionFine, SessionBounds, SaveFine, Now

LEMMA ClosedFine ==
    ASSUME NEW ed, NEW row, NEW rv, ServerOK(ed, row, rv), NEW c
    PROVE  SessionFine(ed, row, rv, c, Closed)
<1>1. /\ Closed.phase = "closed" /\ Closed.epoch = 0 /\ Closed.vector = {}
      /\ Closed.viewEpoch = 0 /\ Closed.base = 0 /\ Closed.viewRev = 0 /\ Closed.pending = 0
      /\ Closed.excl = 0 /\ Closed.save = NoSave /\ Closed.command = "none"
  BY DEF Closed
<1> QED BY <1>1, EmptyFine

LEMMA OpenStepFine ==
    ASSUME Inv, Inv', MergeInv, NEW c \in Clients, Open(c), opens \in Nat
    PROVE  MergeInv'
<1> DEFINE s == [Closed EXCEPT !.phase = "loading", !.id = opens + 1]
<1>1. /\ tab' = [tab EXCEPT ![c] = s] /\ tab[c].phase = "closed"
      /\ UNCHANGED <<record, rev, draft, call, stray, edit>>
  BY DEF Open, Become, server
<1>2. ServerOK(edit, record, rev)
  BY DEF Inv
<1>3. SessionFine(edit, record, rev, c, s)
  <2>1. /\ s.phase = "loading" /\ s.epoch = 0 /\ s.vector = {} /\ s.viewEpoch = 0
        /\ s.base = 0 /\ s.viewRev = 0 /\ s.pending = 0 /\ s.excl = 0 /\ s.save = NoSave
        /\ s.command = "none"
    BY DEF Closed
  <2> HIDE DEF s
  <2> QED BY <1>2, <2>1, EmptyFine
<1>4. call[c] = NoCall
  BY <1>1, TabFacts DEF CallOK
<1>5. call' = [call EXCEPT ![c] = NoCall]
  BY <1>1, <1>4 DEF Inv
<1> HIDE DEF s
<1> QED BY <1>1, <1>3, <1>5, UnansweredFine, TabFineFacts, FineLocalStep

\* A request that is abandoned is serial whenever it arrives.
LEMMA AbandonedFine ==
    ASSUME Inv, MergeInv, NEW c \in Clients, Abandon(c), NEW q \in stray', q \notin stray
    PROVE  StrayOK(edit, q) /\ StrayFine(edit, record, rev, q)
<1>1. q = tab[c].save /\ call[c].kind = "update"
  BY DEF Abandon
<1>2. StrayOK(edit, q) /\ q # NoSave
  BY <1>1, TabFacts DEF SessionOK, AnySession, StrayOK, CallOK
<1>3. SessionFine(edit, record, rev, c, tab[c])
  BY TabFineFacts
<1>4. /\ q.epoch = tab[c].epoch /\ q.client[1] = c /\ q.base <= rev /\ q.excl <= rev
      /\ tab[c].epoch <= record.last
  BY <1>1, <1>2, <1>3 DEF SessionFine, SessionBounds, SaveFine
<1>5. Now(record, q.epoch) =>
          ReqSerial(edit, record.state, q) /\ Own(edit, q.client[1], q.update)
  BY <1>1, <1>3, <1>4 DEF SessionFine, SessionView, CopySerial
<1> QED BY <1>2, <1>4, <1>5 DEF StrayFine

LEMMA CloseStepFine ==
    ASSUME Inv, Inv', MergeInv, NEW c \in Clients, Close(c)
    PROVE  MergeInv'
<1>1. /\ tab' = [tab EXCEPT ![c] = Closed] /\ call' = [call EXCEPT ![c] = NoCall]
      /\ UNCHANGED <<record, rev, draft, edit>> /\ Abandon(c)
  BY DEF Close, Become, server
<1>2. SessionFine(edit, record, rev, c, Closed)
  BY ClosedFine DEF Inv
<1> QED BY <1>1, <1>2, AbandonedFine, UnansweredFine, TabFineFacts, FineLocalStep

LEMMA DiscardStepFine ==
    ASSUME Inv, Inv', MergeInv, NEW c \in Clients, Discard(c)
    PROVE  MergeInv'
<1> DEFINE S == {e \in DOMAIN edit : edit[e].by = c /\ edit[e].at = 0}
<1>1. /\ tab' = [tab EXCEPT ![c] = Closed] /\ call' = [call EXCEPT ![c] = NoCall]
      /\ draft' = [draft EXCEPT ![c] = NoDraft]
      /\ edit' = [e \in DOMAIN edit |-> IF e \in S THEN [edit[e] EXCEPT !.at = -1] ELSE edit[e]]
      /\ UNCHANGED <<record, rev>> /\ Abandon(c)
  BY DEF Discard, Become, server
<1>2. /\ EditsOK(edit) /\ EditsOK(edit') /\ RowFine(edit, record, rev)
      /\ ServerOK(edit, record, rev) /\ ServerOK(edit', record', rev')
      /\ record.last \in Nat /\ rev \in Nat
  BY RowFacts DEF Inv, MergeInv
<1>3. /\ DOMAIN edit' = DOMAIN edit
      /\ \A e \in DOMAIN edit :
           /\ edit'[e].by = edit[e].by /\ edit'[e].view = edit[e].view
           /\ edit'[e].exclusive = edit[e].exclusive
           /\ edit'[e].viewEpoch = edit[e].viewEpoch /\ edit'[e].epoch = edit[e].epoch
           /\ e \in S => edit'[e].at = -1
           /\ e \notin S => edit'[e].at = edit[e].at
  <2>1. /\ DOMAIN edit' = DOMAIN edit
        /\ \A e \in DOMAIN edit :
             edit'[e] = IF e \in S THEN [edit[e] EXCEPT !.at = -1] ELSE edit[e]
    BY <1>1
  <2>2. \A e \in DOMAIN edit : edit[e] \in AnyEdit
    BY <1>2, EditTypes
  <2> HIDE DEF S
  <2> SUFFICES ASSUME NEW e \in DOMAIN edit
               PROVE  /\ edit'[e].by = edit[e].by /\ edit'[e].view = edit[e].view
                      /\ edit'[e].exclusive = edit[e].exclusive
                      /\ edit'[e].viewEpoch = edit[e].viewEpoch
                      /\ edit'[e].epoch = edit[e].epoch
                      /\ e \in S => edit'[e].at = -1
                      /\ e \notin S => edit'[e].at = edit[e].at
    BY <2>1
  <2>3. edit[e] \in AnyEdit
    BY <2>2
  <2>4. CASE e \in S
    <3>1. edit'[e] = [edit[e] EXCEPT !.at = -1]
      BY <2>1, <2>4
    <3> QED BY <2>3, <2>4, <3>1 DEF AnyEdit
  <2>5. CASE e \notin S
    <3>1. edit'[e] = edit[e]
      BY <2>1, <2>5
    <3> QED BY <2>5, <3>1
  <2> QED BY <2>4, <2>5
<1>4. Advances(edit, record, rev, edit', record', rev')
  BY <1>1, <1>2, <1>3 DEF Advances
<1>5. RowFine(edit', record', rev')
  <2>1. \A e \in DOMAIN edit' :
            /\ edit'[e].epoch <= record.last /\ -1 <= edit'[e].at /\ edit'[e].at <= rev
            /\ edit'[e].at > 0 => e \in DOMAIN edit /\ edit[e].at > 0
    BY <1>2, <1>3 DEF RowFine
  <2> QED BY <1>1, <1>2, <1>4, <2>1, RowFineKept
<1>6. /\ tab'[c] = Closed /\ draft'[c] = NoDraft /\ call'[c] = NoCall
      /\ \A x \in Clients \ {c} : /\ tab'[x] = tab[x] /\ draft'[x] = draft[x]
                                  /\ call'[x] = call[x]
  BY <1>1 DEF Inv
<1>7. TabFine(edit', record', rev', c, tab'[c], draft'[c], call'[c])
  BY <1>1, <1>2, <1>6, ClosedFine, NoDraftFine, UnansweredFine DEF TabFine
<1>8. \A q \in stray' : q \in stray \/ StrayFine(edit', record', rev', q)
  BY <1>1, <1>2, <1>4, AbandonedFine, StrayFineStays
<1> QED BY <1>4, <1>5, <1>6, <1>7, <1>8, FineStep

LEMMA LoseStepFine ==
    ASSUME Inv, Inv', MergeInv, NEW c \in Clients, Lose(c)
    PROVE  MergeInv'
<1> DEFINE s == tab[c]
<1>1. /\ tab' = [tab EXCEPT ![c] = s] /\ call' = [call EXCEPT ![c] = NoCall]
      /\ UNCHANGED <<record, rev, edit>> /\ Abandon(c)
  BY DEF Lose, server, Inv
<1>2. /\ s \in AnySession /\ SessionOK(edit, c, s) /\ CallOK(edit, call[c], s, draft[c])
      /\ SessionFine(edit, record, rev, c, s) /\ ServerOK(edit, record, rev)
  BY TabFacts, TabFineFacts DEF Inv
<1>3. /\ DraftFine(edit, record, rev, c, draft'[c])
      /\ \A x \in Clients \ {c} : draft'[x] = draft[x]
  <2>1. CASE call[c].kind = "update"
    <3>1. Persist(c, s) /\ s.epoch # 0
      BY <1>2, <2>1 DEF Lose, CallOK, SessionOK, Dirty
    <3> HIDE DEF s
    <3>2. draft'[c] = Stored(s) /\ \A x \in Clients \ {c} : draft'[x] = draft[x]
      BY <3>1, PersistStores
    <3> QED BY <1>2, <3>2, StoredFine DEF SessionFine, SessionView
  <2>2. CASE call[c].kind # "update"
    BY <2>2, TabFineFacts DEF Lose
  <2> QED BY <2>1, <2>2
<1> HIDE DEF s
<1> QED BY <1>1, <1>2, <1>3, AbandonedFine, UnansweredFine, FineLocalStep

-----------------------------------------------------------------------------
(* Receiving.                                                                *)

\* What SessionFine says of a session whatever its phase.
Merges(ed, row, rv, c, s) ==
    /\ SessionBounds(row, rv, c, s)
    /\ Now(row, s.epoch) => SessionView(ed, row.state, c, s)

\* The end of loadInitial() and the poll of an open session.
LEMMA LoadedFine ==
    ASSUME NEW ed, NEW row, NEW rv, EditsOK(ed), ServerOK(ed, row, rv),
           NEW c, NEW s \in AnySession, Merges(ed, row, rv, c, s), s.phase # "closed",
           s.base # 0, s.excl <= s.base, s.pending <= s.base, s.viewRev <= s.base,
           s.phase = "open" /\ ~s.conflict => s.viewRev # 0
    PROVE  SessionFine(ed, row, rv, c, Loaded(s))
<1>1. CASE s.phase = "open"
  <2>1. Loaded(s) = s
    BY <1>1 DEF Loaded
  <2> QED BY <1>1, <2>1 DEF SessionFine, Merges, Upright
<1>2. CASE s.phase = "loading"
  <2> DEFINE t == Loaded(s)
  <2>1. /\ t.phase = "open" /\ t.epoch = s.epoch /\ t.doc = s.doc
        /\ t.vector = s.vector /\ t.view = s.doc /\ t.viewEpoch = s.epoch
        /\ t.base = s.base /\ t.viewRev = s.base /\ t.excl = s.excl
        /\ t.pending = s.pending
        /\ t.save = s.save /\ t.newer = s.newer /\ t.newExcl = s.newExcl
        /\ t.conflict = s.conflict /\ t.command = s.command
    BY <1>2 DEF Loaded, Initialized, AnySession
  <2> HIDE DEF t
  <2>2. s.epoch \in Nat /\ s.base \in Nat /\ s.excl \in Nat /\ s.pending \in Nat
    BY DEF AnySession
  <2>3. SessionBounds(row, rv, c, t) /\ Upright(t)
    BY <2>1, <2>2 DEF Merges, SessionBounds, SaveFine, Upright
  <2>4. ASSUME Now(row, s.epoch)
        PROVE  SessionView(ed, row.state, c, t)
    <3>1. SessionView(ed, row.state, c, s) /\ s.save.update \subseteq s.doc
      BY <2>4 DEF Merges, SessionBounds, SaveFine
    <3>2. \A r \in Nat : r <= s.base => UpTo(ed, row.state, r) \subseteq s.doc
      <4> SUFFICES ASSUME NEW r \in Nat, r <= s.base, NEW y \in row.state, ed[y].at <= r
                   PROVE  y \in s.doc
        BY DEF UpTo
      <4>1. ed[y].at \in Int
        BY EditTypes DEF ServerOK, Settled
      <4>2. ed[y].at <= s.base
        BY <2>2, <4>1
      <4> QED BY <3>1, <4>2 DEF SessionView, UpTo
    <3>3. ViewOK(ed, row.state, c, t)
      BY <2>1, <2>2, <3>1, <3>2 DEF ViewOK, ExclUpTo
    <3>4. New(ed, t) = New(ed, s)
      BY <2>1 DEF New
    <3>5. CopySerial(ed, row.state, c, t, t.pending)
      BY <2>1, <3>1, <3>4 DEF SessionView, CopySerial
    <3> QED BY <2>1, <3>1, <3>3, <3>5 DEF SessionView
  <2> QED BY <2>1, <2>3, <2>4 DEF SessionFine, t
<1> QED BY <1>1, <1>2 DEF AnySession

\* A merge with what was committed by others; a replaced workbook when nothing is pending.
LEMMA ReceivedFine ==
    ASSUME NEW ed, NEW row, NEW rv, EditsOK(ed), ServerOK(ed, row, rv),
           RowFine(ed, row, rv), NEW c, NEW s \in AnySession, SessionOK(ed, c, s),
           Merges(ed, row, rv, c, s), NEW a \in AnyAnswer, a.epoch # 0, a.epoch <= row.last,
           a.rev <= rv, s.viewEpoch <= a.epoch, s.epoch <= a.epoch,
           Now(row, a.epoch) =>
               /\ UpTo(ed, row.state, a.rev) = a.state
               /\ s.epoch = a.epoch => s.vector \subseteq a.state,
           s.epoch # 0 /\ s.epoch # a.epoch => ~Dirty(s)
    PROVE  LET t == Received(s, a)
           IN  /\ Merges(ed, row, rv, c, t)
               /\ t.base = a.rev /\ t.viewRev = s.viewRev /\ t.pending = s.pending
               /\ t.excl \in {0, s.excl} /\ t.phase = s.phase /\ t.conflict = s.conflict
               /\ t.newer = s.newer /\ t.newExcl = s.newExcl /\ t.epoch = a.epoch
               /\ t.viewEpoch = s.viewEpoch /\ t.save = s.save /\ t.command = s.command
               /\ s.epoch = a.epoch => t.excl = s.excl
<1> DEFINE t == Received(s, a)
           replaced == s.epoch # 0 /\ s.epoch # a.epoch
<1>1. /\ t.phase = s.phase /\ t.epoch = a.epoch
      /\ t.doc = (IF replaced THEN a.state ELSE s.doc \cup a.state)
      /\ t.vector = a.state /\ t.view = s.view /\ t.viewEpoch = s.viewEpoch
      /\ t.base = a.rev /\ t.viewRev = s.viewRev
      /\ t.excl = (IF replaced THEN 0 ELSE s.excl) /\ t.pending = s.pending
      /\ t.save = s.save /\ t.newer = s.newer /\ t.newExcl = s.newExcl
      /\ t.conflict = s.conflict /\ t.command = s.command
  BY DEF Received, AnySession
<1> HIDE DEF t
<1>2. s.epoch # a.epoch => s.save = NoSave /\ s.newer = FALSE
  BY DEF Dirty, SessionOK, AnySession
<1>3. rv \in Nat /\ a.epoch \in Nat /\ a.rev \in Nat /\ row.last \in Nat
  BY RowFacts DEF AnyAnswer
<1>4. SessionBounds(row, rv, c, t)
  BY <1>1, <1>2, <1>3, NoSaveType DEF Merges, SessionBounds, SaveFine
<1>5. ASSUME Now(row, a.epoch)
      PROVE  SessionView(ed, row.state, c, t)
  <2>1. UpTo(ed, row.state, a.rev) = a.state /\ a.state \subseteq row.state
    BY <1>5 DEF UpTo
  <2>2. \A y \in a.state : ed[y].at > 0 /\ ed[y].at \in Int /\ y \in DOMAIN ed
    BY <2>1, EditTypes DEF RowFine, ServerOK, Settled
  <2>3. CASE s.epoch = a.epoch
    <3>1. SessionView(ed, row.state, c, s) /\ s.vector \subseteq a.state
      BY <1>5, <2>3 DEF Merges
    <3>2. CopySerial(ed, row.state, c, s, s.pending)
      BY <3>1 DEF SessionView
    <3>3. t.doc = s.doc \cup a.state /\ t.excl = s.excl
      BY <1>1, <2>3
    <3>4. Unc(ed, t.doc) = Unc(ed, s.doc) /\ New(ed, t) = New(ed, s)
      BY <1>1, <2>2, <3>3 DEF New, Unc
    <3>5. Own(ed, c, t.doc)
      BY <2>2, <3>2, <3>3 DEF CopySerial, Own
    <3>6. CopySerial(ed, row.state, c, t, t.pending)
      BY <1>1, <3>2, <3>3, <3>4, <3>5 DEF CopySerial
    <3>7. ViewOK(ed, row.state, c, s) => ViewOK(ed, row.state, c, t)
      BY <1>1, <3>1, <3>3 DEF ViewOK
    <3> QED BY <1>1, <2>1, <2>3, <3>1, <3>3, <3>6, <3>7 DEF SessionView
  <2>4. CASE s.epoch # a.epoch
    <3>1. t.save = NoSave /\ t.newer = FALSE /\ NoSave.update = {}
      BY <1>1, <1>2, <2>4, NoSaveType
    <3>2. t.doc = a.state
      <4>1. s.epoch = 0 => s.doc = {}
        BY DEF SessionOK, Held, EditsOK
      <4> QED BY <1>1, <2>4, <4>1
    <3>3. Unc(ed, t.doc) = {} /\ New(ed, t) = {} /\ Own(ed, c, t.doc)
      BY <2>2, <3>2 DEF New, Unc, Own
    <3>4. ReqSerial(ed, row.state, t.save)
      BY <3>1 DEF ReqSerial, AllSeen, Guarded, Unc
    <3>5. CopySerial(ed, row.state, c, t, t.pending)
      BY <3>1, <3>3, <3>4 DEF CopySerial, Own, AllSeen, Guarded
    <3>6. t.viewEpoch # t.epoch
      <4>1. s.viewEpoch <= s.epoch /\ s.viewEpoch \in Nat /\ s.epoch \in Nat
        BY DEF Merges, SessionBounds, AnySession
      <4> QED BY <1>1, <1>3, <2>4, <4>1
    <3> QED BY <1>1, <2>1, <3>2, <3>5, <3>6 DEF SessionView
  <2> QED BY <2>3, <2>4
<1>6. Merges(ed, row, rv, c, t)
  BY <1>1, <1>4, <1>5 DEF Merges
<1> QED BY <1>1, <1>6 DEF t

LEMMA FineFailStep ==
    ASSUME Inv, Inv', MergeInv, NEW c \in Clients, NEW s \in AnySession,
           Merges(edit, record, rev, c, s), s.epoch # 0, s.phase = "open" \/ s.viewEpoch = 0,
           Fail(c, s), UNCHANGED <<record, rev, edit, stray>>,
           call' = [call EXCEPT ![c] = NoCall]
    PROVE  MergeInv'
<1> DEFINE t == [s EXCEPT !.conflict = TRUE, !.phase = "open"]
<1>1. /\ t.phase = "open" /\ t.epoch = s.epoch /\ t.doc = s.doc /\ t.vector = s.vector
      /\ t.view = s.view /\ t.viewEpoch = s.viewEpoch /\ t.base = s.base
      /\ t.viewRev = s.viewRev /\ t.pending = s.pending /\ t.excl = s.excl
      /\ t.save = s.save /\ t.newer = s.newer /\ t.newExcl = s.newExcl
      /\ t.conflict = TRUE /\ t.command = s.command /\ t \in AnySession
  BY DEF AnySession
<1>2. tab' = [tab EXCEPT ![c] = t] /\ Persist(c, t)
  BY DEF Fail, Become
<1> HIDE DEF t
<1>3. SessionBounds(record, rev, c, t)
  BY <1>1 DEF Merges, SessionBounds, SaveFine
<1>4. ASSUME Now(record, s.epoch)
      PROVE  SessionView(edit, record.state, c, t)
  <2>1. SessionView(edit, record.state, c, s)
    BY <1>4 DEF Merges
  <2>2. New(edit, t) = New(edit, s)
    BY <1>1 DEF New
  <2>3. CopySerial(edit, record.state, c, t, t.pending)
    BY <1>1, <2>1, <2>2 DEF SessionView, CopySerial
  <2>4. t.viewEpoch = t.epoch => ViewOK(edit, record.state, c, t)
    BY <1>1, <2>1 DEF SessionView, ViewOK
  <2> QED BY <1>1, <2>1, <2>3, <2>4 DEF SessionView
<1>5. SessionFine(edit, record, rev, c, t)
  BY <1>1, <1>3, <1>4 DEF SessionFine
<1>6. draft'[c] = Stored(t) /\ \A x \in Clients \ {c} : draft'[x] = draft[x]
  BY <1>1, <1>2, PersistStores
<1>7. DraftFine(edit, record, rev, c, draft'[c])
  <2>1. ServerOK(edit, record, rev)
    BY DEF Inv
  <2> QED BY <1>1, <1>5, <1>6, <2>1, StoredFine DEF SessionFine, SessionView
<1> QED BY <1>2, <1>5, <1>6, <1>7, UnansweredFine, FineLocalStep

LEMMA RefreshStepFine ==
    ASSUME Inv, Inv', MergeInv, NEW c \in Clients, Refresh(c)
    PROVE  MergeInv'
<1> DEFINE s == tab[c]
           a == call[c].answer
           t == Received(s, a)
<1>1. /\ s.phase = "open" /\ call[c].answered /\ call[c].kind = "info"
      /\ call' = [call EXCEPT ![c] = NoCall] /\ UNCHANGED <<record, rev, stray, edit>>
      /\ \/ Fail(c, s)
         \/ ~Conflicts(s, a, FALSE) /\ tab' = [tab EXCEPT ![c] = t] /\ UNCHANGED draft
  BY DEF Refresh, server, Become
<1>2. /\ s \in AnySession /\ SessionOK(edit, c, s) /\ CallOK(edit, call[c], s, draft[c])
      /\ SessionFine(edit, record, rev, c, s)
      /\ CallFine(edit, record, rev, c, call[c], s, draft[c])
      /\ EditsOK(edit) /\ ServerOK(edit, record, rev) /\ RowFine(edit, record, rev)
      /\ DraftFine(edit, record, rev, c, draft[c])
  BY TabFacts, TabFineFacts DEF Inv
<1>3. Merges(edit, record, rev, c, s) /\ s.epoch # 0
  BY <1>1, <1>2 DEF SessionFine, Merges, SessionOK
<1>4. /\ a \in AnyAnswer /\ a.ok /\ a.epoch # 0
  BY <1>1, <1>2 DEF CallOK, AnyCall
<1>5. /\ AnswerAhead(a, s, draft[c]) /\ a.epoch <= record.last /\ a.rev # 0 /\ a.rev <= rev
      /\ Now(record, a.epoch) =>
            /\ UpTo(edit, record.state, a.rev) = a.state
            /\ s.epoch = a.epoch => s.vector \subseteq a.state
  BY <1>2, <1>4 DEF CallFine
<1> HIDE DEF s, a
<1>6. CASE Fail(c, s)
  BY <1>1, <1>2, <1>3, <1>6, FineFailStep
<1>7. CASE ~Conflicts(s, a, FALSE) /\ tab' = [tab EXCEPT ![c] = t] /\ UNCHANGED draft
  <2>1. s.epoch # 0 /\ s.epoch # a.epoch => ~Dirty(s)
    BY <1>7 DEF Conflicts
  <2>2. s.viewEpoch <= a.epoch /\ s.epoch <= a.epoch
    BY <1>5 DEF AnswerAhead
  <2>3. /\ Merges(edit, record, rev, c, t)
        /\ t.base = a.rev /\ t.viewRev = s.viewRev /\ t.pending = s.pending
        /\ t.excl \in {0, s.excl} /\ t.phase = s.phase /\ t.conflict = s.conflict
    BY <1>2, <1>3, <1>4, <1>5, <2>1, <2>2, ReceivedFine
  <2>4. t \in AnySession
    BY <1>2, <1>4, ReceivedType
  <2>5. Loaded(t) = t
    BY <1>1, <2>3 DEF Loaded, s
  <2>6. /\ t.base # 0 /\ t.excl <= t.base /\ t.pending <= t.base /\ t.viewRev <= t.base
        /\ t.phase # "closed" /\ (~t.conflict => t.viewRev # 0)
    BY <1>1, <1>2, <1>4, <1>5, <2>3 DEF AnswerAhead, SessionFine, Upright, s, AnyAnswer
  <2> HIDE DEF t
  <2>7. SessionFine(edit, record, rev, c, t)
    BY <1>2, <2>3, <2>4, <2>5, <2>6, LoadedFine
  <2> QED BY <1>1, <1>2, <1>7, <2>7, UnansweredFine, FineLocalStep
<1> QED BY <1>1, <1>6, <1>7

\* The revisions of a session advance over its own commit, all of which it has seen.
LEMMA AdvancedFine ==
    ASSUME NEW ed, NEW row, NEW rv, EditsOK(ed), ServerOK(ed, row, rv),
           NEW c, NEW s \in AnySession, Merges(ed, row, rv, c, s),
           NEW p \in Nat, NEW k \in Nat, p <= k, k <= rv,
           Now(row, s.epoch) => CommitFine(ed, row.state, c, s.save, p, k)
    PROVE  LET t == Advance(s, p, k)
           IN  /\ Merges(ed, row, rv, c, t)
               /\ t.phase = s.phase /\ t.epoch = s.epoch /\ t.viewEpoch = s.viewEpoch
               /\ t.vector = s.vector /\ t.base = s.base /\ t.pending = s.pending
               /\ t.viewRev \in {s.viewRev, k} /\ t.excl \in {s.excl, k}
               /\ t.save = s.save /\ t.newer = s.newer /\ t.newExcl = s.newExcl
               /\ t.conflict = s.conflict
               /\ s.viewRev # 0 => t.viewRev # 0
<1> DEFINE t == Advance(s, p, k)
<1>1. /\ t.phase = s.phase /\ t.epoch = s.epoch /\ t.doc = s.doc /\ t.vector = s.vector
      /\ t.view = s.view /\ t.viewEpoch = s.viewEpoch /\ t.base = s.base
      /\ t.viewRev = (IF s.viewRev = p THEN k ELSE s.viewRev) /\ t.pending = s.pending
      /\ t.excl = (IF s.excl # 0 /\ s.excl = p THEN k ELSE s.excl)
      /\ t.save = s.save /\ t.newer = s.newer /\ t.newExcl = s.newExcl
      /\ t.conflict = s.conflict /\ t.command = s.command
  BY DEF Advance, AnySession
<1> HIDE DEF t
<1>2. SessionBounds(row, rv, c, t)
  BY <1>1 DEF Merges, SessionBounds, SaveFine
<1>3. ASSUME Now(row, s.epoch)
      PROVE  SessionView(ed, row.state, c, t)
  <2>1. SessionView(ed, row.state, c, s) /\ CommitFine(ed, row.state, c, s.save, p, k)
    BY <1>3 DEF Merges
  <2>2. \A e \in UpTo(ed, row.state, k) : \/ e \in UpTo(ed, row.state, p)
                                          \/ e \in s.save.update /\ ed[e].by = c
    <3> SUFFICES ASSUME NEW e \in row.state, ed[e].at <= k, ~(ed[e].at <= p)
                 PROVE  e \in s.save.update /\ ed[e].by = c
      BY DEF UpTo
    <3>1. ed[e].at \in Int
      BY EditTypes DEF ServerOK, Settled
    <3> QED BY <2>1, <3>1 DEF CommitFine
  <2>3. CopySerial(ed, row.state, c, s, s.pending)
    BY <2>1 DEF SessionView
  <2>4. New(ed, t) = New(ed, s)
    BY <1>1 DEF New
  <2>5. Guarded(ed, row.state, New(ed, t), t.excl, t.pending)
    <3>1. \A x \in New(ed, s) : Excl(ed, x) =>
              s.excl # 0 /\ \A e \in UpTo(ed, row.state, s.excl) : Seen(ed, x, e)
      BY <2>3 DEF CopySerial, Guarded
    <3>2. \A x \in New(ed, s), e \in s.save.update : ed[e].by = c => Seen(ed, x, e)
      BY <2>3 DEF CopySerial, Seen, Here
    <3>3. \A x \in New(ed, s) : Excl(ed, x) =>
              t.excl # 0 /\ \A e \in UpTo(ed, row.state, t.excl) : Seen(ed, x, e)
      BY <1>1, <2>2, <3>1, <3>2
    <3> QED BY <1>1, <2>3, <2>4, <3>3 DEF CopySerial, Guarded
  <2>6. CopySerial(ed, row.state, c, t, t.pending)
    BY <1>1, <2>3, <2>4, <2>5 DEF CopySerial
  <2>7. ViewOK(ed, row.state, c, s) => ViewOK(ed, row.state, c, t)
    BY <1>1, <2>2 DEF ViewOK
  <2> QED BY <1>1, <2>1, <2>6, <2>7 DEF SessionView
<1>4. s.viewRev # 0 => t.viewRev # 0
  BY <1>1
<1> QED BY <1>1, <1>2, <1>3, <1>4 DEF Merges, t

\* What follows an acknowledged request is guarded by the revision of the answer, if no
\* exclusive edit of another was committed meanwhile.
LEMMA AcknowledgedFine ==
    ASSUME NEW ed, NEW row, NEW rv, EditsOK(ed), ServerOK(ed, row, rv), RowFine(ed, row, rv),
           NEW c, NEW r \in AnySession, Merges(ed, row, rv, c, r), r.save # NoSave,
           NEW a \in AnyAnswer, a.rev # 0, a.rev <= rv, r.epoch = a.epoch,
           Now(row, a.epoch) =>
               /\ \A x \in ExclUpTo(ed, row.state, a.rev) : ed[x].at <= a.barrier
               /\ CommitFine(ed, row.state, c, r.save, a.previous, a.acked),
           ~(a.barrier > a.acked /\ r.newer)
    PROVE  Merges(ed, row, rv, c, Acknowledged(r, IF r.newExcl THEN r.excl ELSE 0,
                                                  IF r.newer THEN a.rev ELSE 0))
<1> DEFINE m == IF r.newExcl THEN r.excl ELSE 0
           n == IF r.newer THEN a.rev ELSE 0
           t == Acknowledged(r, m, n)
<1>1. /\ t.phase = r.phase /\ t.epoch = r.epoch /\ t.doc = r.doc /\ t.vector = r.vector
      /\ t.view = r.view /\ t.viewEpoch = r.viewEpoch /\ t.base = r.base
      /\ t.viewRev = r.viewRev /\ t.pending = n /\ t.excl = m
      /\ t.save = NoSave /\ t.newer = r.newer /\ t.newExcl = r.newExcl
      /\ t.conflict = r.conflict /\ t.command = r.command
  BY DEF Acknowledged, AnySession
<1>2. /\ m \in Nat /\ n \in Nat /\ rv \in Nat /\ m \in {0, r.excl} /\ n \in {0, a.rev}
      /\ r.newer => n = a.rev
      /\ r.newExcl => m = r.excl
      /\ a.previous \in Nat /\ a.acked \in Nat /\ a.barrier \in Nat /\ a.rev \in Nat
      /\ NoSave.update = {} /\ NoSave.base = 0 /\ NoSave.excl = 0
      /\ r.newer \in BOOLEAN /\ (~r.newer => n = 0)
  BY RowFacts DEF AnySession, AnyAnswer, NoSave
<1> HIDE DEF t, m, n
<1>3. SessionBounds(row, rv, c, t)
  BY <1>1, <1>2 DEF Merges, SessionBounds, SaveFine
<1>4. ASSUME Now(row, a.epoch)
      PROVE  SessionView(ed, row.state, c, t)
  <2>1. /\ SessionView(ed, row.state, c, r)
        /\ CommitFine(ed, row.state, c, r.save, a.previous, a.acked)
        /\ CopySerial(ed, row.state, c, r, r.pending) /\ r.pending = r.save.base
    BY <1>4 DEF Merges, SessionView, CopySerial
  <2>2. \A e \in row.state : ed[e].at > 0 /\ ed[e].at \in Int
    BY EditTypes DEF RowFine, ServerOK, Settled
  \* Exclusive edits up to the new guard were its own, or already guarded against.
  <2>3. r.newer => \A x \in ExclUpTo(ed, row.state, n) :
            \/ x \in r.save.update /\ ed[x].by = c
            \/ x \in ExclUpTo(ed, row.state, r.pending)
    <3> SUFFICES ASSUME r.newer, NEW x \in ExclUpTo(ed, row.state, a.rev)
                 PROVE  \/ x \in r.save.update /\ ed[x].by = c
                        \/ x \in ExclUpTo(ed, row.state, r.pending)
      BY <1>2
    <3>1. x \in row.state /\ Excl(ed, x) /\ ed[x].at \in Int /\ ed[x].at <= a.barrier
      BY <1>4, <2>2 DEF ExclUpTo, UpTo
    <3>2. ed[x].at <= a.acked
      BY <1>2, <3>1
    <3>3. CASE a.previous < ed[x].at
      BY <2>1, <3>1, <3>2, <3>3 DEF CommitFine
    <3>4. CASE ed[x].at <= a.previous
      <4>1. x \in ExclUpTo(ed, row.state, a.previous)
        BY <3>1, <3>4 DEF ExclUpTo, UpTo
      <4>2. ed[x].at <= r.pending
        BY <2>1, <4>1 DEF CommitFine
      <4> QED BY <3>1, <4>2 DEF ExclUpTo, UpTo
    <3> QED BY <1>2, <3>1, <3>3, <3>4
  <2>4. New(ed, t) = New(ed, r)
    <3>1. \A e \in r.save.update : ~(ed[e].at <= 0)
      BY <2>1, <2>2 DEF CommitFine
    <3> QED BY <1>1, <1>2, <3>1 DEF New, Unc
  <2>5. New(ed, r) # {} => r.newer
    BY <2>1 DEF CopySerial
  <2>6. Guarded(ed, row.state, New(ed, t), t.excl, t.pending)
    <3>1. \A x \in New(ed, r) : Excl(ed, x) =>
              t.excl # 0 /\ \A e \in UpTo(ed, row.state, t.excl) : Seen(ed, x, e)
      BY <1>1, <1>2, <2>1 DEF CopySerial, Guarded
    <3>2. \A e \in New(ed, r), x \in ExclUpTo(ed, row.state, t.pending) : Seen(ed, x, e)
      BY <1>1, <2>1, <2>3, <2>5 DEF CopySerial, Guarded
    <3> QED BY <2>4, <3>1, <3>2 DEF Guarded
  <2>7. CopySerial(ed, row.state, c, t, t.pending)
    <3>1. Own(ed, c, t.doc) /\ Own(ed, c, t.save.update) /\ AllSeen(ed, Unc(ed, t.doc))
      BY <1>1, <1>2, <2>1 DEF CopySerial, Own
    <3>2. ReqSerial(ed, row.state, t.save)
      BY <1>1, <1>2 DEF ReqSerial, AllSeen, Guarded, Unc
    <3>3. \A x \in New(ed, t) : Excl(ed, x) => t.newExcl
      BY <1>1, <2>1, <2>4 DEF CopySerial
    <3>4. \A e \in New(ed, t), x \in t.save.update : ed[x].by = c => Seen(ed, x, e)
      BY <1>1, <1>2
    <3>5. (New(ed, t) # {} => t.newer) /\ (t.newer => t.pending # 0)
      BY <1>1, <1>2, <2>4, <2>5
    <3> QED BY <1>1, <2>6, <3>1, <3>2, <3>3, <3>4, <3>5 DEF CopySerial
  <2>8. ViewOK(ed, row.state, c, r) => ViewOK(ed, row.state, c, t)
    <3> SUFFICES ASSUME ViewOK(ed, row.state, c, r)
                 PROVE  ViewOK(ed, row.state, c, t)
      OBVIOUS
    <3>1. UpTo(ed, row.state, 0) = {}
      BY <2>2 DEF UpTo
    <3>2. UpTo(ed, row.state, t.excl) \subseteq t.view
      BY <1>1, <1>2, <3>1 DEF ViewOK
    <3>3. ExclUpTo(ed, row.state, t.pending) \subseteq t.view
      <4>1. CASE r.newer
        BY <1>1, <2>3, <4>1 DEF ViewOK
      <4>2. CASE ~r.newer
        BY <1>1, <1>2, <3>1, <4>2 DEF ExclUpTo
      <4> QED BY <4>1, <4>2
    <3> QED BY <1>1, <1>2, <3>2, <3>3 DEF ViewOK
  <2> QED BY <1>1, <2>1, <2>7, <2>8 DEF SessionView
<1>5. Merges(ed, row, rv, c, t)
  BY <1>1, <1>3, <1>4 DEF Merges
<1> QED BY <1>5 DEF t, m, n

LEMMA AcknowledgeStepFine ==
    ASSUME Inv, Inv', MergeInv, NEW c \in Clients, Acknowledge(c)
    PROVE  MergeInv'
<1> DEFINE s0 == tab[c]
           a == call[c].answer
           s == Advance(s0, a.previous, a.acked)
           r == Received(s, a)
           t == Acknowledged(r, IF r.newExcl THEN r.excl ELSE 0, IF r.newer THEN a.rev ELSE 0)
<1>1. /\ call[c].kind = "update" /\ call[c].answered
      /\ call' = [call EXCEPT ![c] = NoCall] /\ UNCHANGED <<record, rev, stray, edit>>
  BY DEF Acknowledge, server
<1>2. /\ s0 \in AnySession /\ SessionOK(edit, c, s0) /\ CallOK(edit, call[c], s0, draft[c])
      /\ SessionFine(edit, record, rev, c, s0)
      /\ CallFine(edit, record, rev, c, call[c], s0, draft[c])
      /\ EditsOK(edit) /\ ServerOK(edit, record, rev) /\ RowFine(edit, record, rev)
      /\ a \in AnyAnswer
  BY TabFacts, TabFineFacts DEF Inv, AnyCall
<1>3. s0.save # NoSave /\ s0.epoch # 0 /\ s0.phase # "closed"
  BY <1>1, <1>2, CallTypes DEF CallOK, SessionOK, Dirty
<1>4. /\ Merges(edit, record, rev, c, s0) /\ (s0.phase = "open" \/ s0.viewEpoch = 0)
  BY <1>2, <1>3 DEF SessionFine, Merges, AnySession
<1>5. CASE ~a.ok
  <2>1. Fail(c, s0)
    BY <1>5 DEF Acknowledge
  <2> HIDE DEF s0
  <2> QED BY <1>1, <1>2, <1>3, <1>4, <2>1, FineFailStep
<1>6. CASE a.ok
  <2>1. \/ Fail(c, s)
        \/ /\ ~(a.barrier > a.acked /\ s.newer) /\ ~Conflicts(s, a, TRUE)
           /\ LET u == [r EXCEPT !.save = NoSave,
                                 !.excl = IF s.newExcl THEN r.excl ELSE 0,
                                 !.pending = IF s.newer THEN a.rev ELSE 0]
              IN  Persist(c, u) /\ tab' = [tab EXCEPT ![c] = Loaded(u)]
    BY <1>6 DEF Acknowledge, Become
  <2>2. /\ AnswerAhead(a, s0, draft[c]) /\ a.epoch <= record.last /\ a.rev # 0 /\ a.rev <= rev
        /\ a.previous <= a.acked /\ a.acked <= a.rev /\ a.epoch # 0
        /\ Now(record, a.epoch) =>
              /\ UpTo(edit, record.state, a.rev) = a.state
              /\ \A x \in ExclUpTo(edit, record.state, a.rev) : edit[x].at <= a.barrier
              /\ s0.epoch = a.epoch => s0.vector \subseteq a.state
              /\ CommitFine(edit, record.state, c, s0.save, a.previous, a.acked)
    BY <1>1, <1>2, <1>6 DEF CallFine, CallOK
  <2>3. /\ a.previous \in Nat /\ a.acked \in Nat /\ a.rev \in Nat /\ a.epoch \in Nat
        /\ rev \in Nat /\ record.last \in Nat /\ record.epoch \in {0, record.last}
        /\ s0.epoch \in Nat /\ s0.epoch <= a.epoch /\ a.acked <= rev
    <3> HIDE DEF s0, a
    <3>1. /\ a.previous \in Nat /\ a.acked \in Nat /\ a.rev \in Nat /\ a.epoch \in Nat
          /\ s0.epoch \in Nat /\ s0.epoch <= a.epoch
      BY <1>2, <2>2 DEF AnyAnswer, AnySession, AnswerAhead
    <3>2. rev \in Nat /\ record.last \in Nat
      BY <1>2, RowFacts
    <3>3. record.epoch \in {0, record.last}
      BY <1>2 DEF RowFine
    <3> QED BY <2>2, <3>1, <3>2, <3>3
  <2>4. Now(record, s0.epoch) => Now(record, a.epoch)
    BY <2>2, <2>3 DEF Now
  <2> HIDE DEF s0, a
  <2>5. /\ Merges(edit, record, rev, c, s)
        /\ s.phase = s0.phase /\ s.epoch = s0.epoch /\ s.viewEpoch = s0.viewEpoch
        /\ s.vector = s0.vector /\ s.base = s0.base /\ s.pending = s0.pending
        /\ s.viewRev \in {s0.viewRev, a.acked} /\ s.excl \in {s0.excl, a.acked}
        /\ s.save = s0.save /\ s.newer = s0.newer /\ s.newExcl = s0.newExcl
        /\ s.conflict = s0.conflict
        /\ s0.viewRev # 0 => s.viewRev # 0
    BY <1>2, <1>4, <2>2, <2>3, <2>4, AdvancedFine
  <2>6. s \in AnySession /\ Kept(s0, s)
    BY <1>2, <2>3, AdvanceKeeps
  <2>7. SessionOK(edit, c, s)
    BY <1>2, <2>5, <2>6, KeepsOK
  <2> HIDE DEF s
  <2>8. CASE Fail(c, s)
    BY <1>1, <1>3, <1>4, <2>5, <2>6, <2>8, FineFailStep
  <2>9. CASE /\ ~(a.barrier > a.acked /\ s.newer) /\ ~Conflicts(s, a, TRUE)
             /\ LET u == [r EXCEPT !.save = NoSave,
                                   !.excl = IF s.newExcl THEN r.excl ELSE 0,
                                   !.pending = IF s.newer THEN a.rev ELSE 0]
                IN  Persist(c, u) /\ tab' = [tab EXCEPT ![c] = Loaded(u)]
    <3>1. s.epoch = a.epoch
      BY <1>3, <2>5, <2>9 DEF Conflicts, Dirty
    <3>2. s.viewEpoch <= a.epoch /\ s.epoch <= a.epoch
      BY <2>2, <2>5 DEF AnswerAhead
    <3>3. /\ Merges(edit, record, rev, c, r)
          /\ r.base = a.rev /\ r.viewRev = s.viewRev
          /\ r.phase = s.phase /\ r.conflict = s.conflict
          /\ r.newer = s.newer /\ r.newExcl = s.newExcl /\ r.epoch = a.epoch
          /\ r.save = s.save /\ r.excl = s.excl
      BY <1>2, <2>2, <2>5, <2>6, <2>7, <3>1, <3>2, ReceivedFine
    <3>4. r \in AnySession
      BY <1>2, <2>6, ReceivedType
    <3>5. Persist(c, t) /\ tab' = [tab EXCEPT ![c] = Loaded(t)]
      BY <2>9, <3>3 DEF Acknowledged
    <3> HIDE DEF r
    <3>6. Merges(edit, record, rev, c, t)
      BY <1>2, <1>3, <2>2, <2>5, <2>9, <3>3, <3>4, AcknowledgedFine
    <3>7. /\ t \in AnySession /\ t.phase = r.phase /\ t.epoch = r.epoch /\ t.base = r.base
          /\ t.viewRev = r.viewRev /\ t.excl \in {0, r.excl} /\ t.pending \in {0, a.rev}
          /\ t.conflict = r.conflict
      BY <2>3, <3>4, NoSaveType DEF Acknowledged, AnySession
    <3> HIDE DEF t
    <3>8. /\ t.base # 0 /\ t.excl <= t.base /\ t.pending <= t.base /\ t.viewRev <= t.base
          /\ t.phase # "closed" /\ (t.phase = "open" /\ ~t.conflict => t.viewRev # 0)
      BY <1>2, <1>3, <2>2, <2>3, <2>5, <3>3, <3>7 DEF AnswerAhead, SessionFine, Upright
    <3>9. SessionFine(edit, record, rev, c, Loaded(t))
      BY <1>2, <3>6, <3>7, <3>8, LoadedFine
    <3>10. t.epoch # 0
      BY <2>2, <3>3, <3>7
    <3>11. draft'[c] = Stored(t) /\ \A x \in Clients \ {c} : draft'[x] = draft[x]
      BY <3>5, <3>10, PersistStores
    <3>12. DraftFine(edit, record, rev, c, draft'[c])
      BY <1>2, <3>6, <3>7, <3>11, StoredFine DEF Merges, SessionView
    <3> QED BY <1>1, <3>5, <3>9, <3>11, <3>12, UnansweredFine, FineLocalStep
  <2> QED BY <2>1, <2>8, <2>9
<1> QED BY <1>5, <1>6

\* A session that was restored keeps what its draft was guarded by.
LEMMA RestoredFine ==
    ASSUME NEW ed, NEW row, NEW rv, EditsOK(ed), ServerOK(ed, row, rv), RowFine(ed, row, rv),
           NEW c, NEW s \in AnySession, SessionFine(ed, row, rv, c, s), s.phase = "loading",
           NEW d \in AnyDraft, DraftFine(ed, row, rv, c, d)
    PROVE  LET t == Restored(s, d)
           IN  /\ SessionFine(ed, row, rv, c, t) /\ Merges(ed, row, rv, c, t)
               /\ t.vector = {} /\ t.viewEpoch = 0 /\ t.base = 0 /\ t.phase = "loading"
               /\ \/ t = s
                  \/ /\ d # NoDraft /\ t.epoch = d.epoch /\ t.pending = d.base
                     /\ t.excl = d.excl /\ t.viewRev = d.viewRev
<1>1. s.base = 0 /\ s.vector = {} /\ s.viewEpoch = 0
  BY DEF SessionFine
<1>2. CASE d = NoDraft
  <2>1. Restored(s, d) = s
    BY <1>2 DEF Restored
  <2> QED BY <1>1, <2>1 DEF SessionFine, Merges
<1>3. CASE d # NoDraft
  <2> DEFINE t == Restored(s, d)
  <2>1. /\ t.phase = "loading" /\ t.epoch = d.epoch /\ t.doc = d.doc /\ t.vector = {}
        /\ t.view = s.view /\ t.viewEpoch = 0 /\ t.base = 0
        /\ t.viewRev = d.viewRev /\ t.pending = d.base /\ t.excl = d.excl
        /\ t.save = d.save /\ t.newer = d.newer /\ t.newExcl = d.newExcl
        /\ t.conflict = s.conflict /\ t.command = s.command
    BY <1>1, <1>3 DEF Restored, AnySession
  <2> HIDE DEF t
  <2>2. SessionBounds(row, rv, c, t)
    <3>1. rv \in Nat /\ d.epoch \in Nat
      BY RowFacts DEF AnyDraft
    <3> QED BY <2>1, <3>1 DEF SessionFine, SessionBounds, DraftFine, SaveFine
  <2>3. ASSUME Now(row, d.epoch)
        PROVE  SessionView(ed, row.state, c, t)
    <3>1. CopySerial(ed, row.state, c, d, d.base)
      BY <2>3 DEF DraftFine
    <3>2. New(ed, t) = New(ed, d)
      BY <2>1 DEF New
    <3>3. CopySerial(ed, row.state, c, t, t.pending)
      BY <2>1, <3>1, <3>2 DEF CopySerial
    <3>4. UpTo(ed, row.state, 0) = {}
      BY EditTypes DEF UpTo, RowFine, ServerOK, Settled
    <3> QED BY <2>1, <3>3, <3>4 DEF SessionView
  <2> QED BY <1>3, <2>1, <2>2, <2>3 DEF SessionFine, Merges, t
<1> QED BY <1>2, <1>3

LEMMA LoadStepFine ==
    ASSUME Inv, Inv', MergeInv, NEW c \in Clients, Load(c)
    PROVE  MergeInv'
<1> DEFINE s0 == tab[c]
           d == draft[c]
           a == call[c].answer
           s == Restored(s0, d)
           t == Received(s, a)
<1>1. /\ s0.phase = "loading" /\ call[c].kind = "info" /\ call[c].answered
      /\ UNCHANGED <<record, rev, stray, edit>>
  BY DEF Load, server
<1>2. /\ s0 \in AnySession /\ d \in AnyDraft
      /\ SessionOK(edit, c, s0) /\ DraftOK(edit, c, d) /\ CallOK(edit, call[c], s0, d)
      /\ SessionFine(edit, record, rev, c, s0) /\ DraftFine(edit, record, rev, c, d)
      /\ CallFine(edit, record, rev, c, call[c], s0, d)
      /\ EditsOK(edit) /\ ServerOK(edit, record, rev) /\ RowFine(edit, record, rev)
      /\ a \in AnyAnswer
  BY TabFacts, TabFineFacts DEF Inv, AnyCall
<1>3. /\ a.epoch # 0 /\ AnswerAhead(a, s0, d) /\ a.epoch <= record.last
      /\ a.rev # 0 /\ a.rev <= rev
      /\ Now(record, a.epoch) => UpTo(edit, record.state, a.rev) = a.state
  BY <1>1, <1>2 DEF CallFine, CallOK
<1>4. \/ d # NoDraft /\ Fail(c, s) /\ call' = [call EXCEPT ![c] = NoCall]
      \/ /\ s.save # NoSave /\ tab' = [tab EXCEPT ![c] = s] /\ Persist(c, s)
         /\ call' = [call EXCEPT ![c] = Sent("update")]
      \/ /\ call' = [call EXCEPT ![c] = NoCall]
         /\ \/ Conflicts(s, a, FALSE) /\ Fail(c, s)
            \/ /\ ~Conflicts(s, a, FALSE) /\ UNCHANGED draft
               /\ (d # NoDraft => s.epoch = a.epoch)
               /\ tab' = [tab EXCEPT ![c] = Loaded(t)]
  BY DEF Load, Become
<1> HIDE DEF s0, d, a
<1>5. /\ SessionFine(edit, record, rev, c, s) /\ Merges(edit, record, rev, c, s)
      /\ s.vector = {} /\ s.viewEpoch = 0 /\ s.base = 0 /\ s.phase = "loading"
      /\ \/ s = s0
         \/ /\ d # NoDraft /\ s.epoch = d.epoch /\ s.pending = d.base
            /\ s.excl = d.excl /\ s.viewRev = d.viewRev
  BY <1>1, <1>2, RestoredFine
<1>6. /\ s \in AnySession /\ SessionOK(edit, c, s) /\ (d # NoDraft => s.epoch # 0)
  BY <1>1, <1>2, RestoredOK
<1>7. Dirty(s) => s.epoch # 0
  BY <1>6 DEF SessionOK
<1> HIDE DEF s
<1>8. CASE Fail(c, s) /\ (d # NoDraft \/ Conflicts(s, a, FALSE))
           /\ call' = [call EXCEPT ![c] = NoCall]
  <2>1. s.epoch # 0
    BY <1>6, <1>7, <1>8 DEF Conflicts
  <2> QED BY <1>1, <1>5, <1>6, <1>8, <2>1, FineFailStep
<1>9. CASE /\ s.save # NoSave /\ tab' = [tab EXCEPT ![c] = s] /\ Persist(c, s)
           /\ call' = [call EXCEPT ![c] = Sent("update")]
  <2>1. s.epoch # 0
    BY <1>7, <1>9 DEF Dirty
  <2>2. draft'[c] = Stored(s) /\ \A x \in Clients \ {c} : draft'[x] = draft[x]
    BY <1>9, <2>1, PersistStores
  <2>3. DraftFine(edit, record, rev, c, draft'[c])
    BY <1>2, <1>5, <1>6, <2>2, StoredFine DEF Merges, SessionView
  <2> QED BY <1>1, <1>5, <1>9, <2>2, <2>3, UnansweredFine, FineLocalStep
<1>10. CASE /\ call' = [call EXCEPT ![c] = NoCall]
            /\ ~Conflicts(s, a, FALSE) /\ UNCHANGED draft
            /\ (d # NoDraft => s.epoch = a.epoch)
            /\ tab' = [tab EXCEPT ![c] = Loaded(t)]
  <2>1. s.epoch # 0 /\ s.epoch # a.epoch => ~Dirty(s)
    BY <1>10 DEF Conflicts
  <2>2. s.viewEpoch <= a.epoch /\ s.epoch <= a.epoch
    <3>1. a.epoch \in Nat
      BY <1>2 DEF AnyAnswer
    <3> QED BY <1>3, <1>5, <1>10, <3>1 DEF AnswerAhead
  <2>3. s.excl <= a.rev /\ s.pending <= a.rev /\ s.viewRev <= a.rev
    BY <1>3, <1>5 DEF AnswerAhead
  <2>4. /\ Merges(edit, record, rev, c, t)
        /\ t.base = a.rev /\ t.viewRev = s.viewRev /\ t.pending = s.pending
        /\ t.excl \in {0, s.excl} /\ t.phase = s.phase
    BY <1>2, <1>3, <1>5, <1>6, <2>1, <2>2, ReceivedFine
  <2>5. t \in AnySession /\ a.rev \in Nat
    BY <1>2, <1>6, ReceivedType DEF AnyAnswer
  <2>6. /\ t.base # 0 /\ t.excl <= t.base /\ t.pending <= t.base /\ t.viewRev <= t.base
        /\ t.phase = "loading"
    BY <1>3, <1>5, <2>3, <2>4, <2>5
  <2> HIDE DEF t
  <2>7. SessionFine(edit, record, rev, c, Loaded(t))
    BY <1>2, <2>4, <2>5, <2>6, LoadedFine
  <2>8. DraftFine(edit, record, rev, c, draft'[c])
    BY <1>2, <1>10 DEF d
  <2> QED BY <1>1, <1>10, <2>7, <2>8, UnansweredFine, FineLocalStep
<1> QED BY <1>4, <1>8, <1>9, <1>10

-----------------------------------------------------------------------------
(* The invariant holds.                                                      *)

LEMMA InitMergeInv == Init => MergeInv
<1> SUFFICES ASSUME Init PROVE MergeInv
  OBVIOUS
<1>1. ServerOK(edit, record, rev) /\ record.last \in Nat /\ rev \in Nat
  BY InitInv, RowFacts DEF Inv
<1>2. RowFine(edit, record, rev)
  <2>1. /\ record.epoch = 0 /\ record.last = 0 /\ record.state = {}
        /\ record.receipts = <<>> /\ DOMAIN edit = {}
    BY DEF Init
  <2>2. record.receipts \in Seq(ReceiptsFine(edit, record.state, rev))
    BY <2>1, EmptySeq
  <2> QED BY <2>1, <2>2 DEF RowFine
<1>3. \A c \in Clients : tab[c] = Closed /\ draft[c] = NoDraft /\ call[c] = NoCall
  BY DEF Init
<1>4. \A c \in Clients : TabFine(edit, record, rev, c, Closed, NoDraft, NoCall)
  BY <1>1, ClosedFine, NoDraftFine, UnansweredFine DEF TabFine
<1>5. stray = {}
  BY DEF Init
<1> QED BY <1>2, <1>3, <1>4, <1>5 DEF MergeInv

LEMMA NextMergeInv == Inv /\ Inv' /\ MergeInv /\ OpensOK /\ [Next]_vars => MergeInv'
<1> SUFFICES ASSUME Inv, Inv', MergeInv, opens \in Nat, [Next]_vars
             PROVE  MergeInv'
  BY DEF OpensOK
<1>1. ASSUME NEW c \in Clients, NEW exclusive \in BOOLEAN,
             Edit(c, exclusive) \/ Track(c, exclusive)
      PROVE  MergeInv'
  BY <1>1, EditStepFine, TrackStepFine
<1>2. ASSUME NEW c \in Clients, Capture(c) \/ Display(c) \/ Save(c) \/ Ask(c) \/ Open(c)
      PROVE  MergeInv'
  BY <1>2, CaptureStepFine, DisplayStepFine, SaveStepFine, AskStepFine, OpenStepFine
<1>3. ASSUME NEW c \in Clients, Close(c) \/ Discard(c) \/ Lose(c) \/ Update(c) \/ Info(c)
      PROVE  MergeInv'
  BY <1>3, CloseStepFine, DiscardStepFine, LoseStepFine, UpdateStepFine, InfoStepFine
<1>4. ASSUME NEW c \in Clients, Acknowledge(c) \/ Refresh(c) \/ Load(c)
      PROVE  MergeInv'
  BY <1>4, AcknowledgeStepFine, RefreshStepFine, LoadStepFine
<1>5. ASSUME NEW q \in stray, UpdateStray(q)
      PROVE  MergeInv'
  BY <1>5, UpdateStrayStepFine
<1>6. ASSUME NEW replaces \in BOOLEAN, Outside(replaces)
      PROVE  MergeInv'
  BY <1>6, OutsideStepFine
<1>7. CASE UNCHANGED vars
  BY <1>7 DEF vars, MergeInv
<1> QED BY <1>1, <1>2, <1>3, <1>4, <1>5, <1>6, <1>7 DEF Next

LEMMA MergeInvariant == Spec => []MergeInv
<1> QED BY InitMergeInv, NextMergeInv, Invariant, OpensType, PTL DEF Spec

-----------------------------------------------------------------------------
(* The results.                                                              *)

\* With commands captured as they are made: the guards of tableCollaborativeUpdater never
\* let an exclusive edit be merged with another edit unless one was made in view of the
\* other, or one of them in a view that was already replaced.
THEOREM ExclusiveEditsAreSerial ==
    ASSUME "capture" \notin Gaps
    PROVE  Spec => []ExclusiveIsSerial
<1>1. MergeInv /\ Inv => ExclusiveIsSerial
  <2> SUFFICES ASSUME MergeInv, Inv, NEW x \in Current, NEW e \in Current,
                      x # e, edit[x].exclusive
               PROVE  x \in edit[e].view \/ e \in edit[x].view
    BY DEF ExclusiveIsSerial
  <2>1. Here(edit, x) /\ Here(edit, e) /\ x \in record.state /\ e \in record.state
    BY DEF Inv, ServerOK, Held, Current, Here
  <2>2. Seen(edit, x, e)
    BY <2>1 DEF MergeInv, RowFine, Excl
  <2> QED BY <2>1, <2>2 DEF Seen
<1> QED BY <1>1, MergeInvariant, Invariant, PTL

\* Even if commands wait for their capture, or are made in a view that was replaced: what a
\* session takes for the revision of its view is one whose every edit is displayed.
THEOREM ViewsAreHonest == Spec => []ViewIsAtItsRevision
<1>1. MergeInv /\ Inv => ViewIsAtItsRevision
  <2> SUFFICES ASSUME MergeInv, Inv, NEW c \in Clients, Working(c),
                      tab[c].viewEpoch = record.epoch, record.epoch # 0,
                      NEW e \in record.state, edit[e].at <= tab[c].viewRev
               PROVE  e \in tab[c].view
    BY DEF ViewIsAtItsRevision
  <2>1. /\ SessionFine(edit, record, rev, c, tab[c]) /\ RowFine(edit, record, rev)
        /\ tab[c] \in AnySession /\ ServerOK(edit, record, rev)
    BY TabFacts, TabFineFacts DEF Inv
  <2>2. tab[c].epoch = record.epoch
    <3>1. /\ tab[c].viewEpoch <= tab[c].epoch /\ tab[c].epoch <= record.last
          /\ record.epoch \in {0, record.last}
      BY <2>1 DEF SessionFine, SessionBounds, RowFine
    <3>2. tab[c].epoch \in Nat /\ record.last \in Nat
      BY <2>1, RowFacts DEF AnySession
    <3> QED BY <3>1, <3>2
  <2>3. ViewOK(edit, record.state, c, tab[c])
    BY <2>1, <2>2 DEF SessionFine, SessionView, Now, Working
  <2> QED BY <2>3 DEF ViewOK, UpTo
<1> QED BY <1>1, MergeInvariant, Invariant, PTL

-----------------------------------------------------------------------------
(* A tab that is alone with its workbook.  The inductive invariant, of a state *)
(* passed as arguments: n is the last edit, row, rv and late stand for record, *)
(* rev and stray, s, d and k for the session, the draft and the call of the    *)
(* tab.  v is the revision that the tab has been told of: the present one, or  *)
(* the one before the commit of its request while that is not acknowledged.    *)

Alone(c) == outside = 0 /\ \A e \in DOMAIN edit : edit[e].by = c

ReceiptsIn(row, q) == {r \in ToSet(row.receipts) : r.request = q}

\* What was captured since the request was built includes the last edit.
Fresh(n, row, s) == s.newer => n \in s.doc /\ n \notin row.state /\ n \notin s.save.update

SoloSession(n, row, s, d, v) ==
    /\ ~s.conflict
    /\ s.epoch \in {0, row.epoch}
    /\ s.save \in {NoSave, d.save}
    /\ s.phase = "open" => s.save = d.save /\ s.base = v
    /\ Active(s) => s.viewRev = v /\ PendingOrBase(s) = v
    /\ ~Active(s) => ~s.newer /\ s.excl = 0 /\ s.pending = 0
    /\ s.excl \in {0, v}
    /\ s.vector \subseteq row.state
    /\ Fresh(n, row, s)

SoloDraft(n, row, d, v) ==
    d # NoDraft =>
        /\ d.epoch = row.epoch
        /\ d.base = v /\ d.viewRev = v /\ d.excl \in {0, v}
        /\ Fresh(n, row, d)

\* The request q in the draft is the only one there is, and its commit the last one.
SoloRequest(row, rv, late, q, v) ==
    /\ q # NoSave => q.epoch = row.epoch /\ q.base = v /\ q.excl \in {0, v}
    /\ ReceiptsIn(row, q) = {} => v = rv
    /\ \A r \in ReceiptsIn(row, q) : r.previous = v /\ r.revision = rv
    /\ \A x \in late : x = q /\ x # NoSave

SoloServer(row, rv) ==
    /\ row.barrier <= rv
    /\ row.epoch = 0 => row.state = {}
    /\ \A r \in ToSet(row.receipts) :
          r.request # NoSave /\ r.request.update \subseteq row.state

\* An answer tells the present state, except one to load() that a late request overtook.
SoloCall(row, rv, late, k, s, q, v) ==
    LET a == k.answer
    IN  /\ k.kind = "info" /\ s.phase = "open" => s.save = NoSave
        /\ k.kind # "none" /\ k.answered =>
              /\ a.epoch = row.epoch
              /\ a.state \subseteq row.state
              /\ k.kind = "update" \/ q = NoSave => a.rev = rv /\ a.barrier = row.barrier
        /\ k.kind = "update" /\ k.answered =>
              /\ a.ok /\ a.previous = v /\ a.acked = rv
              /\ late = {} /\ ReceiptsIn(row, q) # {}

SoloTab(n, row, rv, late, s, d, k, v) ==
    /\ SoloSession(n, row, s, d, v) /\ SoloDraft(n, row, d, v)
    /\ SoloRequest(row, rv, late, d.save, v) /\ SoloCall(row, rv, late, k, s, d.save, v)

\* Another tab has nothing to send.
Silent(s, d, k) == ~Dirty(s) /\ d = NoDraft /\ k.kind # "update"

Solo(c, v) ==
    /\ SoloTab(Len(edit), record, rev, stray, tab[c], draft[c], call[c], v)
    /\ SoloServer(record, rev)
    /\ \A x \in Clients \ {c} : Silent(tab[x], draft[x], call[x])

SoloInv ==
    /\ outside \in Nat
    /\ \A c \in Clients : Alone(c) => \E v \in Nat \ {0} : Solo(c, v)

-----------------------------------------------------------------------------
(* Steps.                                                                    *)

LEMMA EditFacts ==
    ASSUME Inv
    PROVE  Len(edit) \in Nat /\ DOMAIN edit = 1..Len(edit)
<1>1. edit \in Seq(AnyEdit)
  BY DEF Inv, EditsOK
<1> QED
  BY <1>1, LenProperties

LEMMA SameLength ==
    ASSUME Inv, Inv', DOMAIN edit' = DOMAIN edit
    PROVE  Len(edit') = Len(edit)
<1>1. edit \in Seq(AnyEdit) /\ edit' \in Seq(AnyEdit)
  BY DEF Inv, EditsOK
<1>2. /\ Len(edit) \in Nat /\ DOMAIN edit = 1..Len(edit)
      /\ Len(edit') \in Nat /\ DOMAIN edit' = 1..Len(edit')
  BY <1>1, LenProperties
<1> QED
  BY <1>2

\* A step of the tab, or of the server with it.
LEMMA SoloStep ==
    ASSUME NEW c \in Clients, NEW v, Solo(c, v), NEW w,
           \A x \in Clients \ {c} : /\ tab'[x] = tab[x] /\ draft'[x] = draft[x]
                                    /\ call'[x] = call[x],
           SoloTab(Len(edit'), record', rev', stray', tab'[c], draft'[c], call'[c], w),
           SoloServer(record', rev')
    PROVE  Solo(c, w)'
BY DEF Solo

\* A step of another tab, which touches nothing of this one.
LEMMA SilentStep ==
    ASSUME NEW c \in Clients, NEW v, Solo(c, v), NEW y \in Clients \ {c},
           UNCHANGED <<record, rev, stray>>, Len(edit') = Len(edit),
           \A x \in Clients \ {y} : /\ tab'[x] = tab[x] /\ draft'[x] = draft[x]
                                    /\ call'[x] = call[x],
           Silent(tab'[y], draft'[y], call'[y])
    PROVE  Solo(c, v)'
BY DEF Solo

\* What the draft stores of a session.
LEMMA StoredSolo ==
    ASSUME NEW n, NEW row, NEW s \in AnySession, NEW d, NEW v,
           SoloSession(n, row, s, d, v), Active(s), s.epoch = row.epoch
    PROVE  SoloDraft(n, row, Stored(s), v) /\ Stored(s).save = s.save
<1>1. CASE ~Dirty(s) /\ ~s.conflict
  BY <1>1, NoDraftType DEF Stored, Dirty, SoloDraft
<1>2. CASE Dirty(s) \/ s.conflict
  <2>1. /\ Stored(s).epoch = s.epoch /\ Stored(s).doc = s.doc
        /\ Stored(s).base = PendingOrBase(s) /\ Stored(s).excl = s.excl
        /\ Stored(s).viewRev = s.viewRev /\ Stored(s).newer = s.newer
        /\ Stored(s).save = s.save
    BY <1>2 DEF Stored
  <2> QED
    BY <2>1 DEF SoloSession, SoloDraft, Fresh
<1> QED
  BY <1>1, <1>2

\* What is known of a tab that is open, or has a request.
LEMMA ActiveTab ==
    ASSUME Inv, NEW c \in Clients, NEW v, Solo(c, v), Active(tab[c])
    PROVE  /\ tab[c] \in AnySession /\ tab[c].epoch # 0 /\ tab[c].epoch = record.epoch
           /\ tab[c].save = draft[c].save
           /\ tab[c].viewRev = v /\ PendingOrBase(tab[c]) = v /\ tab[c].excl \in {0, v}
<1>1. tab[c] \in AnySession /\ tab[c].epoch # 0
  BY TabFacts DEF SessionOK, Active, Dirty
<1> QED
  BY <1>1 DEF Solo, SoloTab, SoloSession, Active

\* What a tab gives up is the request in its draft.
LEMMA AbandonedSave ==
    ASSUME Inv, NEW c \in Clients, Abandon(c) \/ UNCHANGED stray
    PROVE  \A x \in stray' : x \in stray \/ (x = draft[c].save /\ x # NoSave)
<1>1. CallOK(edit, call[c], tab[c], draft[c])
  BY TabFacts
<1>2. call[c].kind = "update" => tab[c].save # NoSave /\ draft[c].save = tab[c].save
  BY <1>1 DEF CallOK
<1>3. \/ stray' = stray
      \/ call[c].kind = "update" /\ stray' = stray \cup {tab[c].save}
  BY DEF Abandon
<1> QED
  BY <1>2, <1>3

\* The session is written to the draft: the request stays what it is.
LEMMA SoloStored ==
    ASSUME Inv, NEW c \in Clients, NEW v, Solo(c, v),
           NEW s \in AnySession, SoloSession(Len(edit'), record, s, s, v), Active(s),
           s.epoch = record.epoch, s.epoch # 0, s.save = draft[c].save,
           UNCHANGED <<record, rev>>,
           tab' = [tab EXCEPT ![c] = s], Persist(c, s), Abandon(c) \/ UNCHANGED stray,
           \A x \in Clients \ {c} : call'[x] = call[x],
           SoloCall(record, rev, stray', call'[c], s, s.save, v)
    PROVE  Solo(c, v)'
<1>1. draft'[c] = Stored(s) /\ \A x \in Clients \ {c} : draft'[x] = draft[x]
  BY PersistStores
<1>2. tab'[c] = s /\ \A x \in Clients \ {c} : tab'[x] = tab[x]
  BY DEF Inv
<1>3. SoloDraft(Len(edit'), record, Stored(s), v) /\ Stored(s).save = s.save
  BY StoredSolo
<1>4. SoloSession(Len(edit'), record, s, Stored(s), v)
  BY <1>3 DEF SoloSession
<1>5. \A x \in stray' : x \in stray \/ (x = draft[c].save /\ x # NoSave)
  BY AbandonedSave
<1>6. SoloRequest(record, rev, stray', s.save, v)
  BY <1>5 DEF Solo, SoloTab, SoloRequest
<1>7. SoloTab(Len(edit'), record, rev, stray', s, Stored(s), call'[c], v)
  BY <1>3, <1>4, <1>6 DEF SoloTab
<1>8. SoloServer(record', rev')
  BY DEF Solo
<1> QED
  BY <1>1, <1>2, <1>7, <1>8, SoloStep

\* A step that neither stores anything nor concerns the server.
LEMMA SoloLocal ==
    ASSUME Inv, NEW c \in Clients, NEW v, Solo(c, v), NEW s, NEW k,
           SoloSession(Len(edit), record, s, draft[c], v),
           UNCHANGED <<record, rev, draft, edit>>, Abandon(c) \/ UNCHANGED stray,
           tab' = [tab EXCEPT ![c] = s], call' = [call EXCEPT ![c] = k],
           SoloCall(record, rev, stray', k, s, draft[c].save, v)
    PROVE  Solo(c, v)'
<1>1. /\ tab'[c] = s /\ call'[c] = k
      /\ \A x \in Clients \ {c} : tab'[x] = tab[x] /\ call'[x] = call[x]
  BY DEF Inv
<1>2. \A x \in stray' : x \in stray \/ (x = draft[c].save /\ x # NoSave)
  BY AbandonedSave
<1>3. SoloTab(Len(edit'), record, rev, stray', s, draft[c], k, v)
  BY <1>2 DEF Solo, SoloTab, SoloRequest
<1> QED
  BY <1>1, <1>3, SoloStep DEF Solo

LEMMA NothingAnswered ==
    ASSUME NEW row, NEW rv, NEW late, NEW s, NEW q, NEW v
    PROVE  /\ SoloCall(row, rv, late, NoCall, s, q, v)
           /\ SoloCall(row, rv, late, Sent("update"), s, q, v)
           /\ s.phase = "loading" \/ s.save = NoSave
                 => SoloCall(row, rv, late, Sent("info"), s, q, v)
BY DEF SoloCall, NoCall, Sent, NoAnswer

\* Another session under the same call.
LEMMA CallKept ==
    ASSUME NEW row, NEW rv, NEW late, NEW k, NEW s, NEW q, NEW v,
           SoloCall(row, rv, late, k, s, q, v), NEW t, t.phase = s.phase, t.save = s.save
    PROVE  SoloCall(row, rv, late, k, t, q, v)
BY DEF SoloCall

\* An exclusive command notes the revision of the view.
LEMMA TrackedSolo ==
    ASSUME NEW n, NEW row, NEW s \in AnySession, NEW d, NEW v, NEW exclusive \in BOOLEAN,
           SoloSession(n, row, s, d, v), s.phase = "open"
    PROVE  SoloSession(n, row, Tracked(s, exclusive), d, v)
<1> DEFINE t == Tracked(s, exclusive)
<1>1. /\ t.phase = s.phase /\ t.save = s.save /\ t.epoch = s.epoch /\ t.doc = s.doc
      /\ t.vector = s.vector /\ t.newer = s.newer /\ t.conflict = s.conflict
      /\ t.base = s.base /\ t.pending = s.pending /\ t.viewRev = s.viewRev
      /\ t.excl = s.excl \/ t.excl = s.viewRev
  BY DEF Tracked, AnySession
<1> HIDE DEF t
<1>2. s.viewRev = v
  BY DEF SoloSession, Active
<1>3. SoloSession(n, row, t, d, v)
  BY <1>1, <1>2 DEF SoloSession, Active, PendingOrBase, Fresh
<1> QED
  BY <1>3 DEF t

LEMMA CaptureAsSolo ==
    ASSUME Inv, Inv', NEW c \in Clients, NEW v \in Nat \ {0}, Solo(c, v),
           NEW s \in AnySession, SoloSession(Len(edit), record, s, draft[c], v),
           s.phase = "open", s.save = tab[c].save, tab[c].phase = "open",
           SessionOK(edit, c, s),
           NEW exclusive \in BOOLEAN, CaptureAs(c, s, exclusive)
    PROVE  Solo(c, v)'
<1> DEFINE e == Len(edit) + 1
           t == Captured(s, e)
<1>0. Len(edit) \in Nat /\ DOMAIN edit = 1..Len(edit)
  BY EditFacts
<1>1. /\ tab' = [tab EXCEPT ![c] = t] /\ Persist(c, t)
      /\ UNCHANGED <<record, rev, call, stray>> /\ Len(edit') = e
  <2>1. edit \in Seq(AnyEdit)
    BY DEF Inv, EditsOK
  <2>2. Len(edit') = e
    BY <2>1 DEF CaptureAs
  <2> QED
    BY <2>2 DEF CaptureAs, Become, server
<1>2. /\ t \in AnySession /\ t.doc = s.doc \cup {e} /\ t.newer = TRUE
      /\ t.epoch = s.epoch /\ t.vector = s.vector /\ t.save = s.save /\ t.phase = s.phase
  <2>1. e \in Nat
    BY <1>0
  <2> HIDE DEF e
  <2> QED
    BY <2>1, CapturedType
<1>3. /\ t.conflict = s.conflict /\ t.base = s.base /\ t.viewRev = s.viewRev
      /\ t.excl = s.excl /\ t.pending = IF s.pending = 0 THEN s.viewRev ELSE s.pending
  <2> HIDE DEF e
  <2> QED
    BY DEF Captured, AnySession
<1>4. e \notin record.state /\ e \notin s.save.update
  <2>1. \A x \in record.state \cup s.save.update : x \in DOMAIN edit
    BY DEF Inv, ServerOK, Settled, SessionOK, Held
  <2> QED
    BY <1>0, <2>1
<1> HIDE DEF t, e
<1>5. s.viewRev = v /\ PendingOrBase(s) = v /\ s.epoch = record.epoch /\ s.epoch # 0
  BY DEF SoloSession, Active, SessionOK
<1>6. SoloSession(e, record, t, t, v)
  BY <1>2, <1>3, <1>4, <1>5 DEF SoloSession, Active, PendingOrBase, Fresh
<1>7. s.save = draft[c].save
  BY DEF SoloSession
<1>8. SoloCall(record, rev, stray', call'[c], t, t.save, v)
  BY <1>1, <1>2, <1>7, CallKept DEF Solo, SoloTab
<1> QED
  BY <1>1, <1>2, <1>5, <1>6, <1>7, <1>8, SoloStored DEF Active

LEMMA EditSolo ==
    ASSUME Inv, Inv', NEW c \in Clients, NEW v \in Nat \ {0}, Solo(c, v),
           NEW exclusive \in BOOLEAN, Edit(c, exclusive)
    PROVE  Solo(c, v)'
<1> DEFINE s == Tracked(tab[c], exclusive)
<1>1. tab[c] \in AnySession /\ SessionOK(edit, c, tab[c]) /\ tab[c].phase = "open"
  BY TabFacts DEF Edit, Working
<1>2. SoloSession(Len(edit), record, s, draft[c], v)
  BY <1>1, TrackedSolo DEF Solo, SoloTab
<1>3. s \in AnySession /\ Kept(tab[c], s) /\ s.phase = tab[c].phase
  BY <1>1, TrackedKeeps
<1>4. CaptureAs(c, s, exclusive)
  BY DEF Edit
<1> HIDE DEF s
<1>5. SessionOK(edit, c, s) /\ s.save = tab[c].save
  BY <1>1, <1>3, KeepsOK DEF Kept
<1> QED
  BY <1>1, <1>2, <1>3, <1>4, <1>5, CaptureAsSolo

LEMMA CaptureSolo ==
    ASSUME Inv, Inv', NEW c \in Clients, NEW v \in Nat \ {0}, Solo(c, v), Capture(c)
    PROVE  Solo(c, v)'
<1>1. tab[c] \in AnySession /\ SessionOK(edit, c, tab[c]) /\ tab[c].phase = "open"
  BY TabFacts DEF Capture, Working
<1> QED
  BY <1>1, CaptureAsSolo DEF Capture, Solo, SoloTab

LEMMA TrackSolo ==
    ASSUME Inv, NEW c \in Clients, NEW v \in Nat \ {0}, Solo(c, v),
           NEW exclusive \in BOOLEAN, Track(c, exclusive)
    PROVE  Solo(c, v)'
<1> DEFINE s == Tracked(tab[c], exclusive)
           t == [s EXCEPT !.command = IF exclusive THEN "exclusive" ELSE "plain"]
<1>1. tab[c] \in AnySession /\ tab[c].phase = "open"
  BY TabFacts DEF Track, Working
<1>2. SoloSession(Len(edit), record, s, draft[c], v)
  BY <1>1, TrackedSolo DEF Solo, SoloTab
<1>3. s \in AnySession /\ Kept(tab[c], s) /\ s.phase = tab[c].phase
  BY <1>1, TrackedKeeps
<1>4. /\ tab' = [tab EXCEPT ![c] = t]
      /\ UNCHANGED <<record, rev, draft, call, stray, edit>>
  BY DEF Track, Become, server
<1> HIDE DEF s
<1>5. /\ t.phase = s.phase /\ t.save = s.save /\ t.epoch = s.epoch /\ t.doc = s.doc
      /\ t.vector = s.vector /\ t.newer = s.newer /\ t.conflict = s.conflict
      /\ t.base = s.base /\ t.pending = s.pending /\ t.viewRev = s.viewRev
      /\ t.excl = s.excl
  BY <1>3 DEF AnySession
<1> HIDE DEF t
<1>6. SoloSession(Len(edit), record, t, draft[c], v)
  BY <1>2, <1>5 DEF SoloSession, Active, PendingOrBase, Fresh
<1>7. SoloCall(record, rev, stray', call[c], t, draft[c].save, v)
  BY <1>3, <1>4, <1>5, CallKept DEF Solo, SoloTab, Kept
<1>8. call' = [call EXCEPT ![c] = call[c]]
  BY <1>4 DEF Inv
<1> QED
  BY <1>4, <1>6, <1>7, <1>8, SoloLocal

LEMMA DisplaySolo ==
    ASSUME Inv, NEW c \in Clients, NEW v \in Nat \ {0}, Solo(c, v), Display(c)
    PROVE  Solo(c, v)'
<1> DEFINE s == tab[c]
           t == Initialized(s)
<1>1. s \in AnySession /\ s.phase = "open" /\ s.base = v
  BY TabFacts DEF Display, Working, Solo, SoloTab, SoloSession
<1>2. /\ tab' = [tab EXCEPT ![c] = t]
      /\ UNCHANGED <<record, rev, draft, call, stray, edit>>
  BY DEF Display, Become, server
<1>3. /\ t.phase = s.phase /\ t.save = s.save /\ t.epoch = s.epoch /\ t.doc = s.doc
      /\ t.vector = s.vector /\ t.newer = s.newer /\ t.conflict = s.conflict
      /\ t.base = s.base /\ t.pending = s.pending /\ t.viewRev = s.base
      /\ t.excl = s.excl
  BY <1>1 DEF Initialized, AnySession
<1> HIDE DEF t
<1>4. SoloSession(Len(edit), record, t, draft[c], v)
  BY <1>1, <1>3 DEF Solo, SoloTab, SoloSession, Active, PendingOrBase, Fresh
<1>5. SoloCall(record, rev, stray', call[c], t, draft[c].save, v)
  BY <1>2, <1>3, CallKept DEF Solo, SoloTab
<1>6. call' = [call EXCEPT ![c] = call[c]]
  BY <1>2 DEF Inv
<1> QED
  BY <1>2, <1>4, <1>5, <1>6, SoloLocal

\* A new request has an edit which no receipt is about.
LEMMA SaveSolo ==
    ASSUME Inv, NEW c \in Clients, NEW v \in Nat \ {0}, Solo(c, v), Save(c)
    PROVE  Solo(c, v)'
<1> DEFINE s == tab[c]
           d == draft[c]
           n == Len(edit)
           t == Saving(c, s)
<1>1. s.phase = "open" /\ Dirty(s)
  BY DEF Save, Working
<1>2. /\ s \in AnySession /\ s.epoch # 0 /\ s.epoch = record.epoch /\ s.save = d.save
      /\ s.viewRev = v /\ PendingOrBase(s) = v /\ s.excl \in {0, v}
  BY <1>1, ActiveTab DEF Active
<1>3. SoloSession(n, record, s, d, v) /\ SoloRequest(record, rev, stray, d.save, v)
  BY DEF Solo, SoloTab
<1>4. /\ tab' = [tab EXCEPT ![c] = t] /\ Persist(c, t)
      /\ call' = [call EXCEPT ![c] = Sent("update")]
      /\ UNCHANGED <<record, rev, stray, edit>>
  BY DEF Save, Become, server
<1>5. call'[c] = Sent("update") /\ \A x \in Clients \ {c} : call'[x] = call[x]
  BY <1>4 DEF Inv
<1>6. CASE s.save # NoSave
  <2>1. t = s
    BY <1>6 DEF Saving
  <2>2. SoloSession(n, record, s, s, v)
    BY <1>3 DEF SoloSession
  <2>3. Active(s)
    BY <1>1 DEF Active
  <2>4. SoloCall(record, rev, stray', call'[c], s, s.save, v)
    BY <1>5, NothingAnswered
  <2> QED
    BY <1>2, <1>4, <1>5, <2>1, <2>2, <2>3, <2>4, SoloStored
<1>7. CASE s.save = NoSave
  <2> DEFINE q == [client |-> <<c, s.id>>, epoch |-> s.epoch, update |-> s.doc \ s.vector,
                   base |-> PendingOrBase(s), excl |-> s.excl]
  <2>1. t = [s EXCEPT !.save = q, !.newer = FALSE, !.newExcl = FALSE]
    BY <1>7 DEF Saving
  <2>2. q.epoch = record.epoch /\ q.base = v /\ q.excl \in {0, v} /\ n \in q.update
    <3>1. n \in s.doc /\ n \notin record.state /\ s.vector \subseteq record.state
      BY <1>1, <1>3, <1>7 DEF Dirty, SoloSession, Fresh
    <3> QED
      BY <1>2, <3>1
  <2> HIDE DEF q
  <2>3. /\ t.save = q /\ t.newer = FALSE /\ t.phase = s.phase /\ t.epoch = s.epoch
        /\ t.base = s.base /\ t.viewRev = s.viewRev /\ t.pending = s.pending
        /\ t.excl = s.excl /\ t.conflict = s.conflict /\ t.vector = s.vector
    BY <1>2, <2>1 DEF AnySession
  <2>4. t \in AnySession /\ q # NoSave
    BY <1>2, <1>7, <2>3, SavingType
  <2>5. SoloSession(n, record, t, t, v)
    BY <1>1, <1>2, <1>3, <2>3 DEF SoloSession, Active, PendingOrBase, Fresh
  <2>6. ReceiptsIn(record, NoSave) = {} /\ ReceiptsIn(record, q) = {}
    <3>1. n \notin record.state
      BY <1>1, <1>3, <1>7 DEF Dirty, SoloSession, Fresh
    <3> QED
      BY <2>2, <3>1 DEF Solo, SoloServer, ReceiptsIn
  <2>7. v = rev /\ stray = {}
    BY <1>2, <1>3, <1>7, <2>6 DEF SoloRequest
  <2>8. SoloRequest(record, rev, stray', q, v)
    BY <1>4, <2>2, <2>6, <2>7 DEF SoloRequest
  <2>9. draft'[c] = Stored(t) /\ \A x \in Clients \ {c} : draft'[x] = draft[x]
    BY <1>2, <1>4, <2>3, PersistStores
  <2>10. SoloDraft(n, record, Stored(t), v) /\ Stored(t).save = q
    BY <1>1, <1>2, <2>3, <2>4, <2>5, StoredSolo DEF Active
  <2>11. SoloSession(n, record, t, Stored(t), v)
    BY <2>3, <2>5, <2>10 DEF SoloSession
  <2>12. tab'[c] = t /\ \A x \in Clients \ {c} : tab'[x] = tab[x]
    BY <1>4 DEF Inv
  <2> HIDE DEF t
  <2>13. SoloTab(Len(edit'), record', rev', stray', tab'[c], draft'[c], call'[c], v)
    BY <1>4, <1>5, <2>8, <2>9, <2>10, <2>11, <2>12, NothingAnswered DEF SoloTab
  <2>14. SoloServer(record', rev')
    BY <1>4 DEF Solo
  <2> QED
    BY <1>5, <2>9, <2>12, <2>13, <2>14, SoloStep
<1> QED
  BY <1>6, <1>7

LEMMA AskSolo ==
    ASSUME Inv, NEW c \in Clients, NEW v \in Nat \ {0}, Solo(c, v), Ask(c)
    PROVE  Solo(c, v)'
<1>1. /\ tab[c].phase = "loading" \/ tab[c].save = NoSave
      /\ call' = [call EXCEPT ![c] = Sent("info")]
      /\ UNCHANGED <<record, rev, tab, draft, stray, edit>>
  BY DEF Ask, server
<1>2. tab' = [tab EXCEPT ![c] = tab[c]]
  BY <1>1 DEF Inv
<1>3. SoloSession(Len(edit), record, tab[c], draft[c], v)
  BY DEF Solo, SoloTab
<1>4. SoloCall(record, rev, stray', Sent("info"), tab[c], draft[c].save, v)
  BY <1>1, NothingAnswered
<1> QED
  BY <1>1, <1>2, <1>3, <1>4, SoloLocal

LEMMA ClosedSolo ==
    ASSUME NEW n, NEW row, NEW d, NEW v,
           NEW t, t.phase # "open", t.epoch = 0, t.save = NoSave, t.newer = FALSE,
           t.conflict = FALSE, t.excl = 0, t.pending = 0, t.vector = {}
    PROVE  SoloSession(n, row, t, d, v)
BY DEF SoloSession, Active, Fresh

LEMMA OpenSolo ==
    ASSUME Inv, NEW c \in Clients, NEW v \in Nat \ {0}, Solo(c, v), Open(c)
    PROVE  Solo(c, v)'
<1> DEFINE t == [Closed EXCEPT !.phase = "loading", !.id = opens']
<1>1. /\ tab' = [tab EXCEPT ![c] = t] /\ tab[c].phase = "closed"
      /\ UNCHANGED <<record, rev, draft, call, stray, edit>>
  BY DEF Open, Become, server
<1>2. call[c] = NoCall /\ call' = [call EXCEPT ![c] = NoCall]
  <2>1. call[c] = NoCall
    BY <1>1, TabFacts DEF CallOK
  <2> QED
    BY <1>1, <2>1 DEF Inv
<1>3. SoloSession(Len(edit), record, t, draft[c], v)
  BY ClosedSolo DEF Closed
<1>4. SoloCall(record, rev, stray', NoCall, t, draft[c].save, v)
  BY NothingAnswered
<1> QED
  BY <1>1, <1>2, <1>3, <1>4, SoloLocal

LEMMA CloseSolo ==
    ASSUME Inv, NEW c \in Clients, NEW v \in Nat \ {0}, Solo(c, v), Close(c)
    PROVE  Solo(c, v)'
<1>1. /\ tab' = [tab EXCEPT ![c] = Closed] /\ call' = [call EXCEPT ![c] = NoCall]
      /\ UNCHANGED <<record, rev, draft, edit>> /\ Abandon(c)
  BY DEF Close, Become, server
<1>2. SoloSession(Len(edit), record, Closed, draft[c], v)
  BY ClosedSolo DEF Closed
<1>3. SoloCall(record, rev, stray', NoCall, Closed, draft[c].save, v)
  BY NothingAnswered
<1> QED
  BY <1>1, <1>2, <1>3, SoloLocal

LEMMA LoseSolo ==
    ASSUME Inv, NEW c \in Clients, NEW v \in Nat \ {0}, Solo(c, v), Lose(c)
    PROVE  Solo(c, v)'
<1> DEFINE s == tab[c]
<1>1. /\ call' = [call EXCEPT ![c] = NoCall] /\ UNCHANGED <<record, rev, tab, edit>>
      /\ Abandon(c)
      /\ IF call[c].kind = "update" THEN Persist(c, s) ELSE UNCHANGED draft
  BY DEF Lose, server
<1>2. /\ call'[c] = NoCall /\ \A x \in Clients \ {c} : call'[x] = call[x]
      /\ tab' = [tab EXCEPT ![c] = s]
  BY <1>1 DEF Inv
<1>3. SoloSession(Len(edit), record, s, draft[c], v)
  BY DEF Solo, SoloTab
<1>4. CASE call[c].kind = "update"
  <2>1. s.save # NoSave
    BY <1>4, TabFacts DEF CallOK
  <2>2. s \in AnySession /\ s.epoch # 0 /\ s.epoch = record.epoch /\ s.save = draft[c].save
    BY <2>1, ActiveTab DEF Active
  <2>3. SoloSession(Len(edit'), record, s, s, v)
    BY <1>1, <1>3 DEF SoloSession
  <2>4. Persist(c, s)
    BY <1>1, <1>4
  <2>5. Active(s)
    BY <2>1 DEF Active
  <2>6. SoloCall(record, rev, stray', call'[c], s, s.save, v)
    BY <1>2, NothingAnswered
  <2> QED
    BY <1>1, <1>2, <2>2, <2>3, <2>4, <2>5, <2>6, SoloStored
<1>5. CASE call[c].kind # "update"
  BY <1>1, <1>2, <1>3, <1>5, NothingAnswered, SoloLocal
<1> QED
  BY <1>4, <1>5

\* Reading the workbook makes the row at most once.
LEMMA InfoSolo ==
    ASSUME Inv, NEW c \in Clients, NEW v \in Nat \ {0}, Solo(c, v), NEW y \in Clients, Info(y)
    PROVE  Solo(c, v)'
<1> DEFINE s == tab[c]
           d == draft[c]
           k == call'[c]
           n == Len(edit)
           a == Answer(0, 0)
<1>1. /\ UNCHANGED <<rev, tab, draft, stray, edit>>
      /\ call' = [call EXCEPT ![y].answered = TRUE, ![y].answer = a]
      /\ call[y].kind = "info"
      /\ record' = IF record.epoch # 0 THEN record
                   ELSE [epoch |-> record.last + 1, state |-> {}, barrier |-> 0,
                         receipts |-> <<>>, last |-> record.last + 1]
  BY DEF Info
<1>2. /\ call'[y].kind = "info" /\ call'[y].answered = TRUE /\ call'[y].answer = a
      /\ \A x \in Clients \ {y} : call'[x] = call[x]
  BY <1>1 DEF Inv, AnyCall
<1>3. /\ a.epoch = record'.epoch /\ a.state = record'.state /\ a.rev = rev'
      /\ a.barrier = record'.barrier
  BY DEF Answer
<1> HIDE DEF a
<1>4. /\ SoloSession(n, record, s, d, v) /\ SoloDraft(n, record, d, v)
      /\ SoloRequest(record, rev, stray, d.save, v)
      /\ SoloCall(record, rev, stray, call[c], s, d.save, v)
      /\ SoloServer(record, rev)
  BY DEF Solo, SoloTab
<1>5. /\ record'.epoch # 0
      /\ SoloSession(n, record', s, d, v) /\ SoloDraft(n, record', d, v)
      /\ SoloRequest(record', rev, stray, d.save, v)
      /\ SoloCall(record', rev, stray, call[c], s, d.save, v)
      /\ SoloServer(record', rev)
  <2>1. CASE record.epoch # 0
    BY <1>1, <1>4, <2>1
  <2>2. CASE record.epoch = 0
    <3>1. /\ record'.epoch = record.last + 1 /\ record'.state = {} /\ record'.barrier = 0
          /\ record'.receipts = <<>>
      BY <1>1, <2>2
    <3>2. record.last \in Nat /\ rev \in Nat
      BY RowFacts DEF Inv
    <3>3. s.epoch = 0 /\ s.vector = {} /\ s.save = NoSave /\ s.phase # "open" /\ ~s.newer
      <4>1. s.epoch = 0 /\ s.vector = {}
        BY <1>4, <2>2 DEF SoloSession, SoloServer
      <4> QED
        BY <4>1, TabFacts DEF SessionOK, Dirty
    <3>4. d = NoDraft
      BY <1>4, <2>2, TabFacts DEF SoloDraft, DraftOK
    <3>5. d.save = NoSave
      BY <3>4, NoDraftType
    <3>6. ReceiptsIn(record, NoSave) = {} /\ ReceiptsIn(record', NoSave) = {}
      BY <1>4, <3>1 DEF SoloServer, ReceiptsIn, ToSet
    <3>7. SoloSession(n, record', s, d, v)
      BY <1>4, <3>3 DEF SoloSession, Fresh
    <3>8. SoloRequest(record', rev, stray, d.save, v)
      BY <1>4, <3>5, <3>6 DEF SoloRequest
    <3>9. call[c].kind = "none" \/ ~call[c].answered
      <4>1. CallOK(edit, call[c], s, d) /\ call[c] \in AnyCall
        BY TabFacts
      <4>2. call[c].kind # "update"
        BY <3>3, <4>1 DEF CallOK
      <4>3. call[c].kind = "info" /\ call[c].answered => call[c].answer.epoch # 0
        BY <4>1 DEF CallOK
      <4> QED
        BY <1>4, <2>2, <4>1, <4>2, <4>3 DEF SoloCall, AnyCall
    <3>10. SoloCall(record', rev, stray, call[c], s, d.save, v)
      BY <3>3, <3>9 DEF SoloCall
    <3>11. SoloServer(record', rev)
      BY <3>1, <3>2 DEF SoloServer, ToSet
    <3> QED
      BY <3>1, <3>2, <3>4, <3>7, <3>8, <3>10, <3>11 DEF SoloDraft
  <2> QED
    BY <2>1, <2>2
<1>6. SoloCall(record', rev, stray, k, s, d.save, v)
  <2>1. CASE y = c
    BY <1>1, <1>2, <1>3, <1>5, <2>1 DEF SoloCall
  <2>2. CASE y # c
    BY <1>2, <1>5, <2>2
  <2> QED
    BY <2>1, <2>2
<1>7. \A x \in Clients \ {c} : Silent(tab'[x], draft'[x], call'[x])
  BY <1>1, <1>2 DEF Solo, Silent
<1> QED
  BY <1>1, <1>5, <1>6, <1>7 DEF Solo, SoloTab

-----------------------------------------------------------------------------
(* The commit of the request, and its acknowledgement.                       *)

\* After a commit its receipt is there, whichever others had to go.
LEMMA CommitSolo ==
    ASSUME Inv, Inv', NEW v \in Nat \ {0}, NEW q, q # NoSave, q \in AnyRequest,
           SoloServer(record, rev), SoloRequest(record, rev, stray, q, v), Commit(q)
    PROVE  /\ Len(edit') = Len(edit)
           /\ record'.epoch = record.epoch /\ record.state \subseteq record'.state
           /\ record'.state \subseteq record.state \cup q.update
           /\ record.epoch # 0 => SoloServer(record', rev')
           /\ ReceiptsIn(record', q) # {}
           /\ \A r \in ReceiptsIn(record', q) : r.previous = v /\ r.revision = rev'
<1>1. Receipts(q) = ReceiptsIn(record, q)
  BY DEF Receipts, ReceiptsIn
<1>2. CASE Receipts(q) # {}
  <2>1. UNCHANGED <<record, rev, edit>>
    BY <1>2 DEF Commit
  <2> QED
    BY <1>1, <1>2, <2>1 DEF SoloRequest
<1>3. CASE Receipts(q) = {}
  <2> DEFINE changed == ~(q.update \subseteq record.state)
             revision == IF changed THEN rev + 1 ELSE rev
             new == [request |-> q, previous |-> rev, revision |-> revision]
             S == ToSet(record.receipts) \cup {new}
             list == AddReceipt(q, revision)
             barrier == IF changed /\ q.excl # 0 THEN revision ELSE record.barrier
  <2>1. /\ record \in AnyRow(edit) /\ rev \in Nat /\ record.barrier \in Nat
        /\ record.receipts \in Seq(Receipted(edit))
    BY RowFacts DEF Inv, ServerOK
  <2>2. /\ rev' = revision /\ DOMAIN edit' = DOMAIN edit
        /\ record' = [record EXCEPT !.state = @ \cup q.update, !.barrier = barrier,
                                    !.receipts = list]
    BY <1>3 DEF Commit
  <2>3. list \in Seq(S) /\ new \in ToSet(list)
    <3>1. record.receipts \in Seq(S)
      <4>1. \A i \in 1..Len(record.receipts) : record.receipts[i] \in S
        BY <2>1, LenProperties DEF ToSet
      <4>2. record.receipts \in [1..Len(record.receipts) -> S] /\ Len(record.receipts) \in Nat
        BY <2>1, <4>1, LenProperties
      <4> QED
        BY <4>2, SeqDef
    <3> HIDE DEF S
    <3>2. new \in S
      BY DEF S
    <3> HIDE DEF revision
    <3> QED
      BY <3>1, <3>2, ReceiptsAdded
  <2>4. ToSet(list) \subseteq ToSet(record.receipts) \cup {new}
    <3> HIDE DEF S, list
    <3>1. \A i \in DOMAIN list : list[i] \in S
      BY <2>3, LenProperties, ElementOfSeq
    <3> QED
      BY <3>1 DEF ToSet, S
  <2>5. revision \in Nat /\ rev <= revision /\ barrier <= revision
    BY <2>1 DEF SoloServer
  <2>6. /\ new.request = q /\ new.previous = rev /\ new.revision = revision
    OBVIOUS
  <2> HIDE DEF changed, revision, new, S, list, barrier
  <2>7. /\ record'.epoch = record.epoch /\ record'.state = record.state \cup q.update
        /\ record'.barrier = barrier /\ record'.receipts = list
    BY <2>1, <2>2 DEF AnyRow
  <2>8. Len(edit') = Len(edit)
    BY <2>2, SameLength
  <2>9. record.epoch # 0 => SoloServer(record', rev')
    BY <2>2, <2>4, <2>5, <2>6, <2>7 DEF SoloServer
  <2>10. v = rev
    BY <1>1, <1>3 DEF SoloRequest
  <2>11. ReceiptsIn(record', q) # {}
    BY <2>3, <2>6, <2>7 DEF ReceiptsIn
  <2>12. \A r \in ReceiptsIn(record', q) : r.previous = v /\ r.revision = rev'
    <3> SUFFICES ASSUME NEW r \in ReceiptsIn(record', q)
                 PROVE  r.previous = v /\ r.revision = rev'
      OBVIOUS
    <3>1. r \in ToSet(record.receipts) \cup {new} /\ r.request = q
      BY <2>4, <2>7 DEF ReceiptsIn
    <3>2. r = new
      BY <1>1, <1>3, <3>1 DEF ReceiptsIn
    <3> QED
      BY <2>2, <2>6, <2>10, <3>2
  <2> QED
    BY <2>7, <2>8, <2>9, <2>11, <2>12
<1> QED
  BY <1>2, <1>3

\* What was captured since is not in the request that is committed.
LEMMA CommitKeeps ==
    ASSUME Inv, Inv', NEW c \in Clients, NEW v \in Nat \ {0}, Solo(c, v),
           NEW q, q = draft[c].save, q # NoSave, Commit(q), stray' \subseteq stray
    PROVE  /\ Len(edit') = Len(edit)
           /\ record'.epoch = record.epoch /\ record.epoch # 0
           /\ record.state \subseteq record'.state
           /\ SoloServer(record', rev')
           /\ ReceiptsIn(record', q) # {}
           /\ SoloSession(Len(edit'), record', tab[c], draft[c], v)
           /\ SoloDraft(Len(edit'), record', draft[c], v)
           /\ SoloRequest(record', rev', stray', q, v)
<1> DEFINE s == tab[c]
           d == draft[c]
           n == Len(edit)
<1>1. /\ SoloSession(n, record, s, d, v) /\ SoloDraft(n, record, d, v)
      /\ SoloRequest(record, rev, stray, q, v) /\ SoloServer(record, rev)
  BY DEF Solo, SoloTab
<1>2. q \in AnyRequest /\ record.epoch # 0
  <2>1. d # NoDraft
    BY NoDraftType
  <2>2. DraftOK(edit, c, d)
    BY TabFacts
  <2> QED
    BY <1>1, <2>1, <2>2 DEF DraftOK, SoloDraft, AnyDraft
<1>3. /\ Len(edit') = n
      /\ record'.epoch = record.epoch /\ record.state \subseteq record'.state
      /\ record'.state \subseteq record.state \cup q.update
      /\ SoloServer(record', rev')
      /\ ReceiptsIn(record', q) # {}
      /\ \A r \in ReceiptsIn(record', q) : r.previous = v /\ r.revision = rev'
  BY <1>1, <1>2, CommitSolo
<1>4. SoloSession(n, record', s, d, v)
  <2>1. s.save = q \/ ~s.newer
    BY <1>1 DEF SoloSession, Active
  <2>2. Fresh(n, record', s)
    BY <1>1, <1>3, <2>1 DEF SoloSession, Fresh
  <2> QED
    BY <1>1, <1>3, <2>2 DEF SoloSession
<1>5. SoloDraft(n, record', d, v)
  <2>1. d # NoDraft => Fresh(n, record', d)
    BY <1>1, <1>3 DEF SoloDraft, Fresh
  <2> QED
    BY <1>1, <1>3, <2>1 DEF SoloDraft
<1>6. SoloRequest(record', rev', stray', q, v)
  BY <1>1, <1>3 DEF SoloRequest
<1> QED
  BY <1>2, <1>3, <1>4, <1>5, <1>6

\* A request that is alone is never refused: it knows of every commit but its own.
LEMMA UpdateSolo ==
    ASSUME "late" \notin Gaps, Inv, Inv', NEW c \in Clients, NEW v \in Nat \ {0}, Solo(c, v),
           Update(c)
    PROVE  Solo(c, v)'
<1> DEFINE s == tab[c]
           d == draft[c]
           q == s.save
           k == call'[c]
           a == k.answer
<1>1. call[c].kind = "update" /\ UNCHANGED <<tab, draft>>
  BY DEF Update
<1>2. q # NoSave /\ q = d.save /\ Active(s)
  BY <1>1, TabFacts DEF CallOK, Active
<1>3. s.epoch # 0 /\ s.epoch = record.epoch
  BY <1>2, ActiveTab
<1>4. SoloRequest(record, rev, stray, q, v) /\ SoloServer(record, rev)
  BY <1>2 DEF Solo, SoloTab
<1>5. Receipts(q) = ReceiptsIn(record, q)
  BY DEF Receipts, ReceiptsIn
<1>6. ~Refused(q)
  <2>1. rev \in Nat /\ record.barrier \in Nat
    BY RowFacts DEF Inv
  <2> HIDE DEF q
  <2> QED
    BY <1>2, <1>3, <1>4, <1>5, <2>1 DEF Refused, SoloRequest, SoloServer
<1>7. /\ Commit(q)
      /\ call' = [call EXCEPT ![c].answered = TRUE, ![c].answer =
                     IF Receipts(q) # {}
                     THEN LET r == CHOOSE x \in Receipts(q) : TRUE
                          IN  Answer(r.previous, r.revision)
                     ELSE Answer(rev, rev')]
      /\ stray' = {x \in stray : x.client # q.client}
  BY <1>6 DEF Update
<1>8. stray' = {}
  BY <1>4, <1>7 DEF SoloRequest
<1> DEFINE answer == IF Receipts(q) # {}
                     THEN LET r == CHOOSE x \in Receipts(q) : TRUE
                          IN  Answer(r.previous, r.revision)
                     ELSE Answer(rev, rev')
<1> HIDE DEF q
<1>9. k.kind = "update" /\ k.answer = answer
  <2>1. call' = [call EXCEPT ![c].answered = TRUE, ![c].answer = answer]
    BY <1>7
  <2> HIDE DEF answer
  <2> QED
    BY <1>1, <2>1 DEF Inv, AnyCall
<1>10. /\ Len(edit') = Len(edit)
      /\ record'.epoch = record.epoch /\ record.state \subseteq record'.state
      /\ SoloServer(record', rev')
      /\ ReceiptsIn(record', q) # {}
      /\ SoloSession(Len(edit'), record', s, d, v)
      /\ SoloDraft(Len(edit'), record', d, v)
      /\ SoloRequest(record', rev', stray', q, v)
  BY <1>2, <1>7, <1>8, CommitKeeps
<1>11. a = Answer(v, rev')
  <2>1. a = answer
    BY <1>9
  <2>2. CASE Receipts(q) # {}
    <3> DEFINE r == CHOOSE x \in Receipts(q) : TRUE
    <3>1. r \in ReceiptsIn(record, q)
      BY <1>5, <2>2
    <3>2. r.previous = v /\ r.revision = rev /\ rev' = rev
      <4>1. rev' = rev
        BY <1>7, <2>2 DEF Commit
      <4> HIDE DEF r
      <4> QED
        BY <1>4, <3>1, <4>1 DEF SoloRequest
    <3>3. a = Answer(r.previous, r.revision)
      BY <2>1, <2>2
    <3> HIDE DEF r
    <3> QED
      BY <3>2, <3>3
  <2>3. CASE Receipts(q) = {}
    BY <1>4, <1>5, <2>1, <2>3 DEF SoloRequest
  <2> QED
    BY <2>2, <2>3
<1>12. /\ a.ok /\ a.epoch = record'.epoch /\ a.rev = rev' /\ a.barrier = record'.barrier
       /\ a.state = record'.state /\ a.previous = v /\ a.acked = rev'
  BY <1>11 DEF Answer
<1> HIDE DEF k
<1>13. SoloCall(record', rev', stray', k, s, q, v)
  BY <1>8, <1>9, <1>10, <1>12 DEF SoloCall
<1>14. \A x \in Clients \ {c} : tab'[x] = tab[x] /\ draft'[x] = draft[x] /\ call'[x] = call[x]
  BY <1>1, <1>7 DEF Inv
<1> QED
  BY <1>1, <1>2, <1>10, <1>13, <1>14, SoloStep DEF SoloTab, k

LEMMA UpdateStraySolo ==
    ASSUME Inv, Inv', NEW c \in Clients, NEW v \in Nat \ {0}, Solo(c, v),
           NEW q \in stray, UpdateStray(q)
    PROVE  Solo(c, v)'
<1>1. UNCHANGED <<tab, draft, call>> /\ stray' = stray \ {q}
  BY DEF UpdateStray
<1>2. /\ SoloRequest(record, rev, stray, draft[c].save, v)
      /\ SoloCall(record, rev, stray, call[c], tab[c], draft[c].save, v)
  BY DEF Solo, SoloTab
<1>3. q = draft[c].save /\ q # NoSave
  BY <1>2 DEF SoloRequest
<1>4. ~(call[c].kind = "update" /\ call[c].answered)
  BY <1>2 DEF SoloCall
<1>5. CASE Refused(q)
  <2>1. UNCHANGED <<record, rev, edit>>
    BY <1>5 DEF UpdateStray
  <2>2. SoloRequest(record, rev, stray', q, v)
    BY <1>1, <1>2, <1>3 DEF SoloRequest
  <2>3. SoloCall(record, rev, stray', call[c], tab[c], q, v)
    BY <1>2, <1>3, <1>4 DEF SoloCall
  <2> QED
    BY <1>1, <1>3, <2>1, <2>2, <2>3 DEF Solo, SoloTab
<1>6. CASE ~Refused(q)
  <2>1. Commit(q)
    BY <1>6 DEF UpdateStray
  <2>2. /\ Len(edit') = Len(edit)
        /\ record'.epoch = record.epoch /\ record.state \subseteq record'.state
        /\ SoloServer(record', rev')
        /\ SoloSession(Len(edit'), record', tab[c], draft[c], v)
        /\ SoloDraft(Len(edit'), record', draft[c], v)
        /\ SoloRequest(record', rev', stray', q, v)
    BY <1>1, <1>3, <2>1, CommitKeeps
  <2>3. SoloCall(record', rev', stray', call[c], tab[c], q, v)
    BY <1>2, <1>3, <1>4, <2>2 DEF SoloCall
  <2> QED
    BY <1>1, <1>3, <2>2, <2>3 DEF Solo, SoloTab
<1> QED
  BY <1>5, <1>6

\* An answer is of the state that the tab expects: nothing conflicts, and the tab is told.
LEMMA AcknowledgeSolo ==
    ASSUME Inv, NEW c \in Clients, NEW v \in Nat \ {0}, Solo(c, v), NEW w, w = rev,
           Acknowledge(c)
    PROVE  Solo(c, w)'
<1> DEFINE s == tab[c]
           d == draft[c]
           k == call[c]
           a == k.answer
           n == Len(edit)
           u == Advance(s, a.previous, a.acked)
           x == Received(u, a)
           t == [x EXCEPT !.save = NoSave, !.excl = IF u.newExcl THEN @ ELSE 0,
                          !.pending = IF u.newer THEN a.rev ELSE 0]
           z == Loaded(t)
<1>1. k.kind = "update" /\ k.answered
  BY DEF Acknowledge
<1>2. s.save # NoSave /\ s.save = d.save /\ s.phase # "closed" /\ Active(s)
  <2>1. CallOK(edit, k, s, d)
    BY TabFacts
  <2>2. NoCall.kind # "update"
    BY DEF NoCall
  <2> QED
    BY <1>1, <2>1, <2>2 DEF CallOK, Active
<1>3. /\ s \in AnySession /\ a \in AnyAnswer /\ rev \in Nat \ {0} /\ record.barrier \in Nat
  BY TabFacts, RowFacts DEF AnyCall, Inv, ServerOK
<1>4. /\ SoloSession(n, record, s, d, v) /\ SoloRequest(record, rev, stray, d.save, v)
      /\ SoloServer(record, rev) /\ SoloCall(record, rev, stray, k, s, d.save, v)
  BY DEF Solo, SoloTab
<1>5. s.epoch # 0 /\ s.epoch = record.epoch /\ s.viewRev = v
  BY <1>2, ActiveTab
<1>6. /\ a.ok /\ a.epoch = record.epoch /\ a.rev = rev /\ a.barrier = record.barrier
      /\ a.state \subseteq record.state /\ a.previous = v /\ a.acked = rev /\ stray = {}
  BY <1>1, <1>4 DEF SoloCall
<1> HIDE DEF a
<1>7. /\ u \in AnySession /\ u.epoch = s.epoch /\ u.doc = s.doc /\ u.save = s.save
      /\ u.newer = s.newer /\ u.phase = s.phase /\ u.conflict = s.conflict
      /\ u.viewRev = rev /\ u.excl \in {0, rev}
  BY <1>3, <1>4, <1>5, <1>6 DEF Advance, AnySession, SoloSession
<1> HIDE DEF u
<1>8. ~(a.barrier > a.acked /\ u.newer) /\ ~Conflicts(u, a, TRUE)
  BY <1>3, <1>4, <1>5, <1>6, <1>7 DEF Conflicts, SoloServer
<1>9. /\ call' = [call EXCEPT ![c] = NoCall] /\ Persist(c, t) /\ Become(c, z)
      /\ UNCHANGED <<record, rev, stray, edit>>
  BY <1>6, <1>8 DEF Acknowledge, server, a, u
<1>10. /\ x \in AnySession /\ x.epoch = record.epoch /\ x.base = rev /\ x.vector = a.state
       /\ x.doc = u.doc \cup a.state /\ x.excl = u.excl
       /\ x.newer = s.newer /\ x.phase = s.phase /\ x.conflict = s.conflict
       /\ x.viewRev = rev
  BY <1>3, <1>5, <1>6, <1>7 DEF Received, AnySession, AnyAnswer
<1> HIDE DEF x
<1>11. /\ t \in AnySession /\ t.epoch = record.epoch /\ t.base = rev /\ t.vector = a.state
       /\ t.doc = u.doc \cup a.state /\ t.excl \in {0, rev} /\ t.save = NoSave
       /\ t.newer = s.newer /\ t.phase = s.phase /\ t.conflict = s.conflict
       /\ t.viewRev = rev /\ t.pending \in {0, rev}
  <2>1. /\ t = [x EXCEPT !.save = NoSave, !.excl = t.excl, !.pending = t.pending]
        /\ t.excl \in {0, rev} /\ t.pending \in {0, rev}
    BY <1>6, <1>7, <1>10 DEF AnySession
  <2>2. t.excl \in Nat /\ t.pending \in Nat
    BY <1>3, <2>1
  <2> HIDE DEF t
  <2> QED
    BY <1>10, <2>1, <2>2, NoSaveType DEF AnySession
<1> HIDE DEF t
<1>12. /\ z.epoch = record.epoch /\ z.base = rev /\ z.vector = a.state
       /\ z.doc = u.doc \cup a.state /\ z.excl \in {0, rev} /\ z.save = NoSave
       /\ z.newer = s.newer /\ z.phase = "open" /\ z.conflict = s.conflict
       /\ z.viewRev = rev /\ z.pending \in {0, rev} /\ z \in AnySession
  <2>1. CASE t.phase = "loading"
    BY <1>11, <2>1 DEF Loaded, Initialized, AnySession
  <2>2. CASE t.phase # "loading"
    <3>1. s.phase = "open"
      BY <1>2, <1>3, <1>11, <2>2 DEF AnySession
    <3> QED
      BY <1>11, <2>2, <3>1 DEF Loaded
  <2> QED
    BY <2>1, <2>2
<1> HIDE DEF z
<1>13. s.newer => n \in u.doc \cup a.state /\ n \notin record.state /\ n \notin NoSave.update
  BY <1>4, <1>7, NoSaveType DEF SoloSession, Fresh
<1>14. SoloSession(n, record, z, z, rev)
  BY <1>3, <1>4, <1>6, <1>12, <1>13 DEF SoloSession, Active, PendingOrBase, Fresh
<1>15. SoloSession(n, record, [t EXCEPT !.phase = "open"], z, rev)
       /\ [t EXCEPT !.phase = "open"] \in AnySession
       /\ [t EXCEPT !.phase = "open"].phase = "open"
       /\ [t EXCEPT !.phase = "open"].epoch = record.epoch
       /\ [t EXCEPT !.phase = "open"].save = NoSave
       /\ Stored([t EXCEPT !.phase = "open"]) = Stored(t)
  <2> DEFINE o == [t EXCEPT !.phase = "open"]
  <2>1. /\ o \in AnySession /\ o.phase = "open"
        /\ o.epoch = t.epoch /\ o.base = t.base /\ o.vector = t.vector
        /\ o.doc = t.doc /\ o.excl = t.excl /\ o.save = t.save
        /\ o.newer = t.newer /\ o.conflict = t.conflict /\ o.id = t.id
        /\ o.viewRev = t.viewRev /\ o.pending = t.pending /\ o.newExcl = t.newExcl
    BY <1>11 DEF AnySession
  <2> HIDE DEF o
  <2>2. SoloSession(n, record, o, z, rev)
    BY <1>3, <1>4, <1>6, <1>11, <1>12, <1>13, <2>1 DEF SoloSession, Active, PendingOrBase, Fresh
  <2>3. Stored(o) = Stored(t)
    BY <2>1 DEF Stored, Dirty, PendingOrBase
  <2>4. o.phase = "open" /\ o.epoch = record.epoch /\ o.save = NoSave /\ o \in AnySession
    BY <1>11, <2>1
  <2> QED
    BY <2>2, <2>3, <2>4 DEF o
<1>16. SoloDraft(n, record, Stored(t), rev) /\ Stored(t).save = NoSave
  <2> DEFINE o == [t EXCEPT !.phase = "open"]
  <2>1. /\ SoloSession(n, record, o, z, rev) /\ o \in AnySession /\ o.epoch = record.epoch
        /\ o.save = NoSave /\ Active(o) /\ Stored(o) = Stored(t)
    BY <1>15 DEF Active
  <2> HIDE DEF o
  <2> QED
    BY <2>1, StoredSolo
<1>17. SoloRequest(record, rev, stray, NoSave, rev)
  <2>1. ReceiptsIn(record, NoSave) = {}
    BY <1>4 DEF SoloServer, ReceiptsIn
  <2> QED
    BY <1>6, <2>1 DEF SoloRequest
<1>18. draft'[c] = Stored(t) /\ \A y \in Clients \ {c} : draft'[y] = draft[y]
  BY <1>5, <1>9, <1>11, PersistStores
<1>19. /\ tab'[c] = z /\ call'[c] = NoCall
       /\ \A y \in Clients \ {c} : tab'[y] = tab[y] /\ call'[y] = call[y]
  BY <1>9 DEF Inv, Become
<1>20. SoloSession(n, record, z, Stored(t), rev)
  BY <1>12, <1>14, <1>16 DEF SoloSession
<1>21. SoloTab(Len(edit'), record', rev', stray', tab'[c], draft'[c], call'[c], w)
  BY <1>9, <1>16, <1>17, <1>18, <1>19, <1>20, NothingAnswered DEF SoloTab
<1>22. SoloServer(record', rev')
  BY <1>4, <1>9
<1> QED
  BY <1>18, <1>19, <1>21, <1>22, SoloStep

\* What others committed would be news; alone there is none.
LEMMA RefreshSolo ==
    ASSUME Inv, NEW c \in Clients, NEW v \in Nat \ {0}, Solo(c, v), Refresh(c)
    PROVE  Solo(c, v)'
<1> DEFINE s == tab[c]
           d == draft[c]
           k == call[c]
           a == k.answer
           n == Len(edit)
           t == Received(s, a)
<1>1. s.phase = "open" /\ k.kind = "info" /\ k.answered
  BY DEF Refresh
<1>2. /\ s \in AnySession /\ a \in AnyAnswer /\ rev \in Nat \ {0} /\ record.barrier \in Nat
  BY TabFacts, RowFacts DEF AnyCall, Inv, ServerOK
<1>3. /\ SoloSession(n, record, s, d, v) /\ SoloRequest(record, rev, stray, d.save, v)
      /\ SoloServer(record, rev) /\ SoloCall(record, rev, stray, k, s, d.save, v)
  BY DEF Solo, SoloTab
<1>4. s.epoch # 0 /\ s.epoch = record.epoch /\ PendingOrBase(s) = v /\ s.save = d.save
  BY <1>1, ActiveTab DEF Active
<1>5. d.save = NoSave /\ v = rev
  <2>1. d.save = NoSave
    BY <1>1, <1>3, <1>4 DEF SoloCall
  <2>2. ReceiptsIn(record, NoSave) = {}
    BY <1>3 DEF SoloServer, ReceiptsIn
  <2> QED
    BY <1>3, <2>1, <2>2 DEF SoloRequest
<1>6. /\ a.epoch = record.epoch /\ a.rev = rev /\ a.barrier = record.barrier
      /\ a.state \subseteq record.state
  BY <1>1, <1>3, <1>5 DEF SoloCall
<1> HIDE DEF a
<1>7. ~Conflicts(s, a, FALSE)
  BY <1>2, <1>3, <1>4, <1>5, <1>6 DEF Conflicts, SoloServer
<1>8. /\ call' = [call EXCEPT ![c] = NoCall] /\ tab' = [tab EXCEPT ![c] = t]
      /\ UNCHANGED <<record, rev, draft, stray, edit>>
  BY <1>7 DEF Refresh, Become, server, a
<1>9. /\ t.epoch = record.epoch /\ t.base = rev /\ t.vector = a.state
      /\ t.doc = s.doc \cup a.state /\ t.excl = s.excl /\ t.save = s.save
      /\ t.newer = s.newer /\ t.phase = s.phase /\ t.conflict = s.conflict
      /\ t.viewRev = s.viewRev /\ t.pending = s.pending
  BY <1>2, <1>4, <1>6 DEF Received, AnySession, AnyAnswer
<1> HIDE DEF t
<1>10. SoloSession(n, record, t, d, v)
  BY <1>1, <1>3, <1>4, <1>5, <1>6, <1>9 DEF SoloSession, Active, PendingOrBase, Fresh
<1> QED
  BY <1>8, <1>10, NothingAnswered, SoloLocal

\* A draft is restored next to the row that it was made from.
LEMMA LoadSolo ==
    ASSUME Inv, NEW c \in Clients, NEW v \in Nat \ {0}, Solo(c, v), Load(c)
    PROVE  Solo(c, v)'
<1> DEFINE r == tab[c]
           d == draft[c]
           k == call[c]
           a == k.answer
           n == Len(edit)
           s == Restored(r, d)
           x == Received(s, a)
           t == Loaded(x)
<1>1. r.phase = "loading" /\ k.kind = "info" /\ k.answered
  BY DEF Load
<1>2. /\ r \in AnySession /\ d \in AnyDraft /\ a \in AnyAnswer
      /\ rev \in Nat \ {0} /\ record.barrier \in Nat
      /\ SessionOK(edit, c, r) /\ DraftOK(edit, c, d)
  BY TabFacts, RowFacts DEF AnyCall, Inv, ServerOK
<1>3. /\ SoloSession(n, record, r, d, v) /\ SoloDraft(n, record, d, v)
      /\ SoloRequest(record, rev, stray, d.save, v)
      /\ SoloServer(record, rev) /\ SoloCall(record, rev, stray, k, r, d.save, v)
  BY DEF Solo, SoloTab
<1>4. a.epoch = record.epoch /\ a.state \subseteq record.state
  BY <1>1, <1>3 DEF SoloCall
<1>5. d.save = NoSave => v = rev /\ a.rev = rev /\ a.barrier = record.barrier
  <2>1. ReceiptsIn(record, NoSave) = {}
    BY <1>3 DEF SoloServer, ReceiptsIn
  <2> QED
    BY <1>1, <1>3, <2>1 DEF SoloRequest, SoloCall
<1> HIDE DEF a
<1>6. /\ s \in AnySession /\ s.phase = "loading" /\ s.save = d.save
      /\ s.conflict = r.conflict /\ s.vector = r.vector
      /\ s.epoch \in {0, record.epoch} /\ s.excl \in {0, v}
      /\ Fresh(n, record, s)
      /\ d # NoDraft => s.epoch = record.epoch /\ s.epoch # 0 /\ s.viewRev = v /\ s.pending = v
      /\ d = NoDraft => ~Dirty(s) /\ s.pending = 0
  <2>1. CASE d = NoDraft
    <3>1. d.save = NoSave /\ s = r
      BY <2>1, NoDraftType DEF Restored
    <3>2. r.save = NoSave
      BY <1>3, <3>1 DEF SoloSession
    <3> HIDE DEF s
    <3> QED
      BY <1>1, <1>2, <1>3, <2>1, <3>1, <3>2 DEF SoloSession, Active, Dirty
  <2>2. CASE d # NoDraft
    <3>1. /\ s \in AnySession /\ s.phase = r.phase /\ s.save = d.save
          /\ s.conflict = r.conflict /\ s.vector = r.vector
          /\ s.epoch = d.epoch /\ s.excl = d.excl /\ s.viewRev = d.viewRev
          /\ s.pending = d.base /\ s.newer = d.newer /\ s.doc = d.doc
      BY <1>2, <2>2 DEF Restored, AnySession, AnyDraft
    <3> HIDE DEF s
    <3> QED
      BY <1>1, <1>2, <1>3, <2>2, <3>1 DEF SoloDraft, DraftOK, Fresh
  <2> QED
    BY <2>1, <2>2
<1>7. ~(d # NoDraft /\ s.epoch # a.epoch)
  BY <1>4, <1>6
<1>8. CASE s.save # NoSave
  <2>1. /\ tab' = [tab EXCEPT ![c] = s] /\ Persist(c, s)
        /\ call' = [call EXCEPT ![c] = Sent("update")]
        /\ UNCHANGED <<record, rev, stray, edit>>
    BY <1>7, <1>8 DEF Load, Become, server, a
  <2>2. d # NoDraft /\ Active(s)
    BY <1>6, <1>8 DEF Dirty, Active
  <2> HIDE DEF s
  <2>3. SoloSession(n, record, s, s, v)
    BY <1>3, <1>6, <2>2 DEF SoloSession, Active, PendingOrBase
  <2>4. call'[c] = Sent("update") /\ \A y \in Clients \ {c} : call'[y] = call[y]
    BY <2>1 DEF Inv
  <2>5. SoloCall(record, rev, stray', call'[c], s, s.save, v)
    BY <2>4, NothingAnswered
  <2> QED
    BY <1>6, <2>1, <2>2, <2>3, <2>4, <2>5, SoloStored
<1>9. CASE s.save = NoSave
  <2>1. d.save = NoSave /\ v = rev /\ a.rev = rev /\ a.barrier = record.barrier
    BY <1>5, <1>6, <1>9
  <2>2. ~Conflicts(s, a, FALSE)
    <3> HIDE DEF s
    <3>1. Dirty(s) => PendingOrBase(s) = v
      BY <1>6 DEF PendingOrBase
    <3> QED
      BY <1>2, <1>3, <1>4, <1>6, <2>1, <3>1 DEF Conflicts, SoloServer
  <2>3. /\ call' = [call EXCEPT ![c] = NoCall] /\ tab' = [tab EXCEPT ![c] = t]
        /\ UNCHANGED <<record, rev, draft, stray, edit>>
    BY <1>7, <1>9, <2>2 DEF Load, Become, server, a
  <2> HIDE DEF s
  <2>4. /\ x \in AnySession /\ x.epoch = record.epoch /\ x.base = rev /\ x.vector = a.state
        /\ x.doc = s.doc \cup a.state /\ x.excl = s.excl /\ x.save = NoSave
        /\ x.newer = s.newer /\ x.phase = "loading" /\ x.conflict = s.conflict
        /\ x.pending = s.pending
    BY <1>2, <1>4, <1>6, <1>9, <2>1 DEF Received, AnySession, AnyAnswer
  <2> HIDE DEF x
  <2>5. /\ t.epoch = record.epoch /\ t.base = rev /\ t.vector = a.state
        /\ t.doc = s.doc \cup a.state /\ t.excl = s.excl /\ t.save = NoSave
        /\ t.newer = s.newer /\ t.phase = "open" /\ t.conflict = s.conflict
        /\ t.viewRev = rev /\ t.pending = s.pending
    BY <2>4 DEF Loaded, Initialized, AnySession
  <2> HIDE DEF t
  <2>6. s.pending \in {0, v}
    BY <1>6
  <2>7. Fresh(n, record, t)
    BY <1>6, <1>9, <2>5 DEF Fresh
  <2>8. SoloSession(n, record, t, d, v)
    BY <1>3, <1>4, <1>6, <2>1, <2>5, <2>6, <2>7 DEF SoloSession, Active, PendingOrBase
  <2> QED
    BY <2>3, <2>8, NothingAnswered, SoloLocal
<1> QED
  BY <1>8, <1>9

-----------------------------------------------------------------------------
(* The other tabs.                                                           *)

\* A tab that has nothing to send can only read, and edit.
LEMMA OtherSolo ==
    ASSUME Inv, Inv', NEW c \in Clients, NEW v \in Nat \ {0}, Solo(c, v),
           NEW y \in Clients \ {c},
           \/ \E exclusive \in BOOLEAN : Track(y, exclusive)
           \/ Display(y) \/ Save(y) \/ Ask(y) \/ Open(y) \/ Close(y) \/ Discard(y)
           \/ Lose(y) \/ Update(y) \/ Acknowledge(y) \/ Refresh(y) \/ Load(y)
    PROVE  Solo(c, v)'
<1> DEFINE s == tab[y]
           d == draft[y]
           k == call[y]
<1>1. /\ s.save = NoSave /\ ~s.newer /\ d = NoDraft /\ k.kind # "update"
      /\ s \in AnySession
  BY TabFacts DEF Solo, Silent, Dirty
<1>2. /\ \A z \in Clients \ {y} : /\ tab'[z] = tab[z] /\ draft'[z] = draft[z]
                                  /\ call'[z] = call[z]
      /\ UNCHANGED <<record, rev, stray>> /\ DOMAIN edit' = DOMAIN edit
      /\ tab'[y].save = NoSave /\ ~tab'[y].newer /\ draft'[y] = NoDraft
      /\ call'[y].kind # "update"
  <2>1. /\ Sent("info").kind = "info" /\ NoCall.kind = "none"
        /\ Closed.save = NoSave /\ ~Closed.newer
    BY DEF Sent, NoCall, Closed
  <2>2. CASE \E exclusive \in BOOLEAN : Track(y, exclusive)
    <3>1. PICK exclusive \in BOOLEAN : Track(y, exclusive)
      BY <2>2
    <3> DEFINE t == [Tracked(s, exclusive) EXCEPT
                        !.command = IF exclusive THEN "exclusive" ELSE "plain"]
    <3>2. t.save = NoSave /\ ~t.newer
      BY <1>1 DEF Tracked, AnySession
    <3>3. /\ tab' = [tab EXCEPT ![y] = t]
          /\ UNCHANGED <<record, rev, draft, call, stray, edit>>
      BY <3>1 DEF Track, Become, server
    <3> HIDE DEF t
    <3> QED
      BY <1>1, <3>2, <3>3 DEF Inv
  <2>3. CASE Display(y)
    <3>1. /\ tab' = [tab EXCEPT ![y] = Initialized(s)]
          /\ UNCHANGED <<record, rev, draft, call, stray, edit>>
      BY <2>3 DEF Display, Become, server
    <3>2. Initialized(s).save = NoSave /\ ~Initialized(s).newer
      BY <1>1 DEF Initialized, AnySession
    <3> QED
      BY <1>1, <3>1, <3>2 DEF Inv
  <2>4. CASE Save(y)
    BY <1>1, <2>4 DEF Save, Dirty
  <2>5. CASE Ask(y)
    BY <1>1, <2>1, <2>5 DEF Ask, server, Inv
  <2>6. CASE Open(y)
    <3> DEFINE t == [Closed EXCEPT !.phase = "loading", !.id = opens']
    <3>1. /\ tab' = [tab EXCEPT ![y] = t]
          /\ UNCHANGED <<record, rev, draft, call, stray, edit>>
      BY <2>6 DEF Open, Become, server
    <3>2. t.save = NoSave /\ ~t.newer
      BY DEF Closed
    <3> HIDE DEF t
    <3> QED
      BY <1>1, <3>1, <3>2 DEF Inv
  <2>7. CASE Close(y)
    <3>1. /\ tab' = [tab EXCEPT ![y] = Closed] /\ call' = [call EXCEPT ![y] = NoCall]
          /\ UNCHANGED <<record, rev, draft, edit, stray>>
      BY <1>1, <2>7 DEF Close, Become, Abandon, server
    <3> QED
      BY <1>1, <2>1, <3>1 DEF Inv
  <2>8. CASE Discard(y)
    <3>1. /\ tab' = [tab EXCEPT ![y] = Closed] /\ call' = [call EXCEPT ![y] = NoCall]
          /\ draft' = [draft EXCEPT ![y] = NoDraft] /\ DOMAIN edit' = DOMAIN edit
          /\ UNCHANGED <<record, rev, stray>>
      BY <1>1, <2>8 DEF Discard, Become, Abandon, server
    <3> QED
      BY <1>1, <2>1, <3>1 DEF Inv
  <2>9. CASE Lose(y)
    <3>1. /\ call' = [call EXCEPT ![y] = NoCall]
          /\ UNCHANGED <<record, rev, tab, draft, edit, stray>>
      BY <1>1, <2>9 DEF Lose, Abandon, server
    <3> QED
      BY <1>1, <2>1, <3>1 DEF Inv
  <2>10. CASE Update(y) \/ Acknowledge(y)
    BY <1>1, <2>10 DEF Update, Acknowledge
  <2>11. CASE Refresh(y)
    <3> DEFINE t == Received(s, k.answer)
    <3>1. /\ tab' = [tab EXCEPT ![y] = t] /\ call' = [call EXCEPT ![y] = NoCall]
          /\ UNCHANGED <<record, rev, draft, edit, stray>>
      BY <1>1, <2>11 DEF Refresh, Conflicts, Dirty, Become, server
    <3>2. t.save = NoSave /\ ~t.newer
      BY <1>1 DEF Received, AnySession
    <3> HIDE DEF t
    <3> QED
      BY <1>1, <2>1, <3>1, <3>2 DEF Inv
  <2>12. CASE Load(y)
    <3> DEFINE t == Loaded(Received(s, k.answer))
    <3>1. Restored(s, d) = s
      BY <1>1 DEF Restored
    <3>2. /\ tab' = [tab EXCEPT ![y] = t] /\ call' = [call EXCEPT ![y] = NoCall]
          /\ UNCHANGED <<record, rev, draft, edit, stray>>
      BY <1>1, <2>12, <3>1 DEF Load, Conflicts, Dirty, Become, server
    <3>3. t.save = NoSave /\ ~t.newer
      <4>1. Received(s, k.answer).save = NoSave /\ ~Received(s, k.answer).newer
            /\ Received(s, k.answer) \in AnySession
        <5>1. k.answer \in AnyAnswer
          BY TabFacts DEF AnyCall
        <5> QED
          BY <1>1, <5>1 DEF Received, AnySession, AnyAnswer
      <4> QED
        BY <4>1, LoadedKeeps DEF Kept
    <3> HIDE DEF t
    <3> QED
      BY <1>1, <2>1, <3>2, <3>3 DEF Inv
  <2> QED
    BY <2>2, <2>3, <2>4, <2>5, <2>6, <2>7, <2>8, <2>9, <2>10, <2>11, <2>12
<1>3. Len(edit') = Len(edit)
  BY <1>2, SameLength
<1>4. Silent(tab'[y], draft'[y], call'[y])
  BY <1>2 DEF Silent, Dirty
<1> QED
  BY <1>2, <1>3, <1>4, SilentStep

\* Who is alone has always been.
LEMMA AloneBefore ==
    ASSUME Inv, outside \in Nat, [Next]_vars, NEW c
    PROVE  /\ outside' \in Nat
           /\ Alone(c)' => /\ Alone(c)
                           /\ \A replaces \in BOOLEAN : ~Outside(replaces)
                           /\ \A y \in Clients \ {c}, exclusive \in BOOLEAN :
                                 ~Edit(y, exclusive) /\ ~Capture(y)
<1>1. ASSUME NEW y \in Clients, NEW s, NEW exclusive, CaptureAs(y, s, exclusive)
      PROVE  /\ outside' = outside
             /\ Alone(c)' => Alone(c) /\ y = c
  <2> DEFINE new == [by |-> y, exclusive |-> exclusive, view |-> s.view,
                     viewEpoch |-> s.viewEpoch, epoch |-> s.epoch, at |-> 0]
  <2>1. edit' = Append(edit, new) /\ outside' = outside
    BY <1>1 DEF CaptureAs, bounds
  <2>2. /\ edit \in Seq(AnyEdit) /\ Len(edit) \in Nat /\ DOMAIN edit = 1..Len(edit)
    BY EditFacts DEF Inv, EditsOK
  <2>3. new.by = y
    OBVIOUS
  <2> HIDE DEF new
  <2>4. /\ DOMAIN edit' = 1..(Len(edit) + 1) /\ edit'[Len(edit) + 1] = new
        /\ \A e \in 1..Len(edit) : edit'[e] = edit[e]
    BY <2>1, <2>2
  <2> QED
    BY <2>1, <2>2, <2>3, <2>4 DEF Alone
<1>2. ASSUME NEW replaces \in BOOLEAN, Outside(replaces)
      PROVE  outside' \in Nat /\ ~Alone(c)'
  BY <1>2 DEF Outside, Alone
<1>3. ASSUME outside' = outside, DOMAIN edit' = DOMAIN edit,
             \A e \in DOMAIN edit : edit'[e].by = edit[e].by
      PROVE  Alone(c)' => Alone(c)
  BY <1>3 DEF Alone
<1>4. ASSUME NEW q, Commit(q), outside' = outside
      PROVE  Alone(c)' => Alone(c)
  <2>1. \A e \in DOMAIN edit : edit[e] \in AnyEdit
    BY EditFacts, ElementOfSeq DEF Inv, EditsOK
  <2>2. DOMAIN edit' = DOMAIN edit /\ \A e \in DOMAIN edit : edit'[e].by = edit[e].by
    BY <1>4, <2>1 DEF Commit, AnyEdit
  <2> QED
    BY <1>3, <1>4, <2>2
<1>5. ASSUME NEW y \in Clients, Update(y)
      PROVE  outside' = outside /\ (Alone(c)' => Alone(c))
  BY <1>3, <1>4, <1>5 DEF Update, bounds
<1>6. ASSUME NEW q \in stray, UpdateStray(q)
      PROVE  outside' = outside /\ (Alone(c)' => Alone(c))
  BY <1>3, <1>4, <1>6 DEF UpdateStray, bounds
<1>7. ASSUME NEW y \in Clients, Discard(y)
      PROVE  outside' = outside /\ (Alone(c)' => Alone(c))
  BY <1>3, <1>7 DEF Discard, bounds
<1>8. ASSUME NEW y \in Clients,
             \/ \E exclusive \in BOOLEAN : Track(y, exclusive)
             \/ Display(y) \/ Save(y) \/ Ask(y) \/ Open(y) \/ Close(y) \/ Lose(y) \/ Info(y)
             \/ Acknowledge(y) \/ Refresh(y) \/ Load(y)
      PROVE  outside' = outside /\ edit' = edit
  <2>1. ASSUME NEW exclusive \in BOOLEAN, Track(y, exclusive)
        PROVE  outside' = outside /\ edit' = edit
    BY <2>1 DEF Track, bounds
  <2>2. CASE Display(y) \/ Save(y) \/ Ask(y) \/ Close(y) \/ Info(y)
    BY <2>2 DEF Display, Save, Ask, Close, Info, bounds
  <2>3. CASE Open(y) \/ Lose(y)
    BY <2>3 DEF Open, Lose
  <2>4. CASE Acknowledge(y) \/ Refresh(y) \/ Load(y)
    BY <2>4 DEF Acknowledge, Refresh, Load, bounds
  <2> QED
    BY <1>8, <2>1, <2>2, <2>3, <2>4
<1>9. ASSUME NEW y \in Clients, NEW exclusive \in BOOLEAN, Edit(y, exclusive) \/ Capture(y)
       PROVE  outside' = outside /\ (Alone(c)' => Alone(c) /\ y = c)
  BY <1>1, <1>9 DEF Edit, Capture
<1>10. outside' \in Nat /\ (Alone(c)' => Alone(c))
  <2>1. CASE UNCHANGED vars
    BY <1>3, <2>1 DEF vars
  <2>2. ASSUME NEW y \in Clients,
               \/ \E exclusive \in BOOLEAN : Edit(y, exclusive) \/ Track(y, exclusive)
               \/ Capture(y) \/ Display(y) \/ Save(y) \/ Ask(y) \/ Open(y) \/ Close(y)
               \/ Discard(y) \/ Lose(y) \/ Update(y) \/ Info(y)
               \/ Acknowledge(y) \/ Refresh(y) \/ Load(y)
        PROVE  outside' \in Nat /\ (Alone(c)' => Alone(c))
    BY <1>3, <1>5, <1>7, <1>8, <1>9, <2>2
  <2> QED
    BY <1>2, <1>6, <2>1, <2>2 DEF Next
<1> QED
  BY <1>2, <1>9, <1>10

LEMMA SoloNext ==
    ASSUME "late" \notin Gaps, Inv, Inv', SoloInv, [Next]_vars
    PROVE  SoloInv'
<1>1. outside \in Nat /\ \A c \in Clients : Alone(c) => \E v \in Nat \ {0} : Solo(c, v)
  BY DEF SoloInv
<1>2. outside' \in Nat
  BY <1>1, AloneBefore
<1>3. ASSUME NEW c \in Clients, Alone(c)'
      PROVE  \E w \in Nat \ {0} : Solo(c, w)'
  <2>0. /\ Alone(c)
        /\ \A replaces \in BOOLEAN : ~Outside(replaces)
        /\ \A y \in Clients \ {c}, exclusive \in BOOLEAN :
              ~Edit(y, exclusive) /\ ~Capture(y)
    BY <1>1, <1>3, AloneBefore
  <2>1. PICK v \in Nat \ {0} : Solo(c, v)
    BY <1>1, <2>0
  <2>2. PICK w \in Nat \ {0} : w = rev
    BY RowFacts DEF Inv, ServerOK
  <2>3. ASSUME UNCHANGED vars
        PROVE  Solo(c, v)'
    BY <2>1, <2>3 DEF vars, Solo
  <2>4. ASSUME NEW exclusive \in BOOLEAN, Edit(c, exclusive) \/ Track(c, exclusive)
        PROVE  Solo(c, v)'
    BY <2>1, <2>4, EditSolo, TrackSolo
  <2>5. ASSUME Capture(c) \/ Display(c) \/ Save(c) \/ Ask(c) \/ Open(c) \/ Close(c) \/ Lose(c)
        PROVE  Solo(c, v)'
    BY <2>1, <2>5, CaptureSolo, DisplaySolo, SaveSolo, AskSolo, OpenSolo, CloseSolo, LoseSolo
  <2>6. ~Discard(c)
    BY <2>1 DEF Discard, Solo, SoloTab, SoloSession
  <2>7. ASSUME Update(c) \/ Refresh(c) \/ Load(c)
        PROVE  Solo(c, v)'
    BY <2>1, <2>7, UpdateSolo, RefreshSolo, LoadSolo
  <2>8. ASSUME Acknowledge(c)
        PROVE  Solo(c, w)'
    BY <2>1, <2>2, <2>8, AcknowledgeSolo
  <2>9. ASSUME NEW y \in Clients, Info(y)
        PROVE  Solo(c, v)'
    BY <2>1, <2>9, InfoSolo
  <2>10. ASSUME NEW q \in stray, UpdateStray(q)
         PROVE  Solo(c, v)'
    BY <2>1, <2>10, UpdateStraySolo
  <2>11. ASSUME NEW y \in Clients \ {c},
               \/ \E exclusive \in BOOLEAN : Edit(y, exclusive) \/ Track(y, exclusive)
               \/ Capture(y) \/ Display(y) \/ Save(y) \/ Ask(y) \/ Open(y) \/ Close(y)
               \/ Discard(y) \/ Lose(y) \/ Update(y) \/ Info(y)
               \/ Acknowledge(y) \/ Refresh(y) \/ Load(y)
         PROVE  Solo(c, v)'
    <3>1. ~Capture(y) /\ \A exclusive \in BOOLEAN : ~Edit(y, exclusive)
      BY <2>0
    <3> QED
      BY <2>1, <2>9, <2>11, <3>1, OtherSolo
  <2>12. ASSUME NEW y \in Clients,
               \/ \E exclusive \in BOOLEAN : Edit(y, exclusive) \/ Track(y, exclusive)
               \/ Capture(y) \/ Display(y) \/ Save(y) \/ Ask(y) \/ Open(y) \/ Close(y)
               \/ Discard(y) \/ Lose(y) \/ Update(y) \/ Info(y)
               \/ Acknowledge(y) \/ Refresh(y) \/ Load(y)
         PROVE  Solo(c, v)' \/ Solo(c, w)'
    <3>1. CASE y = c
      BY <2>4, <2>5, <2>6, <2>7, <2>8, <2>9, <2>12, <3>1
    <3>2. CASE y # c
      BY <2>11, <2>12, <3>2
    <3> QED
      BY <3>1, <3>2
  <2>13. Solo(c, v)' \/ Solo(c, w)'
    <3>1. CASE \E y \in Clients :
                 \/ \E exclusive \in BOOLEAN : Edit(y, exclusive) \/ Track(y, exclusive)
                 \/ Capture(y) \/ Display(y) \/ Save(y) \/ Ask(y) \/ Open(y) \/ Close(y)
                 \/ Discard(y) \/ Lose(y) \/ Update(y) \/ Info(y)
                 \/ Acknowledge(y) \/ Refresh(y) \/ Load(y)
      BY <2>12, <3>1
    <3>2. CASE \E q \in stray : UpdateStray(q)
      BY <2>10, <3>2
    <3>3. ~\E replaces \in BOOLEAN : Outside(replaces)
      BY <2>0
    <3>4. CASE Next
      BY <3>1, <3>2, <3>3, <3>4 DEF Next
    <3> QED
      BY <2>3, <3>4
  <2> QED
    BY <2>13
<1> QED
  BY <1>2, <1>3 DEF SoloInv

LEMMA SoloInit ==
    ASSUME Init
    PROVE  SoloInv
<1> SUFFICES ASSUME NEW c \in Clients
             PROVE  Solo(c, 1)
  BY DEF SoloInv, Init
<1>1. \A x \in Clients : tab[x] = Closed /\ draft[x] = NoDraft /\ call[x] = NoCall
  BY DEF Init
<1>2. /\ ToSet(record.receipts) = {} /\ record.barrier = 0 /\ record.state = {} /\ rev = 1
      /\ stray = {}
  BY DEF Init, ToSet
<1>3. SoloSession(Len(edit), record, Closed, NoDraft, 1)
  BY ClosedSolo DEF Closed
<1>4. SoloDraft(Len(edit), record, NoDraft, 1)
  BY DEF SoloDraft
<1>5. NoDraft.save = NoSave
  BY NoDraftType
<1>6. SoloRequest(record, rev, stray, NoSave, 1)
  BY <1>2 DEF SoloRequest, ReceiptsIn
<1>7. SoloCall(record, rev, stray, NoCall, Closed, NoSave, 1)
  BY NothingAnswered
<1>8. SoloServer(record, rev)
  BY <1>2 DEF SoloServer
<1>9. Silent(Closed, NoDraft, NoCall)
  BY DEF Silent, Dirty, Closed, NoCall
<1> QED
  BY <1>1, <1>3, <1>4, <1>5, <1>6, <1>7, <1>8, <1>9 DEF Solo, SoloTab

\* A tab that is alone with its workbook is never refused, whatever requests and answers it
\* loses and however often it is closed and opened again, unless a request it has given up
\* arrives after a newer one: receipts and barrier recognize its own commits.
THEOREM NoConflictWithOneself ==
    ASSUME "late" \notin Gaps
    PROVE  Spec => []NoSelfConflict
<1>1. SoloInv => NoSelfConflict
  <2> SUFFICES ASSUME SoloInv, NEW c \in Clients, tab[c].conflict, ~(outside > 0),
                      ~\E e \in DOMAIN edit : edit[e].by # c
               PROVE  FALSE
    BY DEF NoSelfConflict
  <2>1. Alone(c)
    BY DEF Alone, SoloInv
  <2> QED
    BY <2>1 DEF SoloInv, Solo, SoloTab, SoloSession
<1>2. Init => SoloInv
  BY SoloInit
<1>3. Inv /\ Inv' /\ SoloInv /\ [Next]_vars => SoloInv'
  BY SoloNext
<1> QED
  BY <1>1, <1>2, <1>3, Invariant, PTL DEF Spec

=============================================================================
