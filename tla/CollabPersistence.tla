-------------------------- MODULE CollabPersistence --------------------------
(***************************************************************************)
(* A rich text document while it is edited: the Yjs document that the      *)
(* collaboration server holds in memory, its persistence                   *)
(* (server/collaboration/PersistenceExtension.ts and server/commands/      *)
(* documentCollaborativeUpdater.ts), and updates of the same document by   *)
(* the API (server/commands/documentUpdater.ts), of which the server is    *)
(* told through Redis (server/collaboration/APIUpdateExtension.ts).        *)
(*                                                                         *)
(* A Yjs document, like the content rendered from it, is the set of edits  *)
(* it contains.  What takes the row lock commits in the step that obtains  *)
(* it.  When Hocuspocus (external) loads, stores and unloads a document is *)
(* modelled from the hooks: a store is due a while after a change and      *)
(* after the last connection has closed, and a document that has no        *)
(* connection when a store is over is unloaded.  One server is modelled;   *)
(* the conversion of a document to a spreadsheet is left out.              *)
(***************************************************************************)
EXTENDS Integers, FiniteSets

CONSTANTS
    MaxEdits,       \* bound: edits made
    MaxLoads,       \* bound: how often the document is loaded into memory
    MaxClients,     \* bound: connections at a time
    MaxFaults,      \* bound: stores that fail
    MaxFailures,    \* maxPersistFailures
    Requests,       \* API requests under way at a time
    Stores          \* calls of onStoreDocument under way at a time

ASSUME BoundsAssumption ==
    /\ MaxEdits \in Nat /\ MaxLoads \in Nat /\ MaxClients \in Nat /\ MaxFaults \in Nat
    /\ MaxFailures \in Nat \ {0}

VARIABLES
    row,            \* the document's row
    doc,            \* the document in memory: which load it is, who is connected
    ydoc,           \* the content of the Yjs document of each load
    known,          \* APIUpdateExtension.documents has it
    unsaved,        \* unsavedDocumentNames has it
    failures,       \* persistFailureCounts
    due,            \* the load whose store is due, 0 if none
    store,          \* the load that each call of onStoreDocument writes, 0 if none
    request,        \* what the API requests under way have read
    notices,        \* notifications on their way to the server
    fetched,        \* states that were read for a notification
    session, api,   \* history: the edits made in the editor, committed by the API
    dropped,        \* history: edits whose store was given up
    lost,           \* history: edits that each of the coincidences below has put at risk
    faults

persistence == <<unsaved, failures, due, store>>
updates == <<request, notices, fetched>>
history == <<session, api, dropped, lost, faults>>
vars == <<row, doc, ydoc, known, persistence, updates, history>>

Edits == 1..MaxEdits
Loads == 1..MaxLoads

\* created: the state column is not null.
Row == [created : BOOLEAN, state : SUBSET Edits, content : SUBSET Edits, revision : Nat]
Fresh == [created |-> FALSE, state |-> {}, content |-> {}, revision |-> 0]
\* How an edit can miss the row or the memory: the API replaces the text while the state
\* is created, the notification finds nobody registered, a store overtakes it, or the
\* document is unloaded although a store has failed or still runs.
Coincidences == {"create", "deaf", "store", "unload"}
Reading == [underway : BOOLEAN, row : Row]
NoRequest == [underway |-> FALSE, row |-> Fresh]

Init ==
    /\ row = Fresh
    /\ doc = [phase |-> "none", load |-> 0, clients |-> 0]
    /\ ydoc = [l \in Loads |-> {}] /\ known = FALSE
    /\ unsaved = FALSE /\ failures = 0 /\ due = 0 /\ store = [s \in Stores |-> 0]
    /\ request = [q \in Requests |-> NoRequest]
    /\ notices = 0 /\ fetched = {}
    /\ session = {} /\ api = {} /\ dropped = {} /\ faults = 0
    /\ lost = [how \in Coincidences |-> {}]

NextEdit == Cardinality(session \cup api) + 1

Told == notices = 0 /\ fetched = {}
Loaded == doc.phase \in {"loaded", "live"}
Live(load) == doc.phase = "live" /\ doc.load = load
Loses(how, edits) == lost' = [lost EXCEPT ![how] = @ \cup edits]
Lost == UNION {lost[how] : how \in Coincidences}

-----------------------------------------------------------------------------
(* Hocuspocus and the hooks of the extensions.                             *)

Connect ==
    /\ doc.clients < MaxClients
    /\ \/ /\ doc.phase = "none" /\ doc.load < MaxLoads
          /\ doc' = [phase |-> "loading", load |-> doc.load + 1, clients |-> 1]
       \/ /\ doc.phase = "live"
          /\ doc' = [doc EXCEPT !.clients = @ + 1]
    /\ UNCHANGED <<row, ydoc, known, persistence, updates, history>>

\* onLoadDocument, without a lock.
LoadState ==
    /\ doc.phase = "loading"
    /\ IF row.created
       THEN /\ ydoc' = [ydoc EXCEPT ![doc.load] = row.state]
            /\ doc' = [doc EXCEPT !.phase = "loaded"]
       ELSE /\ doc' = [doc EXCEPT !.phase = "creating"]
            /\ UNCHANGED ydoc
    /\ UNCHANGED <<row, known, persistence, updates, history>>

\* onLoadDocument, under the lock: the revision stays as it is.
CreateState ==
    /\ doc.phase = "creating"
    /\ row' = IF row.created THEN row
              ELSE [row EXCEPT !.created = TRUE, !.state = row.content]
    /\ ydoc' = [ydoc EXCEPT ![doc.load] = row'.state]
    /\ doc' = [doc EXCEPT !.phase = "loaded"]
    /\ UNCHANGED <<known, persistence, updates, history>>

\* afterLoadDocument of both extensions.
AfterLoad ==
    /\ doc.phase = "loaded"
    /\ doc' = [doc EXCEPT !.phase = "live"]
    /\ known' = TRUE
    /\ UNCHANGED <<row, ydoc, persistence, updates, history>>

\* A change of the Yjs document in memory, whoever makes it.
Changed(content) ==
    /\ ydoc' = [ydoc EXCEPT ![doc.load] = content]
    /\ unsaved' = TRUE
    /\ due' = doc.load
    /\ UNCHANGED <<failures, store>>

Edit ==
    /\ doc.phase = "live" /\ doc.clients > 0 /\ NextEdit \in Edits
    /\ Changed(ydoc[doc.load] \cup {NextEdit})
    /\ session' = session \cup {NextEdit}
    /\ UNCHANGED <<row, doc, known, updates, api, dropped, lost, faults>>

\* Mutant: the last store waits for the timer of the last change, if there is one.
DisconnectUnstored ==
    /\ doc.phase = "live" /\ doc.clients > 0
    /\ doc' = [doc EXCEPT !.clients = @ - 1]
    /\ known' = (known /\ doc.clients > 1)
    /\ UNCHANGED <<row, ydoc, persistence, updates, history>>

\* onDisconnect: the last one forgets the document and has it stored.
Disconnect ==
    /\ doc.phase = "live" /\ doc.clients > 0
    /\ doc' = [doc EXCEPT !.clients = @ - 1]
    /\ IF doc.clients = 1
       THEN known' = FALSE /\ due' = doc.load
       ELSE UNCHANGED <<known, due>>
    /\ UNCHANGED <<row, ydoc, unsaved, failures, store, updates, history>>

\* A document that nobody is connected to is unloaded once it is stored.
Unloads(load) == Live(load) /\ doc.clients = 0
Unload(load) == doc' = IF Unloads(load) THEN [doc EXCEPT !.phase = "none"] ELSE doc

-----------------------------------------------------------------------------
(* onStoreDocument.                                                        *)

\* The flag is cleared first, so that a later change has another store scheduled.
BeginStore(s) ==
    /\ due # 0 /\ store[s] = 0
    /\ due' = 0 /\ unsaved' = FALSE
    /\ IF unsaved
       THEN /\ store' = [store EXCEPT ![s] = due] /\ UNCHANGED <<doc, lost>>
       ELSE /\ Unload(due) /\ UNCHANGED store
            /\ Loses("unload", IF Unloads(due) /\ \E r \in Stores : store[r] = due
                               THEN ydoc[due] \ row.state ELSE {})
    /\ UNCHANGED <<row, ydoc, known, failures, updates, session, api, dropped, faults>>

\* documentCollaborativeUpdater: the state is encoded once the row is locked.
CommitStore(s) ==
    /\ store[s] # 0
    /\ LET content == ydoc[store[s]]
       IN  /\ row' = IF content = row.content THEN row
                     ELSE [created |-> TRUE, state |-> content, content |-> content,
                           revision |-> row.revision + 1]
           /\ IF Live(store[s])
              THEN Loses("store", IF Told THEN {} ELSE row.content \ content)
              ELSE Loses("unload", row.content \ content)
    /\ failures' = 0
    /\ store' = [store EXCEPT ![s] = 0]
    /\ Unload(store[s])
    /\ UNCHANGED <<ydoc, known, unsaved, due, updates, session, api, dropped, faults>>

\* Mutant: a store that failed is not tried again.
StoreFailsUnflagged(s) ==
    /\ store[s] # 0 /\ faults < MaxFaults
    /\ faults' = faults + 1
    /\ failures' = 0
    /\ store' = [store EXCEPT ![s] = 0]
    /\ Unload(store[s])
    /\ Loses("unload", IF Unloads(store[s]) THEN ydoc[store[s]] \ row.state ELSE {})
    /\ UNCHANGED <<row, ydoc, known, unsaved, due, updates, session, api, dropped>>

\* The flag is restored for a later store, until the failures are too many.
StoreFails(s) ==
    /\ store[s] # 0 /\ faults < MaxFaults
    /\ faults' = faults + 1
    /\ IF failures + 1 >= MaxFailures
       THEN /\ failures' = 0
            /\ dropped' = dropped \cup (ydoc[store[s]] \ row.state)
            /\ UNCHANGED unsaved
       ELSE /\ failures' = failures + 1
            /\ unsaved' = TRUE
            /\ UNCHANGED dropped
    /\ store' = [store EXCEPT ![s] = 0]
    /\ Unload(store[s])
    /\ Loses("unload", IF Unloads(store[s]) THEN ydoc[store[s]] \ row.state ELSE {})
    /\ UNCHANGED <<row, ydoc, known, due, updates, session, api>>

-----------------------------------------------------------------------------
(* An update by the API.                                                   *)

\* documents.update reads the document before its row is locked.
ReadRequest(q) ==
    /\ ~request[q].underway /\ NextEdit \in Edits
    /\ request' = [request EXCEPT ![q] = [underway |-> TRUE, row |-> row]]
    /\ UNCHANGED <<row, doc, ydoc, known, persistence, notices, fetched, history>>

\* Mutant: the document is not read again under the lock.
BaseUnrefreshed(q) == request[q].row

\* documentUpdater, under the lock: it is read again if its revision has changed.
Base(q) == IF request[q].row.revision # row.revision THEN row ELSE request[q].row

\* The text is replaced by the difference; the state too, if there was one to read.
CommitRequest(q) ==
    /\ request[q].underway
    /\ LET edit == {NextEdit} \cap Edits
           base == Base(q)
       IN  /\ edit # {}
           /\ row' = [row EXCEPT !.content = base.content \cup edit,
                                 !.state = IF base.created THEN base.state \cup edit ELSE @,
                                 !.revision = @ + 1]
           /\ notices' = IF base.created THEN notices + 1 ELSE notices
           /\ api' = api \cup edit
           /\ Loses("create", IF row.created /\ ~base.created THEN edit ELSE {})
    /\ request' = [request EXCEPT ![q] = NoRequest]
    /\ UNCHANGED <<doc, ydoc, known, persistence, fetched, session, dropped, faults>>

\* handleMessage: a notification of a document that is not registered is ignored.
HandleMessage ==
    /\ notices > 0
    /\ notices' = notices - 1
    /\ IF known
       THEN /\ fetched' = fetched \cup {<<doc.load, row.state>>} /\ UNCHANGED lost
       ELSE /\ Loses("deaf", IF Loaded THEN row.state \ ydoc[doc.load] ELSE {})
            /\ UNCHANGED fetched
    /\ UNCHANGED <<row, doc, ydoc, known, persistence, request, session, api, dropped, faults>>

\* Mutant: changes that are not stored yet keep the update out.
ApplyUpdateUnlessUnsaved ==
    \E update \in fetched :
        /\ fetched' = fetched \ {update}
        /\ IF doc.phase = "live" /\ update[1] = doc.load /\ ~unsaved
           THEN Changed(ydoc[doc.load] \cup update[2])
           ELSE UNCHANGED <<ydoc, persistence>>
        /\ UNCHANGED <<row, doc, known, request, notices, history>>

\* The state read for it is merged into the document in memory; an unloaded document
\* is destroyed, and nobody listens to it.
ApplyUpdate ==
    \E update \in fetched :
        /\ fetched' = fetched \ {update}
        /\ IF doc.phase = "live" /\ update[1] = doc.load /\ ~(update[2] \subseteq ydoc[doc.load])
           THEN Changed(ydoc[doc.load] \cup update[2])
           ELSE UNCHANGED <<ydoc, persistence>>
        /\ UNCHANGED <<row, doc, known, request, notices, history>>

-----------------------------------------------------------------------------
FinishStore(s) == CommitStore(s) \/ StoreFails(s)
Persist == \E s \in Stores : BeginStore(s) \/ FinishStore(s)

Next ==
    \/ Connect \/ LoadState \/ CreateState \/ AfterLoad \/ Edit \/ Disconnect
    \/ Persist
    \/ \E q \in Requests : ReadRequest(q) \/ CommitRequest(q)
    \/ HandleMessage \/ ApplyUpdate

Spec == Init /\ [][Next]_vars

\* Hooks are awaited, a store comes 3 s after a change (10 s at the latest), its lock
\* request times out after 15 s, and the server handles the messages it receives.
Fairness ==
    /\ WF_vars(LoadState) /\ WF_vars(CreateState) /\ WF_vars(AfterLoad)
    /\ WF_vars(HandleMessage) /\ WF_vars(ApplyUpdate)
    /\ WF_vars(\E s \in Stores : BeginStore(s)) /\ \A s \in Stores : WF_vars(FinishStore(s))
    /\ \A q \in Requests : WF_vars(CommitRequest(q))
FairSpec == Spec /\ Fairness

-----------------------------------------------------------------------------
(* Properties.                                                             *)

TypeOK ==
    /\ row \in Row
    /\ doc \in [phase : {"none", "loading", "creating", "loaded", "live"},
                load : 0..MaxLoads, clients : 0..MaxClients]
    /\ ydoc \in [Loads -> SUBSET Edits]
    /\ known \in BOOLEAN /\ unsaved \in BOOLEAN
    /\ failures \in 0..(MaxFailures - 1) /\ due \in 0..MaxLoads
    /\ store \in [Stores -> 0..MaxLoads]
    /\ request \in [Requests -> Reading]
    /\ notices \in 0..MaxEdits /\ fetched \subseteq Loads \X SUBSET Edits
    /\ session \subseteq Edits /\ api \subseteq Edits /\ dropped \subseteq Edits
    /\ lost \in [Coincidences -> SUBSET Edits]
    /\ faults \in 0..MaxFaults

\* "Syncs them to the collaborative editing state held in memory": once every
\* notification has been handled, an open document contains what the API committed,
\* except for what one of the coincidences kept from it.
ApiEditsAreSynced ==
    doc.phase = "live" /\ doc.clients > 0 /\ Told => api \subseteq ydoc[doc.load] \cup Lost

\* As above, without an exception for a store that overtakes the notification: that is
\* an ordinary interleaving, with the editor open and registered all along.
StoresKeepApiEdits ==
    doc.phase = "live" /\ doc.clients > 0 /\ Told =>
        api \subseteq ydoc[doc.load] \cup lost["create"] \cup lost["deaf"] \cup lost["unload"]

\* What the API has committed stays, except for what a coincidence has put at risk: no
\* other request that has read an older revision removes it, nor does a store of a
\* document in memory that has been told of it.
NoApiEditLost == api \subseteq row.content \cup Lost

\* What was typed is stored or in memory, except for what was given up after repeated
\* failures or put at risk as the document was unloaded: whatever stores fail and are
\* tried again, whenever the last editor leaves and comes back, and although the API
\* replaces the text.
NoSessionEditLost ==
    session \subseteq row.state \cup dropped \cup lost["unload"]
        \cup (IF doc.phase = "live" THEN ydoc[doc.load] ELSE {})

\* What was typed is stored, given up or at risk in the end; only a store that failed
\* leaves it unstored, flagged with nothing due, and only while somebody is connected.
EditsAreStored ==
    \A e \in Edits :
        e \in session ~> \/ e \in row.state \cup dropped \cup lost["unload"]
                         \/ unsaved /\ due = 0 /\ doc.clients > 0
=============================================================================
