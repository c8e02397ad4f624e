----------------------- MODULE CollabPersistenceProofs -----------------------
(* Proofs about CollabPersistence, for any bounds, requests and stores.  No   *)
(* interleaving is left out: what a coincidence has put at risk is recorded   *)
(* as it happens, and everything else is shown to be kept.                    *)
EXTENDS CollabPersistence, FiniteSetTheorems, TLAPS

-----------------------------------------------------------------------------
(* The inductive invariant, in three layers.                                *)

Types ==
    /\ row \in Row
    /\ doc \in [phase : {"none", "loading", "creating", "loaded", "live"},
                load : 0..MaxLoads, clients : Nat]
    /\ doc.phase # "none" => doc.load \in Loads
    /\ ydoc \in [Loads -> SUBSET Edits]
    /\ due \in 0..MaxLoads /\ store \in [Stores -> 0..MaxLoads]
    /\ request \in [Requests -> Reading]
    /\ notices \in Nat /\ fetched \subseteq (0..MaxLoads) \X SUBSET Edits
    /\ session \subseteq Edits /\ api \subseteq Edits
    /\ lost \in [Coincidences -> SUBSET Edits]

\* A request that has read the current revision has read the current row, unless the
\* state was created since, which leaves the revision as it is.
Readings ==
    \A q \in Requests : request[q].underway =>
        /\ request[q].row.revision <= row.revision
        /\ request[q].row.revision = row.revision =>
            \/ request[q].row = row
            \/ ~request[q].row.created /\ request[q].row.content = row.content

\* The rendered content is that of the state, but for what was committed as text alone.
Rendered ==
    /\ ~row.created => row.state = {} /\ row.content \subseteq api
    /\ row.created => /\ row.state \subseteq row.content
                      /\ row.content \subseteq row.state \cup lost["create"]

Opened == Loaded => row.created

\* Layer 1: what the lock and the revision are for.
RowInv == Types /\ Readings /\ Rendered /\ Opened

\* What was read for a notification belongs to this load or to an earlier one.
Hearing ==
    /\ known => doc.phase = "live" /\ doc.clients > 0
    /\ doc.phase \in {"loading", "creating", "loaded"} => doc.clients > 0
    /\ \A update \in fetched :
        /\ update[1] <= doc.load
        /\ doc.phase \in {"loading", "creating", "loaded"} => update[1] # doc.load

Fetched == UNION {update[2] : update \in {update \in fetched : update[1] = doc.load}}
Synced == Loaded /\ notices = 0 => api \subseteq ydoc[doc.load] \cup Fetched \cup Lost

\* Layer 2: the edits of the API.
ApiInv == Hearing /\ Synced /\ NoApiEditLost

\* Edits are numbered, and made either in the editor or by the API.
Numbered == \E n \in Nat : session \cup api = 1..n
Apart == session \cap api = {} /\ lost["create"] \subseteq api

\* A store is of the document in memory or of an earlier load.
Storing ==
    /\ due <= doc.load /\ \A s \in Stores : store[s] <= doc.load
    /\ doc.phase \in {"loading", "creating", "loaded"} =>
        due # doc.load /\ \A s \in Stores : store[s] # doc.load
    /\ due \notin {0, doc.load} => \A s \in Stores : store[s] # doc.load

\* What of a set of edits neither was given up nor was at risk as a document was unloaded.
Owed(edits) == (edits \cap session) \ (dropped \cup lost["unload"])

\* What is stored is in memory; what is in memory is stored or will be, by a store that
\* runs or by one that will find the flag.
Kept == Loaded => Owed(row.state) \subseteq ydoc[doc.load]
Flagged ==
    Loaded /\ (~unsaved \/ due \notin {0, doc.load}) /\ (\A s \in Stores : store[s] # doc.load)
        => Owed(ydoc[doc.load]) \subseteq row.state
\* A store of an earlier load brings back nothing that is not in memory, or in the row
\* from which the document will be loaded.
Behind ==
    \A l \in Loads :
        /\ l = due \/ \E s \in Stores : store[s] = l
        /\ ~Live(l)
        => Owed(ydoc[l]) \subseteq IF Loaded THEN ydoc[doc.load] ELSE row.state
InMemory == Owed(session) \subseteq row.state \cup (IF doc.phase = "live" THEN ydoc[doc.load] ELSE {})

\* Layer 3: the edits of the session.
SessionInv == Numbered /\ Apart /\ Storing /\ Kept /\ Flagged /\ Behind /\ InMemory

-----------------------------------------------------------------------------
(* The coincidences and what they put at risk.                              *)

LEMMA LosesMore ==
    ASSUME Types, NEW how \in Coincidences, NEW edits \in SUBSET Edits, Loses(how, edits)
    PROVE  /\ lost' \in [Coincidences -> SUBSET Edits]
           /\ lost'[how] = lost[how] \cup edits
           /\ \A h \in Coincidences \ {how} : lost'[h] = lost[h]
           /\ Lost' = Lost \cup edits
<1>1. lost \in [Coincidences -> SUBSET Edits]
  BY DEF Types
<1>2. lost' = [lost EXCEPT ![how] = lost[how] \cup edits]
  BY DEF Loses
<1>3. /\ lost' \in [Coincidences -> SUBSET Edits]
      /\ lost'[how] = lost[how] \cup edits
      /\ \A h \in Coincidences \ {how} : lost'[h] = lost[h]
  BY <1>1, <1>2
<1>4. Lost' = UNION {lost'[h] : h \in Coincidences}
  BY DEF Lost
<1>5. Lost' = Lost \cup edits
  BY <1>3, <1>4 DEF Lost
<1> QED
  BY <1>3, <1>5

LEMMA Ways == /\ Coincidences = {"create", "deaf", "store", "unload"}
              /\ \A how \in Coincidences : lost[how] \subseteq Lost
  BY DEF Coincidences, Lost

-----------------------------------------------------------------------------
(* Layer 1: the row.                                                        *)

\* A request that commits does so upon the current row, whatever it has read, except that
\* it may know nothing of a state that was created since.
LEMMA CommitUponRow ==
    ASSUME RowInv, NEW q \in Requests, CommitRequest(q)
    PROVE  /\ NextEdit \in Edits /\ row' \in Row
           /\ row'.created = row.created
           /\ row'.content = row.content \cup {NextEdit}
           /\ row'.revision = row.revision + 1
           /\ \/ /\ row.created /\ row'.state = row.state \cup {NextEdit}
                 /\ notices' = notices + 1 /\ Loses("create", {})
              \/ /\ ~row.created /\ row'.state = row.state
                 /\ notices' = notices /\ Loses("create", {})
              \/ /\ row.created /\ row'.state = row.state
                 /\ notices' = notices /\ Loses("create", {NextEdit})
           /\ api' = api \cup {NextEdit}
           /\ request' = [request EXCEPT ![q] = NoRequest]
           /\ UNCHANGED <<doc, ydoc, known, persistence, fetched, session, dropped, faults>>
<1> DEFINE base == Base(q)
<1>1. request[q].underway /\ {NextEdit} \cap Edits # {}
  BY DEF CommitRequest
<1>2. NextEdit \in Edits /\ {NextEdit} \cap Edits = {NextEdit}
  BY <1>1
<1>3. base = row \/ (~base.created /\ base.content = row.content)
  BY <1>1 DEF Base, RowInv, Readings
<1>4. row \in Row /\ request[q].row \in Row /\ base \in Row
  BY DEF RowInv, Types, Reading, Base
<1> HIDE DEF NextEdit, base
<1>5. /\ row' = [row EXCEPT !.content = base.content \cup {NextEdit},
                            !.state = IF base.created THEN base.state \cup {NextEdit} ELSE @,
                            !.revision = @ + 1]
      /\ notices' = IF base.created THEN notices + 1 ELSE notices
      /\ api' = api \cup {NextEdit}
      /\ Loses("create", IF row.created /\ ~base.created THEN {NextEdit} ELSE {})
      /\ request' = [request EXCEPT ![q] = NoRequest]
      /\ UNCHANGED <<doc, ydoc, known, persistence, fetched, session, dropped, faults>>
  BY <1>2 DEF CommitRequest, base
<1>6. /\ row'.content = row.content \cup {NextEdit} /\ row'.revision = row.revision + 1
      /\ row'.state = IF base.created THEN row.state \cup {NextEdit} ELSE row.state
  <2>1. /\ row'.content = base.content \cup {NextEdit} /\ row'.revision = row.revision + 1
        /\ row'.state = IF base.created THEN base.state \cup {NextEdit} ELSE row.state
    BY <1>4, <1>5 DEF Row
  <2> QED
    BY <1>3, <2>1
<1>7. row'.created = row.created
  BY <1>4, <1>5, Zenon DEF Row
<1>8. row' \in Row
  <2> DEFINE content == base.content \cup {NextEdit}
             state == IF base.created THEN base.state \cup {NextEdit} ELSE row.state
  <2>1. content \in SUBSET Edits /\ state \in SUBSET Edits
    BY <1>2, <1>4 DEF Row
  <2>2. row' = [row EXCEPT !.content = content, !.state = state, !.revision = @ + 1]
    BY <1>5
  <2>3. row.revision + 1 \in Nat
    BY <1>4 DEF Row
  <2> HIDE DEF content, state
  <2> QED
    BY <1>4, <2>1, <2>2, <2>3, Zenon DEF Row
<1>9. base.created => row.created
  BY <1>3
<1> QED
  BY <1>2, <1>5, <1>6, <1>7, <1>8, <1>9

\* A store writes one set of edits as both, or finds the row as it would write it.
LEMMA StoreRow ==
    ASSUME RowInv, NEW s \in Stores, CommitStore(s)
    PROVE  /\ store[s] \in Loads /\ ydoc[store[s]] \in SUBSET Edits /\ row' \in Row
           /\ \/ row' = row /\ row.content = ydoc[store[s]]
              \/ /\ row'.created /\ row'.revision = row.revision + 1
                 /\ row'.state = ydoc[store[s]] /\ row'.content = ydoc[store[s]]
<1>1. store[s] \in Loads
  BY BoundsAssumption DEF CommitStore, RowInv, Types, Loads
<1>2. ydoc[store[s]] \in SUBSET Edits /\ row \in Row
  BY <1>1 DEF RowInv, Types
<1>3. row' = IF ydoc[store[s]] = row.content THEN row
             ELSE [created |-> TRUE, state |-> ydoc[store[s]], content |-> ydoc[store[s]],
                   revision |-> row.revision + 1]
  BY DEF CommitStore
<1> QED
  BY <1>1, <1>2, <1>3 DEF Row

LEMMA CreateRow ==
    ASSUME RowInv, CreateState
    PROVE  /\ row' \in Row /\ row'.created
           /\ row'.content = row.content /\ row'.revision = row.revision
           /\ row'.state = IF row.created THEN row.state ELSE row.content
           /\ row' = row \/ ~row.created
           /\ row.state \subseteq row'.state
           /\ doc.load \in Loads /\ ydoc' = [ydoc EXCEPT ![doc.load] = row'.state]
  BY DEF CreateState, RowInv, Types, Row, Rendered

\* The steps that leave the row and the requests alone.
Editing ==
    \/ Connect \/ LoadState \/ AfterLoad \/ Edit \/ Disconnect \/ HandleMessage
    \/ ApplyUpdate \/ \E s \in Stores : BeginStore(s) \/ StoreFails(s)

LEMMA EditingRow == Editing => UNCHANGED <<row, request>>
  BY DEF Editing, Connect, LoadState, AfterLoad, Edit, Disconnect, HandleMessage, ApplyUpdate,
         BeginStore, StoreFails, persistence, updates, history

\* Unloading keeps the types of the document.
LEMMA UnloadDoc ==
    ASSUME Types, NEW load, Unload(load)
    PROVE  /\ doc' \in [phase : {"none", "loading", "creating", "loaded", "live"},
                        load : 0..MaxLoads, clients : Nat]
           /\ doc'.load = doc.load /\ doc'.clients = doc.clients
           /\ \/ Unloads(load) /\ doc'.phase = "none"
              \/ ~Unloads(load) /\ doc' = doc
           /\ doc'.phase \in {"none", doc.phase}
  BY DEF Types, Unload, Unloads, Live

\* What the steps that add to the history put at risk is a set of edits.
LEMMA EditingLoses ==
    ASSUME Types, Editing
    PROVE  /\ lost' \in [Coincidences -> SUBSET Edits]
           /\ \A how \in Coincidences : lost[how] \subseteq lost'[how]
           /\ lost'["create"] = lost["create"]
           /\ Lost \subseteq Lost'
<1>1. \/ lost' = lost
      \/ \E edits \in SUBSET Edits : Loses("unload", edits) \/ Loses("deaf", edits)
  <2>1. CASE Connect \/ LoadState \/ AfterLoad \/ Edit \/ Disconnect \/ ApplyUpdate
    BY <2>1 DEF Connect, LoadState, AfterLoad, Edit, Disconnect, ApplyUpdate, history
  <2>2. CASE HandleMessage
    <3>1. (IF Loaded THEN row.state \ ydoc[doc.load] ELSE {}) \in SUBSET Edits
      BY DEF Types, Row
    <3> QED
      BY <2>2, <3>1 DEF HandleMessage
  <2>3. ASSUME NEW s \in Stores, BeginStore(s)
        PROVE  lost' = lost \/ \E edits \in SUBSET Edits : Loses("unload", edits)
    <3>1. due \in Loads
      BY <2>3, BoundsAssumption DEF BeginStore, Types, Loads
    <3>2. (IF Unloads(due) /\ \E r \in Stores : store[r] = due
           THEN ydoc[due] \ row.state ELSE {}) \in SUBSET Edits
      BY <3>1 DEF Types
    <3> QED
      BY <2>3, <3>2 DEF BeginStore
  <2>4. ASSUME NEW s \in Stores, StoreFails(s)
        PROVE  \E edits \in SUBSET Edits : Loses("unload", edits)
    <3>1. store[s] \in Loads
      BY <2>4, BoundsAssumption DEF StoreFails, Types, Loads
    <3>2. (IF Unloads(store[s]) THEN ydoc[store[s]] \ row.state ELSE {}) \in SUBSET Edits
      BY <3>1 DEF Types
    <3> QED
      BY <2>4, <3>2 DEF StoreFails
  <2> QED
    BY <2>1, <2>2, <2>3, <2>4 DEF Editing
<1>2. CASE lost' = lost
  BY <1>2 DEF Types, Lost
<1>3. ASSUME NEW edits \in SUBSET Edits, Loses("unload", edits) \/ Loses("deaf", edits)
      PROVE  /\ lost' \in [Coincidences -> SUBSET Edits]
             /\ \A how \in Coincidences : lost[how] \subseteq lost'[how]
             /\ lost'["create"] = lost["create"]
             /\ Lost \subseteq Lost'
  <2>1. CASE Loses("unload", edits)
    BY <2>1, LosesMore, Ways
  <2>2. CASE Loses("deaf", edits)
    BY <2>2, LosesMore, Ways
  <2> QED
    BY <1>3, <2>1, <2>2
<1> QED
  BY <1>1, <1>2, <1>3

LEMMA EditingTypes == Types /\ Editing => Types'
<1> SUFFICES ASSUME Types, Editing PROVE Types'
  OBVIOUS
<1> USE BoundsAssumption
<1> USE DEF Loads
<1>0. lost' \in [Coincidences -> SUBSET Edits]
  BY EditingLoses
<1>d. doc \in [phase : {"none", "loading", "creating", "loaded", "live"},
              load : 0..MaxLoads, clients : Nat]
  BY DEF Types
<1>1. CASE Connect
  <2>1. /\ doc' \in [phase : {"none", "loading", "creating", "loaded", "live"},
                    load : 0..MaxLoads, clients : Nat]
        /\ doc'.load \in Loads
    <3>1. CASE doc.phase = "none"
      <4>1. doc.load + 1 \in 1..MaxLoads
        BY <1>d, <1>1, <3>1 DEF Connect
      <4> QED
        BY <1>1, <3>1, <4>1 DEF Connect
    <3>2. CASE doc.phase # "none"
      <4>1. doc' = [doc EXCEPT !.clients = @ + 1] /\ doc.load \in Loads
        BY <1>1, <3>2 DEF Connect, Types
      <4> QED
        BY <1>d, <4>1
    <3> QED
      BY <3>1, <3>2
  <2> QED
    BY <1>0, <1>1, <2>1 DEF Connect, Types, persistence, updates, history
<1>2. CASE LoadState
  BY <1>0, <1>2 DEF LoadState, Types, Row, persistence, updates, history
<1>3. CASE AfterLoad
  BY <1>0, <1>3 DEF AfterLoad, Types, persistence, updates, history
<1>4. CASE Edit
  <2>1. NextEdit \in Edits
    BY <1>4 DEF Edit
  <2> HIDE DEF NextEdit
  <2> QED
    BY <1>0, <1>4, <2>1 DEF Edit, Changed, Types, updates, history
<1>5. CASE Disconnect
  <2>1. /\ doc' = [doc EXCEPT !.clients = doc.clients - 1] /\ doc.clients > 0
        /\ \/ known' = FALSE /\ due' = doc.load
           \/ known' = known /\ due' = due
        /\ UNCHANGED <<row, ydoc, unsaved, store, request, notices, fetched, session, api>>
    BY <1>5 DEF Disconnect, updates, history
  <2>2. /\ doc' \in [phase : {"none", "loading", "creating", "loaded", "live"},
                    load : 0..MaxLoads, clients : Nat]
        /\ doc'.phase = doc.phase /\ doc'.load = doc.load
    BY <1>d, <2>1
  <2> QED
    BY <1>0, <2>1, <2>2 DEF Types
<1>6. CASE HandleMessage
  <2>1. <<doc.load, row.state>> \in (0..MaxLoads) \X SUBSET Edits
    BY DEF Types, Row
  <2>2. fetched' \subseteq (0..MaxLoads) \X SUBSET Edits
    BY <1>6, <2>1 DEF HandleMessage, Types
  <2>3. /\ notices' \in Nat
        /\ UNCHANGED <<row, doc, ydoc, known, unsaved, due, store, request, session, api>>
    BY <1>6 DEF HandleMessage, Types, persistence
  <2> QED
    BY <1>0, <2>2, <2>3 DEF Types
<1>7. CASE ApplyUpdate
  <2>1. PICK update \in fetched :
          /\ fetched' = fetched \ {update}
          /\ \/ /\ doc.phase = "live"
                /\ ydoc' = [ydoc EXCEPT ![doc.load] = ydoc[doc.load] \cup update[2]]
                /\ unsaved' = TRUE /\ due' = doc.load /\ store' = store
             \/ UNCHANGED <<ydoc, unsaved, due, store>>
          /\ UNCHANGED <<row, doc, known, request, notices, session, api>>
    BY <1>7 DEF ApplyUpdate, Changed, persistence, history
  <2>2. update[2] \in SUBSET Edits
    BY DEF Types
  <2>3. ydoc' \in [Loads -> SUBSET Edits]
    BY <2>1, <2>2 DEF Types
  <2>4. due' \in 0..MaxLoads /\ fetched' \subseteq fetched
    BY <2>1 DEF Types
  <2> QED
    BY <1>0, <2>1, <2>3, <2>4 DEF Types
<1>8. ASSUME NEW s \in Stores, BeginStore(s) PROVE Types'
  <2>1. /\ due' = 0
        /\ store' = store \/ store' = [store EXCEPT ![s] = due]
        /\ doc' = doc \/ Unload(due)
        /\ UNCHANGED <<row, ydoc, known, request, notices, fetched, session, api>>
    BY <1>8 DEF BeginStore, updates
  <2>2. store' \in [Stores -> 0..MaxLoads] /\ due' \in 0..MaxLoads
    <3>1. due \in 0..MaxLoads /\ store \in [Stores -> 0..MaxLoads]
      BY DEF Types
    <3>2. 0 \in 0..MaxLoads
      BY BoundsAssumption
    <3>3. store' \in [Stores -> 0..MaxLoads]
      BY <2>1, <3>1
    <3> QED BY <2>1, <3>2, <3>3
  <2>3. /\ doc' \in [phase : {"none", "loading", "creating", "loaded", "live"},
                    load : 0..MaxLoads, clients : Nat]
        /\ doc'.phase # "none" => doc'.load \in Loads
    BY <1>d, <2>1, UnloadDoc DEF Types
  <2> QED
    BY <1>0, <2>1, <2>2, <2>3 DEF Types
<1>9. ASSUME NEW s \in Stores, StoreFails(s) PROVE Types'
  <2>1. /\ unsaved' = unsaved \/ unsaved' = TRUE
        /\ store' = [store EXCEPT ![s] = 0] /\ Unload(store[s])
        /\ UNCHANGED <<row, ydoc, known, due, request, notices, fetched, session, api>>
    BY <1>9 DEF StoreFails, updates
  <2> QED
    BY <1>0, <2>1, UnloadDoc DEF Types
<1> QED
  BY <1>1, <1>2, <1>3, <1>4, <1>5, <1>6, <1>7, <1>8, <1>9 DEF Editing

\* What a store that is committed puts at risk.
LEMMA CommitLoses ==
    ASSUME RowInv, NEW s \in Stores, CommitStore(s)
    PROVE  /\ lost' \in [Coincidences -> SUBSET Edits]
           /\ \A how \in Coincidences : lost[how] \subseteq lost'[how]
           /\ lost'["create"] = lost["create"]
           /\ Lost \subseteq Lost'
           /\ ~Live(store[s]) => row.content \ ydoc[store[s]] \subseteq lost'["unload"]
           /\ ~Live(store[s]) \/ ~Told => row.content \ ydoc[store[s]] \subseteq Lost'
<1> DEFINE edits == row.content \ ydoc[store[s]]
<1>1. Types /\ edits \in SUBSET Edits
  BY DEF RowInv, Types, Row
<1>2. \/ ~Live(store[s]) /\ Loses("unload", edits)
      \/ Live(store[s]) /\ ~Told /\ Loses("store", edits)
      \/ Live(store[s]) /\ Told /\ Loses("store", {})
  BY DEF CommitStore
<1> HIDE DEF edits
<1>3. CASE ~Live(store[s]) /\ Loses("unload", edits)
  <2>1. /\ lost' \in [Coincidences -> SUBSET Edits]
        /\ lost'["unload"] = lost["unload"] \cup edits
        /\ \A h \in Coincidences \ {"unload"} : lost'[h] = lost[h]
        /\ Lost' = Lost \cup edits
    BY <1>1, <1>3, LosesMore, Ways
  <2> QED
    BY <1>3, <2>1, Ways DEF edits
<1>4. CASE Live(store[s]) /\ ~Told /\ Loses("store", edits)
  <2>1. /\ lost' \in [Coincidences -> SUBSET Edits]
        /\ lost'["store"] = lost["store"] \cup edits
        /\ \A h \in Coincidences \ {"store"} : lost'[h] = lost[h]
        /\ Lost' = Lost \cup edits
    BY <1>1, <1>4, LosesMore, Ways
  <2> QED
    BY <1>4, <2>1, Ways DEF edits
<1>5. CASE Live(store[s]) /\ Told /\ Loses("store", {})
  <2>1. /\ lost' \in [Coincidences -> SUBSET Edits]
        /\ lost'["store"] = lost["store"] \cup {}
        /\ \A h \in Coincidences \ {"store"} : lost'[h] = lost[h]
        /\ Lost' = Lost \cup {}
    BY <1>1, <1>5, LosesMore, Ways
  <2> QED
    BY <1>5, <2>1, Ways
<1> QED
  BY <1>2, <1>3, <1>4, <1>5

\* What an API request that is committed puts at risk.
LEMMA RequestLoses ==
    ASSUME RowInv, NEW q \in Requests, CommitRequest(q)
    PROVE  /\ lost' \in [Coincidences -> SUBSET Edits]
           /\ \A how \in Coincidences : lost[how] \subseteq lost'[how]
           /\ lost'["unload"] = lost["unload"]
           /\ lost'["create"] \subseteq lost["create"] \cup {NextEdit}
           /\ Lost \subseteq Lost'
           /\ Loses("create", {NextEdit}) =>
                NextEdit \in lost'["create"] /\ NextEdit \in Lost'
<1>1. Types /\ NextEdit \in Edits
  BY CommitUponRow DEF RowInv
<1>2. Loses("create", {}) \/ Loses("create", {NextEdit})
  BY CommitUponRow
<1> HIDE DEF NextEdit
<1>3. ASSUME NEW edits \in SUBSET {NextEdit}, Loses("create", edits)
      PROVE  /\ lost' \in [Coincidences -> SUBSET Edits]
             /\ lost'["create"] = lost["create"] \cup edits
             /\ \A h \in Coincidences \ {"create"} : lost'[h] = lost[h]
             /\ Lost' = Lost \cup edits
  <2>1. edits \in SUBSET Edits
    BY <1>1
  <2> QED
    BY <1>1, <1>3, <2>1, LosesMore, Ways
<1>4. CASE Loses("create", {NextEdit})
  BY <1>3, <1>4, Ways
<1>5. CASE Loses("create", {}) /\ ~Loses("create", {NextEdit})
  BY <1>3, <1>5, Ways
<1> QED
  BY <1>2, <1>4, <1>5

LEMMA TypesStep == RowInv /\ [Next]_vars => Types'
<1> SUFFICES ASSUME RowInv, [Next]_vars PROVE Types'
  OBVIOUS
<1>0. Types
  BY DEF RowInv
<1>1. CASE Editing
  BY <1>0, <1>1, EditingTypes
<1>2. CASE CreateState
  <2>1. row'.state \in SUBSET Edits
    BY <1>2, CreateRow DEF Row
  <2> QED
    BY <1>0, <1>2, <2>1, CreateRow DEF CreateState, Types, persistence, updates, history
<1>3. ASSUME NEW s \in Stores, CommitStore(s) PROVE Types'
  <2>1. store' = [store EXCEPT ![s] = 0] /\ Unload(store[s])
    BY <1>3 DEF CommitStore
  <2>2. UNCHANGED <<ydoc, due, request, notices, fetched, session, api>>
    BY <1>3 DEF CommitStore, updates
  <2>3. row' \in Row /\ store' \in [Stores -> 0..MaxLoads]
        /\ lost' \in [Coincidences -> SUBSET Edits]
    BY <1>0, <1>3, <2>1, StoreRow, CommitLoses, BoundsAssumption DEF Types
  <2> QED
    BY <1>0, <2>1, <2>2, <2>3, UnloadDoc DEF Types
<1>4. ASSUME NEW q \in Requests, ReadRequest(q) PROVE Types'
  BY <1>0, <1>4 DEF ReadRequest, Types, Reading, persistence, history
<1>5. ASSUME NEW q \in Requests, CommitRequest(q) PROVE Types'
  <2> HIDE DEF NextEdit
  <2>1. notices' \in Nat /\ api' \subseteq Edits
    BY <1>0, <1>5, CommitUponRow DEF Types
  <2>2. /\ row' \in Row /\ request' = [request EXCEPT ![q] = NoRequest]
        /\ UNCHANGED <<doc, ydoc, due, store, fetched, session>>
    BY <1>5, CommitUponRow DEF persistence
  <2>3. NoRequest \in Reading
    BY DEF NoRequest, Reading, Fresh, Row
  <2>4. request' \in [Requests -> Reading]
    BY <1>0, <2>2, <2>3 DEF Types
  <2>5. lost' \in [Coincidences -> SUBSET Edits]
    BY <1>5, RequestLoses
  <2> QED
    BY <1>0, <2>1, <2>2, <2>4, <2>5 DEF Types
<1>6. CASE UNCHANGED vars
  BY <1>0, <1>6 DEF vars, Types, persistence, updates, history
<1> QED
  BY <1>1, <1>2, <1>3, <1>4, <1>5, <1>6 DEF Next, Persist, FinishStore, Editing

LEMMA ReadingsStep ==
    ASSUME RowInv, [Next]_vars
    PROVE  Readings' /\ Rendered'
<1>0. Types /\ Readings /\ Rendered
  BY DEF RowInv
<1>r. row.revision \in Nat /\ \A q \in Requests : request[q].row.revision \in Nat
  BY <1>0 DEF Types, Row, Reading
<1>1. CASE Editing
  <2>1. UNCHANGED <<row, request>>
    BY <1>1, EditingRow
  <2>2. api' = api
    BY <1>1 DEF Editing, Connect, LoadState, AfterLoad, Edit, Disconnect, HandleMessage,
                ApplyUpdate, BeginStore, StoreFails, history
  <2>3. lost'["create"] = lost["create"]
    BY <1>0, <1>1, EditingLoses
  <2> QED
    BY <1>0, <2>1, <2>2, <2>3 DEF Readings, Rendered
<1>2. CASE CreateState
  <2>1. UNCHANGED <<request, api, lost>>
    BY <1>2 DEF CreateState, updates, history
  <2>2. Readings'
    BY <1>0, <1>2, <2>1, CreateRow DEF Readings
  <2> QED
    BY <1>0, <1>2, <2>1, <2>2, CreateRow DEF Rendered
<1>3. ASSUME NEW s \in Stores, CommitStore(s)
      PROVE  Readings' /\ Rendered'
  <2>1. request' = request /\ api' = api
    BY <1>3 DEF CommitStore, updates
  <2>2. Readings'
    BY <1>0, <1>r, <1>3, <2>1, StoreRow DEF Readings
  <2>3. lost'["create"] = lost["create"]
    BY <1>3, CommitLoses
  <2> QED
    BY <1>0, <1>3, <2>1, <2>2, <2>3, StoreRow DEF Rendered
<1>4. ASSUME NEW q \in Requests, ReadRequest(q)
      PROVE  Readings' /\ Rendered'
  <2>1. row' = row /\ request' = [request EXCEPT ![q] = [underway |-> TRUE, row |-> row]]
    BY <1>4 DEF ReadRequest
  <2>2. Readings'
    BY <1>0, <1>r, <2>1 DEF Readings, Types
  <2>3. UNCHANGED <<api, lost>>
    BY <1>4 DEF ReadRequest, history
  <2> QED
    BY <1>0, <2>1, <2>2, <2>3 DEF Rendered
<1>5. ASSUME NEW q \in Requests, CommitRequest(q)
      PROVE  Readings' /\ Rendered'
  <2> HIDE DEF NextEdit
  <2>1. /\ row'.revision = row.revision + 1
        /\ request' = [request EXCEPT ![q] = NoRequest]
    BY <1>5, CommitUponRow
  <2>2. \A p \in Requests : request'[p].underway => p # q /\ request'[p] = request[p]
    BY <1>0, <2>1 DEF Types, NoRequest
  <2>3. Readings'
    BY <1>0, <1>r, <2>1, <2>2 DEF Readings
  <2>4. /\ row'.created = row.created /\ row'.content = row.content \cup {NextEdit}
        /\ \/ row.created /\ row'.state = row.state \cup {NextEdit}
           \/ ~row.created /\ row'.state = row.state
           \/ row.created /\ row'.state = row.state /\ Loses("create", {NextEdit})
        /\ api' = api \cup {NextEdit}
    BY <1>5, CommitUponRow
  <2>5. /\ lost["create"] \subseteq lost'["create"]
        /\ Loses("create", {NextEdit}) => NextEdit \in lost'["create"]
    BY <1>5, RequestLoses, Ways
  <2> QED
    BY <1>0, <2>3, <2>4, <2>5 DEF Rendered
<1>6. CASE UNCHANGED vars
  BY <1>0, <1>6 DEF vars, updates, history, Readings, Rendered
<1> QED
  BY <1>1, <1>2, <1>3, <1>4, <1>5, <1>6 DEF Next, Persist, FinishStore, Editing

LEMMA OpenedStep ==
    ASSUME RowInv, [Next]_vars
    PROVE  Opened'
<1>0. Types /\ Opened
  BY DEF RowInv
<1>1. row.created => row'.created
  <2>1. CASE Editing \/ UNCHANGED vars
    BY <2>1, EditingRow DEF vars
  <2>2. CASE ~Editing /\ ~UNCHANGED vars
    <3>1. \/ CreateState \/ \E s \in Stores : CommitStore(s)
          \/ \E q \in Requests : ReadRequest(q) \/ CommitRequest(q)
      BY <2>2 DEF Next, Persist, FinishStore, Editing
    <3>2. ASSUME NEW q \in Requests, ReadRequest(q) PROVE row' = row
      BY <3>2 DEF ReadRequest
    <3> QED
      BY <3>1, <3>2, CreateRow, StoreRow, CommitUponRow
  <2> QED
    BY <2>1, <2>2
<1>2. Loaded' => Loaded \/ row'.created
  <2>1. CASE CreateState
    BY <2>1, CreateRow
  <2>2. CASE LoadState
    BY <1>0, <2>2 DEF LoadState, Loaded, Types
  <2>3. CASE Connect
    BY <1>0, <2>3 DEF Connect, Loaded, Types
  <2>4. CASE AfterLoad
    BY <1>0, <2>4 DEF AfterLoad, Loaded, Types
  <2>5. CASE Disconnect
    BY <1>0, <2>5 DEF Disconnect, Loaded, Types
  <2>6. ASSUME NEW s \in Stores, BeginStore(s) \/ FinishStore(s)
        PROVE  Loaded' => Loaded
    <3>1. doc' = doc \/ \E load : Unload(load)
      BY <2>6 DEF BeginStore, FinishStore, CommitStore, StoreFails
    <3> QED
      BY <1>0, <3>1, UnloadDoc DEF Loaded
  <2>7. CASE \/ Edit \/ HandleMessage \/ ApplyUpdate \/ UNCHANGED vars
             \/ \E q \in Requests : ReadRequest(q) \/ CommitRequest(q)
    <3>1. doc' = doc
      BY <2>7 DEF Edit, HandleMessage, ApplyUpdate, ReadRequest, CommitRequest, vars
    <3> QED
      BY <3>1 DEF Loaded
  <2> QED
    BY <2>1, <2>2, <2>3, <2>4, <2>5, <2>6, <2>7 DEF Next, Persist
<1> QED
  BY <1>0, <1>1, <1>2 DEF Opened

LEMMA RowInit == Init => RowInv
  BY BoundsAssumption
  DEF Init, RowInv, Types, Readings, Rendered, Opened, Loaded, Fresh, Row, Reading, NoRequest

\* Layer 1 is an invariant.
LEMMA RowInvariant == Spec => []RowInv
<1>1. RowInv /\ [Next]_vars => RowInv'
  BY TypesStep, ReadingsStep, OpenedStep DEF RowInv
<1> QED
  BY <1>1, RowInit, PTL DEF Spec


-----------------------------------------------------------------------------
(* Layer 2: the edits of the API.                                           *)

\* What the API committed is in the state, or at risk, once there is a state.
LEMMA InState ==
    ASSUME RowInv, ApiInv, row.created
    PROVE  api \subseteq row.state \cup Lost
  BY Ways DEF RowInv, Rendered, ApiInv, NoApiEditLost

\* A store that has heard of every API commit has them all.
LEMMA HeardOfAll ==
    ASSUME ApiInv, Loaded, Told
    PROVE  api \subseteq ydoc[doc.load] \cup Lost
<1>1. Fetched = {}
  BY DEF Told, Fetched
<1> QED
  BY <1>1 DEF ApiInv, Synced, Told

LEMMA HandleMessageApi ==
    ASSUME RowInv, ApiInv, HandleMessage
    PROVE  ApiInv'
<1>0. Types /\ lost' \in [Coincidences -> SUBSET Edits] /\ Lost \subseteq Lost'
  BY EditingLoses DEF RowInv, Editing
<1>1. /\ \/ /\ ~known /\ fetched' = fetched
            /\ Loses("deaf", IF Loaded THEN row.state \ ydoc[doc.load] ELSE {})
         \/ known /\ fetched' = fetched \cup {<<doc.load, row.state>>} /\ lost' = lost
      /\ UNCHANGED <<row, doc, ydoc, known, api>>
  BY DEF HandleMessage
<1>2. NoApiEditLost'
  BY <1>0, <1>1 DEF ApiInv, NoApiEditLost
<1>3. Hearing'
  BY <1>0, <1>1 DEF ApiInv, Hearing, Types
<1>4. Synced'
  <2> SUFFICES ASSUME Loaded PROVE api \subseteq ydoc[doc.load] \cup Fetched' \cup Lost'
    BY <1>1 DEF Synced, Loaded
  <2>1. api \subseteq row.state \cup Lost
    BY InState DEF RowInv, Opened
  <2>2. CASE ~known
    <3>1. (IF Loaded THEN row.state \ ydoc[doc.load] ELSE {}) \in SUBSET Edits
      BY <1>0 DEF Types, Row
    <3>2. row.state \ ydoc[doc.load] \subseteq Lost'
      BY <1>0, <1>1, <2>2, <3>1, LosesMore, Ways
    <3> QED
      BY <1>0, <2>1, <3>2
  <2>3. CASE known
    <3>1. <<doc.load, row.state>> \in fetched' /\ doc' = doc
      BY <1>1, <2>3
    <3>2. row.state \subseteq Fetched'
      BY <3>1 DEF Fetched
    <3> QED
      BY <1>0, <2>1, <3>2
  <2> QED
    BY <2>2, <2>3
<1> QED
  BY <1>2, <1>3, <1>4 DEF ApiInv

LEMMA ApplyUpdateApi ==
    ASSUME RowInv, ApiInv, ApplyUpdate
    PROVE  ApiInv'
<1>0. Types /\ lost' = lost /\ UNCHANGED <<row, doc, known, api, notices>>
  BY DEF RowInv, ApplyUpdate, history
<1>1. PICK update \in fetched :
        /\ fetched' = fetched \ {update}
        /\ IF doc.phase = "live" /\ update[1] = doc.load /\ ~(update[2] \subseteq ydoc[doc.load])
           THEN Changed(ydoc[doc.load] \cup update[2])
           ELSE UNCHANGED <<ydoc, persistence>>
  BY DEF ApplyUpdate
<1>2. Hearing' /\ NoApiEditLost'
  BY <1>0, <1>1 DEF ApiInv, Hearing, NoApiEditLost, Lost
<1>3. Synced'
  <2> SUFFICES ASSUME Loaded, notices = 0
               PROVE  api \subseteq ydoc'[doc.load] \cup Fetched' \cup Lost
    BY <1>0 DEF Synced, Loaded, Lost
  <2>1. api \subseteq ydoc[doc.load] \cup Fetched \cup Lost
    BY DEF ApiInv, Synced
  <2>2. /\ ydoc[doc.load] \subseteq ydoc'[doc.load]
        /\ update[1] = doc.load => update[2] \subseteq ydoc'[doc.load]
    <3>1. doc.load \in Loads
      BY <1>0 DEF Types, Loaded
    <3>2. update[1] = doc.load => doc.phase = "live"
      BY DEF ApiInv, Hearing, Loaded
    <3> QED
      BY <1>0, <1>1, <3>1, <3>2 DEF Changed, Types
  <2>3. \A e \in Fetched : e \in Fetched' \/ (e \in update[2] /\ update[1] = doc.load)
    <3>1. ASSUME NEW e, NEW u \in fetched, u[1] = doc.load, e \in u[2]
          PROVE  e \in Fetched' \/ (e \in update[2] /\ update[1] = doc.load)
      <4>1. CASE u = update
        BY <3>1, <4>1
      <4>2. CASE u # update
        <5>1. u \in {v \in fetched' : v[1] = doc'.load}
          BY <1>0, <1>1, <3>1, <4>2
        <5> QED
          BY <3>1, <5>1 DEF Fetched
      <4> QED
        BY <4>1, <4>2
    <3> QED
      BY <3>1 DEF Fetched
  <2> QED
    BY <2>1, <2>2, <2>3
<1> QED
  BY <1>2, <1>3 DEF ApiInv

LEMMA CommitApi ==
    ASSUME RowInv, ApiInv, NEW q \in Requests, CommitRequest(q)
    PROVE  ApiInv'
<1>1. /\ row'.content = row.content \cup {NextEdit} /\ api' = api \cup {NextEdit}
      /\ \/ notices' = notices + 1
         \/ notices' = notices /\ ~row.created
         \/ notices' = notices /\ Loses("create", {NextEdit})
      /\ UNCHANGED <<doc, ydoc, known, fetched>>
  BY CommitUponRow
<1>2. Lost \subseteq Lost' /\ (Loses("create", {NextEdit}) => NextEdit \in Lost')
  BY RequestLoses
<1> HIDE DEF NextEdit
<1>3. NoApiEditLost' /\ Hearing'
  BY <1>1, <1>2 DEF ApiInv, NoApiEditLost, Hearing
<1>4. Loaded => row.created
  BY DEF RowInv, Opened
<1>5. notices \in Nat
  BY DEF RowInv, Types
<1>6. Synced'
  BY <1>1, <1>2, <1>4, <1>5 DEF ApiInv, Synced, Loaded, Fetched
<1> QED
  BY <1>3, <1>6 DEF ApiInv

LEMMA StoreApi ==
    ASSUME RowInv, ApiInv, NEW s \in Stores, CommitStore(s)
    PROVE  ApiInv'
<1>1. UNCHANGED <<ydoc, known, notices, fetched, api>> /\ Unload(store[s])
  BY DEF CommitStore, updates
<1>2. Types /\ Lost \subseteq Lost' /\ row'.content = ydoc[store[s]]
  BY StoreRow, CommitLoses DEF RowInv
<1>3. api \subseteq row.content \cup Lost
  BY DEF ApiInv, NoApiEditLost
<1>4. NoApiEditLost'
  <2>1. CASE ~Live(store[s]) \/ ~Told
    <3>1. row.content \ ydoc[store[s]] \subseteq Lost'
      BY <2>1, CommitLoses
    <3> QED
      BY <1>1, <1>2, <1>3, <3>1 DEF NoApiEditLost
  <2>2. CASE Live(store[s]) /\ Told
    <3>1. Loaded /\ store[s] = doc.load
      BY <2>2 DEF Live, Loaded
    <3>2. api \subseteq ydoc[doc.load] \cup Lost
      BY <2>2, <3>1, HeardOfAll
    <3> QED
      BY <1>1, <1>2, <3>1, <3>2 DEF NoApiEditLost
  <2> QED
    BY <2>1, <2>2
<1>5. doc'.load = doc.load /\ (doc' = doc \/ (doc'.phase = "none" /\ Unloads(store[s])))
  BY <1>1, <1>2, UnloadDoc DEF Unloads, Live
<1>6. Synced'
  <2> SUFFICES ASSUME Loaded', notices = 0
               PROVE  api \subseteq ydoc[doc.load] \cup Fetched' \cup Lost'
    BY <1>1, <1>5 DEF Synced
  <2>1. Loaded /\ Fetched' = Fetched
    BY <1>1, <1>5 DEF Loaded, Fetched
  <2> QED
    BY <1>2, <2>1 DEF ApiInv, Synced
<1>7. Hearing'
  <2>1. doc' = doc \/ (~known /\ doc'.phase = "none")
    BY <1>5 DEF ApiInv, Hearing, Unloads, Live
  <2> QED
    BY <1>1, <1>5, <2>1 DEF ApiInv, Hearing
<1> QED
  BY <1>4, <1>6, <1>7 DEF ApiInv

LEMMA OpeningApi ==
    ASSUME RowInv, ApiInv, Connect \/ LoadState \/ CreateState \/ AfterLoad
    PROVE  ApiInv'
<1>0. Types
  BY DEF RowInv
<1>1. row'.content = row.content /\ UNCHANGED <<notices, fetched, api, lost>>
  BY CreateRow DEF Connect, LoadState, CreateState, AfterLoad, updates, history
<1>2. NoApiEditLost' /\ Lost' = Lost
  BY <1>1 DEF ApiInv, NoApiEditLost, Lost
<1>3. CASE Connect
  <2>1. \/ /\ doc.phase = "none" /\ doc'.phase = "loading" /\ doc'.load = doc.load + 1
           /\ doc'.clients = 1
        \/ /\ doc.phase = "live" /\ doc'.phase = "live" /\ doc'.load = doc.load
           /\ doc'.clients = doc.clients + 1
    BY <1>0, <1>3 DEF Connect, Types
  <2>2. UNCHANGED <<row, ydoc, known>> /\ doc.load \in Nat /\ doc.clients \in Nat
    BY <1>0, <1>3 DEF Connect, Types
  <2>3. \A update \in fetched : update[1] \in Nat
    BY <1>0 DEF Types
  <2>4. Hearing'
    BY <1>1, <2>1, <2>2, <2>3 DEF ApiInv, Hearing
  <2>5. Loaded' => Loaded /\ doc'.load = doc.load
    BY <2>1 DEF Loaded
  <2>6. Synced'
    BY <1>1, <1>2, <2>2, <2>5 DEF ApiInv, Synced, Fetched
  <2> QED
    BY <1>2, <2>4, <2>6 DEF ApiInv
<1>4. CASE LoadState \/ CreateState
  <2>1. /\ Loaded' => row'.created /\ row'.state \subseteq ydoc'[doc'.load]
        /\ doc'.load = doc.load
        /\ doc'.clients = doc.clients
        /\ doc.phase \in {"loading", "creating"} /\ doc'.phase \in {"creating", "loaded"}
        /\ known' = known
    BY <1>0, <1>4, CreateRow DEF LoadState, CreateState, Types, Loaded
  <2>2. Hearing'
    BY <1>1, <2>1 DEF ApiInv, Hearing
  <2>3. row'.created => api \subseteq row'.state \cup Lost
    <3>1. CASE row.created
      BY <1>4, <3>1, InState, CreateRow DEF LoadState
    <3>2. CASE ~row.created
      BY <1>4, <3>2, CreateRow DEF LoadState, ApiInv, NoApiEditLost
    <3> QED
      BY <3>1, <3>2
  <2>4. Synced'
    BY <1>1, <1>2, <2>1, <2>3 DEF Synced
  <2> QED
    BY <1>2, <2>2, <2>4 DEF ApiInv
<1>5. CASE AfterLoad
  <2>1. /\ doc.phase = "loaded" /\ doc'.phase = "live" /\ doc'.load = doc.load
        /\ doc'.clients = doc.clients
        /\ known' /\ UNCHANGED <<row, ydoc>>
    BY <1>0, <1>5 DEF AfterLoad, Types
  <2>2. Synced'
    <3>1. Fetched' = Fetched
      BY <1>1, <2>1 DEF Fetched
    <3>2. Loaded
      BY <2>1 DEF Loaded
    <3> QED
      BY <1>1, <1>2, <2>1, <3>1, <3>2 DEF ApiInv, Synced
  <2>3. Hearing'
    BY <1>1, <2>1 DEF ApiInv, Hearing
  <2> QED
    BY <1>2, <2>2, <2>3 DEF ApiInv
<1> QED
  BY <1>3, <1>4, <1>5

\* The other steps: what they change of memory is only added to.
LEMMA EditingApi ==
    ASSUME RowInv, ApiInv,
           \/ Edit \/ Disconnect \/ UNCHANGED vars
           \/ \E s \in Stores : BeginStore(s) \/ StoreFails(s)
           \/ \E q \in Requests : ReadRequest(q)
    PROVE  ApiInv'
<1>0. Types
  BY DEF RowInv
<1>1. UNCHANGED <<row, notices, fetched, api>>
  BY DEF Edit, Disconnect, BeginStore, StoreFails, ReadRequest, vars, updates, history
<1>2. Lost \subseteq Lost'
  <2>1. CASE Editing
    BY <1>0, <2>1, EditingLoses
  <2>2. CASE UNCHANGED vars \/ \E q \in Requests : ReadRequest(q)
    BY <2>2 DEF vars, ReadRequest, history, Lost
  <2> QED
    BY <2>1, <2>2 DEF Editing
<1>3. NoApiEditLost'
  BY <1>1, <1>2 DEF ApiInv, NoApiEditLost
<1>4. CASE Edit
  <2>1. doc' = doc /\ known' = known /\ doc.phase = "live"
    BY <1>4 DEF Edit
  <2>2. doc.load \in Loads /\ ydoc[doc.load] \subseteq ydoc'[doc.load]
    BY <1>0, <1>4 DEF Edit, Changed, Types
  <2> QED
    BY <1>1, <1>2, <1>3, <2>1, <2>2 DEF ApiInv, Hearing, Synced, Loaded, Fetched
<1>5. CASE Disconnect
  <2>1. /\ doc.phase = "live" /\ doc'.phase = doc.phase /\ doc'.load = doc.load
        /\ \/ known' = FALSE
           \/ known' = known /\ doc'.clients > 0
        /\ ydoc' = ydoc
    <3>1. /\ doc' = [doc EXCEPT !.clients = @ - 1] /\ doc.clients \in Nat /\ doc.clients > 0
          /\ doc.clients = 1 => known' = FALSE
          /\ doc.clients # 1 => known' = known
          /\ ydoc' = ydoc /\ doc.phase = "live"
      BY <1>0, <1>5 DEF Disconnect, Types
    <3>2. /\ doc'.clients = doc.clients - 1
          /\ doc'.phase = doc.phase /\ doc'.load = doc.load
      BY <1>0, <3>1 DEF Types
    <3> QED
      BY <3>1, <3>2
  <2> QED
    BY <1>1, <1>2, <1>3, <2>1 DEF ApiInv, Hearing, Synced, Loaded, Fetched
<1>6. ASSUME \/ UNCHANGED vars \/ \E s \in Stores : BeginStore(s) \/ StoreFails(s)
             \/ \E q \in Requests : ReadRequest(q)
      PROVE  ApiInv'
  <2>1. /\ UNCHANGED <<ydoc, known>>
        /\ doc' = doc \/ \E load : Unload(load)
    BY <1>6 DEF BeginStore, StoreFails, ReadRequest, vars
  <2>2. doc' = doc \/ (doc'.phase = "none" /\ doc'.load = doc.load /\ doc.clients = 0)
    BY <1>0, <2>1, UnloadDoc DEF Unloads, Live
  <2>3. doc' = doc \/ (doc'.phase = "none" /\ doc'.load = doc.load /\ ~known)
    BY <1>0, <2>2 DEF ApiInv, Hearing
  <2> QED
    BY <1>1, <1>2, <1>3, <2>1, <2>3 DEF ApiInv, Hearing, Synced, Loaded, Fetched
<1> QED
  BY <1>4, <1>5, <1>6

LEMMA ApiStep ==
    ASSUME RowInv, ApiInv, [Next]_vars
    PROVE  ApiInv'
  BY OpeningApi, EditingApi, HandleMessageApi, ApplyUpdateApi, CommitApi, StoreApi
  DEF Next, Persist, FinishStore

LEMMA ApiInit == Init => ApiInv
  BY DEF Init, ApiInv, Hearing, Synced, Loaded, NoApiEditLost

LEMMA ApiInvariant == Spec => [](RowInv /\ ApiInv)
<1>1. RowInv /\ ApiInv /\ [Next]_vars => ApiInv'
  BY ApiStep
<1> QED
  BY <1>1, RowInvariant, ApiInit, PTL DEF Spec

\* Whatever loads, stores, requests and notifications interleave, what the API committed
\* leaves the row only as one of the coincidences puts it at risk: a request never writes
\* upon a row that has changed since it was read, and a store of a live document that has
\* been told of every commit writes them all.
THEOREM ApiEditsKept == Spec => []NoApiEditLost
<1>1. ApiInv => NoApiEditLost
  BY DEF ApiInv
<1> QED
  BY <1>1, ApiInvariant, PTL

\* And once every notification has been handled, an open document contains it.
THEOREM ApiEditsSynced == Spec => []ApiEditsAreSynced
<1>1. RowInv /\ ApiInv => ApiEditsAreSynced
  BY HeardOfAll DEF ApiEditsAreSynced, Loaded
<1> QED
  BY <1>1, ApiInvariant, PTL

-----------------------------------------------------------------------------
(* Layer 3: the edits of the session.                                       *)

\* Edits are numbered as they are made, so that the next one is new.
LEMMA NextEditIsNew ==
    ASSUME Numbered
    PROVE  /\ NextEdit \notin session \cup api
           /\ session' \cup api' = session \cup api \cup {NextEdit} => Numbered'
<1>1. PICK n \in Nat : session \cup api = 1..n
  BY DEF Numbered
<1>2. Cardinality(1..n) = n
  <2>1. Cardinality(1..n) = IF 1 > n THEN 0 ELSE n - 1 + 1
    BY FS_Interval
  <2> QED
    BY <2>1
<1>3. NextEdit = n + 1
  BY <1>1, <1>2 DEF NextEdit
<1>4. (1..n) \cup {n + 1} = 1..(n + 1) /\ n + 1 \notin 1..n /\ n + 1 \in Nat
  OBVIOUS
<1> QED
  BY <1>1, <1>3, <1>4 DEF Numbered

\* The conjuncts about what is owed.
Owing == Kept /\ Flagged /\ Behind /\ InMemory

\* An edit that is owed after a step was owed before it, unless it was just typed.
LEMMA StillOwed ==
    ASSUME NEW e, e \in session, e \notin dropped' \cup lost'["unload"],
           dropped \subseteq dropped', lost["unload"] \subseteq lost'["unload"]
    PROVE  \A edits : e \in edits => e \in Owed(edits)
  BY DEF Owed

\* A step that unloads the document is harmless if the row has what memory owes.
LEMMA UnloadOwes ==
    ASSUME Types, SessionInv, doc.phase = "live", doc'.phase = "none",
           UNCHANGED <<ydoc, session>>,
           dropped \subseteq dropped', lost["unload"] \subseteq lost'["unload"],
           \A l \in Loads : (l = due' \/ \E s \in Stores : store'[s] = l)
                                => (l = due \/ \E s \in Stores : store[s] = l),
           (ydoc[doc.load] \cap session) \ (dropped' \cup lost'["unload"]) \subseteq row'.state
    PROVE  Owing'
<1>1. Kept' /\ Flagged'
  BY DEF Kept, Flagged, Loaded
<1>2. \A e \in session : e \notin dropped' \cup lost'["unload"] /\ e \in ydoc[doc.load] => e \in row'.state
  OBVIOUS
<1>3. InMemory'
  <2> SUFFICES ASSUME NEW e \in session, e \notin dropped' \cup lost'["unload"]
               PROVE  e \in row'.state
    BY DEF InMemory, Owed
  <2>1. e \in Owed(session)
    BY StillOwed
  <2>2. e \in row.state \/ e \in ydoc[doc.load]
    BY <2>1 DEF SessionInv, InMemory
  <2>3. e \in row.state => e \in ydoc[doc.load]
    BY StillOwed DEF SessionInv, Kept, Loaded
  <2> QED
    BY <1>2, <2>2, <2>3
<1>4. Behind'
  <2> SUFFICES ASSUME NEW l \in Loads, l = due' \/ \E s \in Stores : store'[s] = l,
                      NEW e \in ydoc[l], e \in session, e \notin dropped' \cup lost'["unload"]
               PROVE  e \in row'.state
    BY DEF Behind, Owed, Loaded
  <2>1. CASE l = doc.load
    BY <1>2, <2>1
  <2>2. CASE l # doc.load
    <3>1. Owed(ydoc[l]) \subseteq ydoc[doc.load]
      BY <2>2 DEF SessionInv, Behind, Live, Loaded
    <3>2. e \in ydoc[doc.load]
      BY <3>1, StillOwed
    <3> QED
      BY <1>2, <3>2
  <2> QED
    BY <2>1, <2>2
<1> QED
  BY <1>1, <1>3, <1>4 DEF Owing

\* Opening and loading the document: memory becomes what the row has.
LEMMA OpeningSession ==
    ASSUME RowInv, SessionInv, Connect \/ LoadState \/ CreateState \/ AfterLoad
    PROVE  SessionInv'
<1>0. Types
  BY DEF RowInv
<1>1. UNCHANGED <<unsaved, due, store, session, api, dropped, lost>>
  BY DEF Connect, LoadState, CreateState, AfterLoad, persistence, history
<1>2. Numbered' /\ Apart'
  BY <1>1 DEF SessionInv, Numbered, Apart
<1>3. \A l \in Loads : l = due \/ (\E s \in Stores : store[s] = l) => l <= doc.load
  BY <1>0 DEF SessionInv, Storing, Types, Loads
<1>4. CASE Connect
  <2>1. /\ \/ doc.phase = "none" /\ doc'.phase = "loading" /\ doc'.load = doc.load + 1
           \/ doc.phase = "live" /\ doc'.phase = "live" /\ doc'.load = doc.load
        /\ UNCHANGED <<row, ydoc>> /\ doc.load \in Nat
    BY <1>0, <1>4 DEF Connect, Types
  <2>2. CASE doc.phase = "live"
    <3>1. doc'.phase = "live" /\ doc'.load = doc.load
      BY <2>1, <2>2
    <3> QED
      BY <1>1, <1>2, <2>1, <2>2, <3>1
      DEF SessionInv, Storing, Kept, Flagged, Behind, InMemory, Owed, Live, Loaded
  <2>3. CASE doc.phase = "none"
    <3>1. doc'.phase = "loading" /\ doc'.load = doc.load + 1
      BY <2>1, <2>3
    <3>2. due \in Nat /\ \A s \in Stores : store[s] \in Nat
      BY <1>0 DEF Types
    <3>3. Storing'
      BY <1>1, <2>1, <3>1, <3>2 DEF SessionInv, Storing
    <3> QED
      BY <1>1, <1>2, <2>1, <2>3, <3>1, <3>3
      DEF SessionInv, Kept, Flagged, Behind, InMemory, Owed, Live, Loaded
  <2> QED
    BY <2>1, <2>2, <2>3
<1>5. CASE LoadState \/ CreateState
  <2>1. /\ doc.phase \in {"loading", "creating"} /\ doc'.load = doc.load
        /\ row.state \subseteq row'.state
        /\ doc.load \in Loads
        /\ \/ doc'.phase = "creating" /\ UNCHANGED <<row, ydoc>>
           \/ doc'.phase = "loaded" /\ ydoc' = [ydoc EXCEPT ![doc.load] = row'.state]
    BY <1>0, <1>5, CreateRow DEF LoadState, CreateState, Types
  <2>2. due # doc.load /\ \A s \in Stores : store[s] # doc.load
    BY <2>1 DEF SessionInv, Storing
  <2>3. Storing'
    BY <1>1, <2>1 DEF SessionInv, Storing
  <2>4. CASE doc'.phase = "creating"
    <3>1. UNCHANGED <<row, ydoc>>
      BY <2>1, <2>4
    <3> QED
      BY <1>1, <1>2, <2>1, <2>3, <2>4, <3>1
      DEF SessionInv, Kept, Flagged, Behind, InMemory, Owed, Live, Loaded
  <2>5. CASE doc'.phase = "loaded"
    <3>1. /\ ydoc' = [ydoc EXCEPT ![doc.load] = row'.state]
          /\ ydoc'[doc.load] = row'.state
          /\ \A l \in Loads \ {doc.load} : ydoc'[l] = ydoc[l]
      BY <1>0, <2>1, <2>5 DEF Types
    <3>2. Kept' /\ Flagged'
      BY <1>1, <2>1, <3>1 DEF Kept, Flagged, Owed
    <3>3. InMemory'
      BY <1>1, <2>1, <2>5 DEF SessionInv, InMemory, Owed
    <3>4. Behind'
      <4> SUFFICES ASSUME NEW l \in Loads, l = due \/ \E s \in Stores : store[s] = l
                   PROVE  Owed(ydoc'[l]) \subseteq ydoc'[doc.load]
        BY <1>1, <2>1, <2>5 DEF Behind, Owed, Loaded
      <4>1. l # doc.load /\ ydoc'[l] = ydoc[l]
        BY <2>2, <3>1
      <4>2. Owed(ydoc[l]) \subseteq row.state
        BY <2>1 DEF SessionInv, Behind, Live, Loaded
      <4> QED
        BY <2>1, <3>1, <4>1, <4>2
    <3> QED
      BY <1>2, <2>3, <3>2, <3>3, <3>4 DEF SessionInv
  <2> QED
    BY <2>1, <2>4, <2>5
<1>6. CASE AfterLoad
  <2>1. /\ doc.phase = "loaded" /\ doc'.phase = "live" /\ doc'.load = doc.load
        /\ UNCHANGED <<row, ydoc>>
    BY <1>0, <1>6 DEF AfterLoad, Types
  <2>2. Storing' /\ InMemory' /\ Kept'
    BY <1>1, <2>1 DEF SessionInv, Storing, InMemory, Kept, Owed, Loaded
  <2>3. Flagged' /\ Behind'
    BY <1>1, <2>1 DEF SessionInv, Flagged, Behind, Live, Owed, Loaded
  <2> QED
    BY <1>2, <2>2, <2>3 DEF SessionInv
<1> QED
  BY <1>4, <1>5, <1>6

\* A change of the document in memory only adds to it, and flags it.
LEMMA ChangeSession ==
    ASSUME RowInv, SessionInv, Edit \/ ApplyUpdate
    PROVE  SessionInv'
<1>0. Types
  BY DEF RowInv
<1>1. CASE Edit
  <2>1. /\ doc.phase = "live" /\ doc.load \in Loads
        /\ ydoc' = [ydoc EXCEPT ![doc.load] = ydoc[doc.load] \cup {NextEdit}]
        /\ unsaved' = TRUE /\ due' = doc.load /\ session' = session \cup {NextEdit}
        /\ UNCHANGED <<row, doc, store, api, dropped, lost>>
    BY <1>0, <1>1 DEF Edit, Changed, Types
  <2>2. Numbered' /\ NextEdit \notin api
    BY <2>1, NextEditIsNew DEF SessionInv
  <2> HIDE DEF NextEdit
  <2>3. /\ ydoc'[doc.load] = ydoc[doc.load] \cup {NextEdit}
        /\ \A l \in Loads \ {doc.load} : ydoc'[l] = ydoc[l]
    BY <1>0, <2>1 DEF Types
  <2>4. Apart'
    BY <2>1, <2>2 DEF SessionInv, Apart
  <2>5. Storing' /\ Flagged'
    <3>1. due' = doc'.load /\ doc'.load \in Nat /\ doc'.phase = "live" /\ unsaved'
      BY <1>0, <2>1 DEF Types
    <3> QED
      BY <2>1, <3>1 DEF SessionInv, Storing, Flagged
  <2>6. Kept' /\ InMemory'
    BY <2>1, <2>3 DEF SessionInv, Kept, InMemory, Owed, Loaded
  <2>7. Behind'
    <3> SUFFICES ASSUME NEW l \in Loads, l # doc.load, \E s \in Stores : store[s] = l
                 PROVE  (ydoc[l] \cap (session \cup {NextEdit})) \ (dropped \cup lost["unload"])
                            \subseteq ydoc[doc.load] \cup {NextEdit}
      BY <2>1, <2>3 DEF Behind, Owed, Live, Loaded
    <3> QED
      BY <2>1 DEF SessionInv, Behind, Owed, Live, Loaded
  <2> QED
    BY <2>2, <2>4, <2>5, <2>6, <2>7 DEF SessionInv
<1>2. CASE ApplyUpdate
  <2>1. /\ UNCHANGED <<row, doc, store, session, api, dropped, lost>>
        /\ \/ /\ doc.phase = "live" /\ unsaved' = TRUE /\ due' = doc.load
              /\ \E more : ydoc' = [ydoc EXCEPT ![doc.load] = ydoc[doc.load] \cup more]
           \/ UNCHANGED <<ydoc, unsaved, due>>
    BY <1>2 DEF ApplyUpdate, Changed, persistence, history
  <2>2. Numbered' /\ Apart'
    BY <2>1 DEF SessionInv, Numbered, Apart
  <2>3. CASE UNCHANGED <<ydoc, unsaved, due>>
    BY <2>1, <2>2, <2>3
    DEF SessionInv, Storing, Kept, Flagged, Behind, InMemory, Owed, Live, Loaded
  <2>4. CASE /\ doc.phase = "live" /\ unsaved' = TRUE /\ due' = doc.load
             /\ \E more : ydoc' = [ydoc EXCEPT ![doc.load] = ydoc[doc.load] \cup more]
    <3>1. doc.load \in Loads /\ doc.load \in Nat
      BY <1>0, <2>4 DEF Types
    <3>2. PICK more : ydoc' = [ydoc EXCEPT ![doc.load] = ydoc[doc.load] \cup more]
      BY <2>4
    <3>3. /\ ydoc[doc.load] \subseteq ydoc'[doc.load]
          /\ \A l \in Loads \ {doc.load} : ydoc'[l] = ydoc[l]
      BY <1>0, <3>1, <3>2 DEF Types
    <3>4. Storing' /\ Flagged'
      BY <2>1, <2>4, <3>1 DEF SessionInv, Storing, Flagged
    <3>5. Kept' /\ InMemory'
      BY <2>1, <2>4, <3>3 DEF SessionInv, Kept, InMemory, Owed, Loaded
    <3>6. Behind'
      <4> SUFFICES ASSUME NEW l \in Loads, l # doc.load, \E s \in Stores : store[s] = l
                   PROVE  Owed(ydoc[l]) \subseteq ydoc'[doc.load]
        BY <2>1, <2>4, <3>3 DEF Behind, Owed, Live, Loaded
      <4> QED
        BY <2>4, <3>3 DEF SessionInv, Behind, Live, Loaded
    <3> QED
      BY <2>2, <3>4, <3>5, <3>6 DEF SessionInv
  <2> QED
    BY <2>1, <2>3, <2>4
<1> QED
  BY <1>1, <1>2

LEMMA LeavingSession ==
    ASSUME RowInv, SessionInv, Disconnect
    PROVE  SessionInv'
<1>0. Types
  BY DEF RowInv
<1>1. /\ doc.phase = "live" /\ doc'.phase = "live" /\ doc'.load = doc.load /\ doc.load \in Nat
      /\ due' = due \/ due' = doc.load
      /\ UNCHANGED <<row, ydoc, unsaved, store, session, api, dropped, lost>>
  BY <1>0 DEF Disconnect, Types, history
<1>2. Numbered' /\ Apart'
  BY <1>1 DEF SessionInv, Numbered, Apart
<1>3. Storing' /\ Flagged'
  BY <1>1 DEF SessionInv, Storing, Flagged, Owed, Loaded
<1>4. Kept' /\ InMemory'
  BY <1>1 DEF SessionInv, Kept, InMemory, Owed, Loaded
<1>5. Behind'
  BY <1>1 DEF SessionInv, Behind, Owed, Live, Loaded
<1> QED
  BY <1>2, <1>3, <1>4, <1>5 DEF SessionInv

\* A step that only writes into the row what nobody has typed.
LEMMA ElsewhereSession ==
    ASSUME SessionInv, Numbered', Apart',
           UNCHANGED <<doc, ydoc, unsaved, due, store, session, dropped>>,
           lost'["unload"] = lost["unload"], row.state \subseteq row'.state,
           row'.state \cap session \subseteq row.state
    PROVE  SessionInv'
<1>1. Storing'
  BY DEF SessionInv, Storing
<1>2. Kept' /\ InMemory'
  BY DEF SessionInv, Kept, InMemory, Owed, Loaded
<1>3. Flagged' /\ Behind'
  BY DEF SessionInv, Flagged, Behind, Owed, Live, Loaded
<1> QED
  BY <1>1, <1>2, <1>3 DEF SessionInv

LEMMA ListeningSession ==
    ASSUME RowInv, SessionInv,
           HandleMessage \/ UNCHANGED vars \/ \E q \in Requests : ReadRequest(q)
    PROVE  SessionInv'
<1>1. UNCHANGED <<row, doc, ydoc, unsaved, due, store, session, api, dropped>>
  BY DEF HandleMessage, ReadRequest, vars, persistence, history
<1>2. lost'["unload"] = lost["unload"] /\ lost'["create"] = lost["create"]
  <2>1. CASE HandleMessage
    <3>1. Types /\ (IF Loaded THEN row.state \ ydoc[doc.load] ELSE {}) \in SUBSET Edits
      BY DEF RowInv, Types, Row
    <3>2. \/ lost' = lost
          \/ Loses("deaf", IF Loaded THEN row.state \ ydoc[doc.load] ELSE {})
      BY <2>1 DEF HandleMessage
    <3> QED
      BY <3>1, <3>2, LosesMore, Ways
  <2>2. CASE UNCHANGED vars \/ \E q \in Requests : ReadRequest(q)
    BY <2>2 DEF ReadRequest, vars, history
  <2> QED
    BY <2>1, <2>2
<1>3. Numbered' /\ Apart'
  BY <1>1, <1>2 DEF SessionInv, Numbered, Apart
<1> QED
  BY <1>1, <1>2, <1>3, ElsewhereSession

LEMMA CommitSession ==
    ASSUME RowInv, SessionInv, NEW q \in Requests, CommitRequest(q)
    PROVE  SessionInv'
<1>1. /\ row'.state = row.state \cup {NextEdit} \/ row'.state = row.state
      /\ api' = api \cup {NextEdit}
      /\ UNCHANGED <<doc, ydoc, unsaved, due, store, session, dropped>>
  BY CommitUponRow DEF persistence
<1>2. Numbered' /\ NextEdit \notin session
  BY <1>1, NextEditIsNew DEF SessionInv
<1>3. /\ lost'["unload"] = lost["unload"]
      /\ lost'["create"] \subseteq lost["create"] \cup {NextEdit}
  BY RequestLoses
<1> HIDE DEF NextEdit
<1>4. Apart'
  BY <1>1, <1>2, <1>3 DEF SessionInv, Apart
<1> QED
  BY <1>1, <1>2, <1>3, <1>4, ElsewhereSession

\* A store that begins; without a change to write, the document may be unloaded.
LEMMA BeginSession ==
    ASSUME RowInv, SessionInv, NEW s \in Stores, BeginStore(s)
    PROVE  SessionInv'
<1>0. Types
  BY DEF RowInv
<1>1. /\ due # 0 /\ store[s] = 0 /\ due' = 0 /\ unsaved' = FALSE
      /\ UNCHANGED <<row, ydoc, session, api, dropped>>
  BY DEF BeginStore
<1>2. /\ lost["unload"] \subseteq lost'["unload"] /\ lost'["create"] = lost["create"]
  BY <1>0, EditingLoses, Ways DEF Editing
<1>3. Numbered' /\ Apart'
  BY <1>1, <1>2 DEF SessionInv, Numbered, Apart
<1>4. CASE unsaved
  <2>1. UNCHANGED <<doc, lost>> /\ store' = [store EXCEPT ![s] = due]
    BY <1>4 DEF BeginStore
  <2>2. store'[s] = due /\ \A r \in Stores \ {s} : store'[r] = store[r]
    BY <1>0, <2>1 DEF Types
  <2>3. Storing'
    <3>1. 0 <= doc.load
      BY <1>0 DEF Types
    <3> QED
      BY <1>0, <1>1, <2>1, <2>2, <3>1 DEF SessionInv, Storing
  <2>4. Kept' /\ InMemory'
    BY <1>1, <2>1 DEF SessionInv, Kept, InMemory, Owed, Loaded
  <2>5. Flagged'
    <3> SUFFICES ASSUME Loaded, \A r \in Stores : store'[r] # doc.load
                 PROVE  Owed(ydoc[doc.load]) \subseteq row.state
      BY <1>1, <2>1 DEF Flagged, Owed, Loaded
    <3>1. due \notin {0, doc.load} /\ \A r \in Stores : store[r] # doc.load
      BY <1>1, <2>2 DEF SessionInv, Storing
    <3> QED
      BY <3>1 DEF SessionInv, Flagged
  <2>6. Behind'
    <3> SUFFICES ASSUME NEW l \in Loads, (\E r \in Stores : store'[r] = l), ~Live(l)
                 PROVE  Owed(ydoc[l]) \subseteq IF Loaded THEN ydoc[doc.load] ELSE row.state
      <4>1. 0 \notin Loads
        BY DEF Loads
      <4> QED
        BY <1>1, <2>1, <4>1 DEF Behind, Owed, Loaded, Live
    <3>1. l = due \/ \E r \in Stores : store[r] = l
      BY <2>2
    <3> QED
      BY <3>1 DEF SessionInv, Behind
  <2> QED
    BY <1>3, <2>3, <2>4, <2>5, <2>6 DEF SessionInv
<1>5. CASE ~unsaved
  <2>1. /\ store' = store /\ Unload(due)
        /\ Loses("unload", IF Unloads(due) /\ \E r \in Stores : store[r] = due
                           THEN ydoc[due] \ row.state ELSE {})
    BY <1>5 DEF BeginStore
  <2>2. CASE Unloads(due)
    <3>1. /\ doc.phase = "live" /\ due = doc.load /\ due \in Loads
          /\ doc'.phase = "none" /\ doc'.load = doc.load
      BY <1>0, <2>1, <2>2, UnloadDoc DEF Unloads, Live, Types
    <3>2. (ydoc[doc.load] \cap session) \ (dropped' \cup lost'["unload"]) \subseteq row'.state
      <4>1. CASE \E r \in Stores : store[r] = due
        <5>1. Loses("unload", ydoc[due] \ row.state) /\ ydoc[due] \ row.state \in SUBSET Edits
          BY <1>0, <2>1, <2>2, <3>1, <4>1 DEF Types
        <5>2. lost'["unload"] = lost["unload"] \cup (ydoc[due] \ row.state)
          BY <1>0, <5>1, LosesMore, Ways
        <5> QED
          BY <1>1, <3>1, <5>2
      <4>2. CASE ~\E r \in Stores : store[r] = due
        <5>1. Owed(ydoc[doc.load]) \subseteq row.state
          BY <1>5, <3>1, <4>2 DEF SessionInv, Flagged, Loaded
        <5> QED
          BY <1>1, <1>2, <5>1 DEF Owed
      <4> QED
        BY <4>1, <4>2
    <3>3. Storing'
      BY <1>0, <1>1, <2>1, <3>1 DEF SessionInv, Storing, Types
    <3>4. Owing'
      <4>1. \A l \in Loads : (l = due' \/ \E r \in Stores : store'[r] = l)
                                => (l = due \/ \E r \in Stores : store[r] = l)
        BY <1>1, <2>1 DEF Loads
      <4> QED
        BY <1>0, <1>1, <1>2, <3>1, <3>2, <4>1, UnloadOwes
    <3> QED
      BY <1>3, <3>3, <3>4 DEF SessionInv, Owing
  <2>3. CASE ~Unloads(due)
    <3>1. doc' = doc
      BY <2>1, <2>3 DEF Unload
    <3>2. Storing'
      BY <1>0, <1>1, <2>1, <3>1 DEF SessionInv, Storing, Types
    <3>3. Kept' /\ InMemory'
      BY <1>1, <1>2, <3>1 DEF SessionInv, Kept, InMemory, Owed, Loaded
    <3>4. Flagged'
      BY <1>1, <1>2, <1>5, <2>1, <3>1 DEF SessionInv, Flagged, Owed, Loaded
    <3>5. Behind'
      <4>1. 0 \notin Loads
        BY DEF Loads
      <4> QED
        BY <1>1, <1>2, <2>1, <3>1, <4>1 DEF SessionInv, Behind, Owed, Live, Loaded
    <3> QED
      BY <1>3, <3>2, <3>3, <3>4, <3>5 DEF SessionInv
  <2> QED
    BY <2>2, <2>3
<1> QED
  BY <1>4, <1>5

\* Afterwards the row has exactly what of the session the stored document has.
LEMMA StoredRow ==
    ASSUME RowInv, Apart, NEW s \in Stores, CommitStore(s)
    PROVE  /\ row'.state \subseteq ydoc[store[s]]
           /\ ydoc[store[s]] \cap session \subseteq row'.state
  BY StoreRow DEF RowInv, Rendered, Apart

LEMMA StoreSession ==
    ASSUME RowInv, SessionInv, NEW s \in Stores, CommitStore(s)
    PROVE  SessionInv'
<1>0. Types
  BY DEF RowInv
<1>1. /\ store' = [store EXCEPT ![s] = 0] /\ Unload(store[s])
      /\ UNCHANGED <<ydoc, unsaved, due, session, api, dropped>>
  BY DEF CommitStore
<1>2. /\ lost["unload"] \subseteq lost'["unload"] /\ lost'["create"] = lost["create"]
      /\ ~Live(store[s]) => row.content \ ydoc[store[s]] \subseteq lost'["unload"]
  BY CommitLoses, Ways
<1>3. Numbered' /\ Apart'
  BY <1>1, <1>2 DEF SessionInv, Numbered, Apart
<1>4. /\ row'.state \subseteq ydoc[store[s]]
      /\ ydoc[store[s]] \cap session \subseteq row'.state
      /\ store[s] \in Loads
  BY StoredRow, StoreRow DEF SessionInv
<1>5. store'[s] = 0 /\ \A r \in Stores \ {s} : store'[r] = store[r]
  BY <1>0, <1>1 DEF Types
<1>6. /\ doc'.load = doc.load /\ 0 \notin Loads /\ doc.load \in Nat
      /\ \/ Unloads(store[s]) /\ doc'.phase = "none"
         \/ ~Unloads(store[s]) /\ doc' = doc
  BY <1>0, <1>1, UnloadDoc DEF Types, Loads
<1>7. Storing'
  <2>1. doc'.phase \in {doc.phase, "none"}
    BY <1>6
  <2> QED
    BY <1>1, <1>4, <1>5, <1>6, <2>1 DEF SessionInv, Storing, Loads
<1>8. \A l \in Loads : (l = due' \/ \E r \in Stores : store'[r] = l)
                          => (l = due \/ \E r \in Stores : store[r] = l)
  BY <1>1, <1>5, <1>6
<1>9. CASE Unloads(store[s])
  <2>1. doc.phase = "live" /\ store[s] = doc.load /\ doc'.phase = "none"
    BY <1>6, <1>9 DEF Unloads, Live
  <2>2. Owing'
    BY <1>0, <1>1, <1>2, <1>4, <1>8, <2>1, UnloadOwes
  <2> QED
    BY <1>3, <1>7, <2>2 DEF SessionInv, Owing
<1>10. CASE ~Unloads(store[s]) /\ Live(store[s])
  <2>1. doc' = doc /\ doc.phase = "live" /\ store[s] = doc.load
    BY <1>6, <1>10 DEF Live
  <2>2. Kept' /\ Flagged'
    BY <1>1, <1>4, <2>1 DEF Kept, Flagged, Owed
  <2>3. InMemory'
    BY <1>1, <1>2, <1>4, <2>1 DEF SessionInv, InMemory, Kept, Owed, Loaded
  <2>4. Behind'
    BY <1>1, <1>2, <1>8, <2>1 DEF SessionInv, Behind, Owed, Live, Loaded
  <2> QED
    BY <1>3, <1>7, <2>2, <2>3, <2>4 DEF SessionInv
<1>11. CASE ~Live(store[s])
  <2>1. doc' = doc
    BY <1>6, <1>11 DEF Unloads
  <2>2. Owed(ydoc[store[s]]) \subseteq IF Loaded THEN ydoc[doc.load] ELSE row.state
    BY <1>4, <1>11 DEF SessionInv, Behind
  <2>3. ASSUME NEW e \in row.state, e \in session, e \notin lost'["unload"]
        PROVE  e \in row'.state
    <3>1. e \in row.content
      BY <2>3 DEF RowInv, Rendered
    <3> QED
      BY <1>2, <1>4, <1>11, <2>3, <3>1
  <2>4. Kept'
    <3> SUFFICES ASSUME Loaded, NEW e \in row'.state, e \in session,
                        e \notin dropped \cup lost'["unload"]
                 PROVE  e \in ydoc[doc.load]
      BY <1>1, <2>1 DEF Kept, Owed, Loaded
    <3>1. e \in Owed(ydoc[store[s]])
      BY <1>2, <1>4 DEF Owed
    <3> QED
      BY <2>2, <3>1
  <2>5. Flagged'
    <3> SUFFICES ASSUME Loaded, ~unsaved \/ due \notin {0, doc.load},
                        \A r \in Stores : store'[r] # doc.load,
                        NEW e \in ydoc[doc.load], e \in session,
                        e \notin dropped \cup lost'["unload"]
                 PROVE  e \in row'.state
      BY <1>1, <2>1 DEF Flagged, Owed, Loaded
    <3>1. \A r \in Stores : store[r] # doc.load
      <4>1. store[s] # doc.load
        BY <1>4, <1>11 DEF SessionInv, Storing, Live, Loaded
      <4> QED
        BY <1>5, <4>1
    <3>2. Owed(ydoc[doc.load]) \subseteq row.state
      BY <3>1 DEF SessionInv, Flagged
    <3>3. e \in row.state
      BY <1>2, <3>2 DEF Owed
    <3> QED
      BY <2>3, <3>3
  <2>6. Behind'
    <3> SUFFICES ASSUME NEW l \in Loads, l = due' \/ \E r \in Stores : store'[r] = l, ~Live(l),
                        NEW e \in ydoc[l], e \in session, e \notin dropped \cup lost'["unload"]
                 PROVE  e \in IF Loaded THEN ydoc[doc.load] ELSE row'.state
      BY <1>1, <2>1 DEF Behind, Owed, Live, Loaded
    <3>1. Owed(ydoc[l]) \subseteq IF Loaded THEN ydoc[doc.load] ELSE row.state
      BY <1>8 DEF SessionInv, Behind
    <3>2. e \in Owed(ydoc[l])
      BY <1>2 DEF Owed
    <3> QED
      BY <2>3, <3>1, <3>2
  <2>7. InMemory'
    <3> SUFFICES ASSUME NEW e \in session, e \notin dropped \cup lost'["unload"]
                 PROVE  e \in row'.state \/ (doc.phase = "live" /\ e \in ydoc[doc.load])
      BY <1>1, <2>1 DEF InMemory, Owed
    <3>1. e \in row.state \/ (doc.phase = "live" /\ e \in ydoc[doc.load])
      BY <1>2 DEF SessionInv, InMemory, Owed
    <3> QED
      BY <2>3, <3>1
  <2> QED
    BY <1>3, <1>7, <2>4, <2>5, <2>6, <2>7 DEF SessionInv
<1> QED
  BY <1>9, <1>10, <1>11

LEMMA FailSession ==
    ASSUME RowInv, SessionInv, NEW s \in Stores, StoreFails(s)
    PROVE  SessionInv'
<1>0. Types
  BY DEF RowInv
<1>1. /\ store[s] # 0 /\ store' = [store EXCEPT ![s] = 0] /\ Unload(store[s])
      /\ \/ unsaved' = TRUE /\ dropped' = dropped
         \/ unsaved' = unsaved /\ dropped' = dropped \cup (ydoc[store[s]] \ row.state)
      /\ Loses("unload", IF Unloads(store[s]) THEN ydoc[store[s]] \ row.state ELSE {})
      /\ UNCHANGED <<row, ydoc, due, session, api>>
  BY DEF StoreFails
<1>2. /\ lost["unload"] \subseteq lost'["unload"] /\ lost'["create"] = lost["create"]
  BY <1>0, EditingLoses, Ways DEF Editing
<1>3. Numbered' /\ Apart'
  BY <1>1, <1>2 DEF SessionInv, Numbered, Apart
<1>4. store'[s] = 0 /\ \A r \in Stores \ {s} : store'[r] = store[r]
  BY <1>0, <1>1 DEF Types
<1>5. /\ doc'.load = doc.load /\ 0 \notin Loads /\ doc.load \in Nat /\ store[s] \in Loads
      /\ \/ Unloads(store[s]) /\ doc'.phase = "none"
         \/ ~Unloads(store[s]) /\ doc' = doc
  BY <1>0, <1>1, UnloadDoc, BoundsAssumption DEF Types, Loads
<1>6. Storing'
  <2>1. doc'.phase \in {doc.phase, "none"}
    BY <1>5
  <2> QED
    BY <1>1, <1>4, <1>5, <2>1 DEF SessionInv, Storing, Loads
<1>7. \A l \in Loads : (l = due' \/ \E r \in Stores : store'[r] = l)
                          => (l = due \/ \E r \in Stores : store[r] = l)
  BY <1>1, <1>4, <1>5
<1>8. dropped \subseteq dropped'
  BY <1>1
<1>9. CASE Unloads(store[s])
  <2>1. doc.phase = "live" /\ store[s] = doc.load /\ doc'.phase = "none"
    BY <1>5, <1>9 DEF Unloads, Live
  <2>2. Loses("unload", ydoc[doc.load] \ row.state) /\ ydoc[doc.load] \ row.state \in SUBSET Edits
    BY <1>0, <1>1, <1>5, <1>9, <2>1 DEF Types
  <2>3. lost'["unload"] = lost["unload"] \cup (ydoc[doc.load] \ row.state)
    BY <1>0, <2>2, LosesMore, Ways
  <2>4. Owing'
    BY <1>0, <1>1, <1>2, <1>7, <1>8, <2>1, <2>3, UnloadOwes
  <2> QED
    BY <1>3, <1>6, <2>4 DEF SessionInv, Owing
<1>10. CASE ~Unloads(store[s])
  <2>1. doc' = doc
    BY <1>5, <1>10
  <2>2. Kept' /\ InMemory'
    BY <1>1, <1>2, <1>8, <2>1 DEF SessionInv, Kept, InMemory, Owed, Loaded
  <2>3. Behind'
    BY <1>1, <1>2, <1>7, <1>8, <2>1 DEF SessionInv, Behind, Owed, Live, Loaded
  <2>4. Flagged'
    <3> SUFFICES ASSUME Loaded, ~unsaved' \/ due \notin {0, doc.load},
                        \A r \in Stores : store'[r] # doc.load,
                        NEW e \in ydoc[doc.load], e \in session,
                        e \notin dropped' \cup lost'["unload"]
                 PROVE  e \in row.state
      BY <1>1, <2>1 DEF Flagged, Owed, Loaded
    <3>1. CASE store[s] = doc.load
      <4>1. due \in {0, doc.load}
        BY <3>1 DEF SessionInv, Storing
      <4>2. dropped' = dropped \cup (ydoc[doc.load] \ row.state)
        BY <1>1, <3>1, <4>1
      <4> QED
        BY <4>2
    <3>2. CASE store[s] # doc.load
      <4>1. ~unsaved \/ due \notin {0, doc.load}
        BY <1>1
      <4>2. Owed(ydoc[doc.load]) \subseteq row.state
        BY <1>4, <3>2, <4>1 DEF SessionInv, Flagged
      <4> QED
        BY <1>2, <1>8, <4>2 DEF Owed
    <3> QED
      BY <3>1, <3>2
  <2> QED
    BY <1>3, <1>6, <2>2, <2>3, <2>4 DEF SessionInv
<1> QED
  BY <1>9, <1>10

LEMMA SessionStep ==
    ASSUME RowInv, SessionInv, [Next]_vars
    PROVE  SessionInv'
  BY OpeningSession, ChangeSession, LeavingSession, ListeningSession, CommitSession,
     BeginSession, StoreSession, FailSession DEF Next, Persist, FinishStore

LEMMA SessionInit == Init => SessionInv
<1> SUFFICES ASSUME Init PROVE SessionInv
  OBVIOUS
<1>1. session \cup api = 1..0 /\ 0 \in Nat
  BY DEF Init
<1>2. Numbered
  BY <1>1 DEF Numbered
<1>3. Apart /\ lost["create"] = {}
  BY Ways DEF Init, Apart
<1> QED
  BY <1>2, <1>3 DEF Init, SessionInv, Storing, Kept, Flagged, Behind, InMemory, Owed, Loaded, Loads

LEMMA SessionInvariant == Spec => [](RowInv /\ SessionInv)
<1>1. RowInv /\ SessionInv /\ [Next]_vars => SessionInv'
  BY SessionStep
<1> QED
  BY <1>1, RowInvariant, SessionInit, PTL DEF Spec

\* What was typed is in the row, in memory, given up, or was put at risk by an unloading,
\* through stores that fail and are tried again, several at once and of earlier loads,
\* the last editor leaving and coming back, and rewrites by the API.
THEOREM SessionEditsKept == Spec => []NoSessionEditLost
<1>1. SessionInv => NoSessionEditLost
  BY DEF SessionInv, InMemory, Owed, NoSessionEditLost
<1> QED
  BY <1>1, SessionInvariant, PTL
=============================================================================
