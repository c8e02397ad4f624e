------------------------- MODULE TablePresenceProofs -------------------------
(* Proofs about TablePresence, for any clients, processes and bounds.        *)
EXTENDS TablePresence, TLAPS

-----------------------------------------------------------------------------
(* What the parts that several handlers share do to the state.              *)

\* A view that fetches the document stays the view that it is.
LEMMA RefreshedView ==
    ASSUME NEW view \in View, NEW c
    PROVE  /\ Refreshed(view, c) \in View
           /\ Refreshed(view, c).mounted = view.mounted
           /\ Refreshed(view, c).socket = view.socket
  BY DEF Refreshed, View

\* So does one that loses its connection, or is closed.
LEMMA OfflineView ==
    ASSUME NEW view \in View
    PROVE  /\ Offline(view) \in View
           /\ Offline(view).mounted = view.mounted /\ Offline(view).socket = 0
<1>1. 0 \in 0..MaxSockets /\ {} \in SUBSET Clients
  BY BoundsAssumption
<1> QED
  BY <1>1 DEF Offline, View

LEMMA ClosedView ==
    ASSUME NEW view \in View
    PROVE  [view EXCEPT !.mounted = FALSE, !.roster = {}] \in View
  BY DEF View

LEMMA EmitView ==
    ASSUME TypeOK, NEW k \in Sockets, EmitTo(k)
    PROVE  /\ client' \in [Clients -> View]
           /\ \A c \in Clients : /\ client'[c].mounted = client[c].mounted
                                 /\ client'[c].socket = client[c].socket
<1>1. k[1] \in Clients
  BY DEF Sockets
<1>2. client[k[1]] \in View /\ client \in [Clients -> View]
  BY <1>1 DEF TypeOK
<1>3. Refreshed(client[k[1]], k[1]) \in View
  BY <1>2, RefreshedView
<1>4. CASE Current(k)
  <2>1. client' = [client EXCEPT ![k[1]] = Refreshed(client[k[1]], k[1])]
    BY <1>4 DEF EmitTo
  <2> QED
    BY <1>1, <1>2, <1>3, <2>1, RefreshedView
<1>5. CASE ~Current(k)
  BY <1>2, <1>5 DEF EmitTo
<1> QED
  BY <1>4, <1>5

\* A question of a handler.
LEMMA AskTask ==
    ASSUME NEW kind \in Kinds, NEW k \in Sockets, NEW w \in 1..MaxWatches,
           NEW roster \in SUBSET Clients
    PROVE  Ask(kind, k, w, roster) \in Task
  BY DEF Ask, Task

LEMMA AskAllTasks ==
    ASSUME TypeOK, NEW kind \in Kinds, NEW s \in Servers, NEW roster \in SUBSET Clients
    PROVE  AskAll(kind, s, roster) \subseteq Task
<1> SUFFICES ASSUME NEW k \in Watched(s)
             PROVE  Ask(kind, k, watching[k], roster) \in Task
  BY DEF AskAll
<1>1. k \in Sockets /\ watching[k] \in 1..MaxWatches
  BY BoundsAssumption DEF TypeOK, Watched
<1> QED
  BY <1>1, AskTask

\* Removing a watcher removes the request of its connection too, and nothing of others.
LEMMA RemoveEffect ==
    ASSUME TypeOK, NEW k \in Sockets, Remove(k)
    PROVE  /\ watching' = [watching EXCEPT ![k] = 0]
           /\ request' = [request EXCEPT ![k] = 0]
           /\ peers' \in [Servers -> SUBSET Clients] /\ rosterDue' \subseteq Servers
<1>1. request' = [request EXCEPT ![k] = 0]
  BY DEF Remove
<1>2. CASE watching[k] = 0
  BY <1>1, <1>2 DEF Remove, TypeOK
<1>3. CASE watching[k] # 0
  <2>1. PICK heard \in {{}, Servers} :
          LET forgets == heard \cup {server[k]}
          IN  /\ watching' = [watching EXCEPT ![k] = 0]
              /\ peers' = [s \in Servers |-> IF s \in forgets THEN peers[s] \ {k[1]} ELSE peers[s]]
              /\ rosterDue' = rosterDue \cup forgets
    BY <1>3 DEF Remove
  <2>2. server[k] \in Servers
    BY DEF TypeOK
  <2> QED
    BY <1>1, <2>1, <2>2 DEF TypeOK
<1> QED
  BY <1>2, <1>3

LEMMA AnnounceEffect ==
    ASSUME TypeOK, NEW k \in Sockets, NEW heard \in SUBSET Servers, Announce(k, heard)
    PROVE  peers' \in [Servers -> SUBSET Clients] /\ rosterDue' \subseteq Servers
<1>1. k[1] \in Clients /\ server[k] \in Servers
  BY DEF Sockets, TypeOK
<1> QED
  BY <1>1 DEF Announce, TypeOK

\* A new watch takes over the request of its connection.
LEMMA WatchEffect ==
    ASSUME TypeOK, NEW k \in Sockets, Watch(k)
    PROVE  /\ request' \in [Sockets -> 0..MaxWatches]
           /\ \A j \in Sockets : j # k => request'[j] = request[j]
           /\ tasks' \subseteq Task
           /\ UNCHANGED <<watching, peers, rosterDue, faults, readers>>
<1> DEFINE free == {n \in 1..MaxWatches : n # watching[k] /\
                       \A task \in tasks : task.socket = k => task.watcher # n}
<1>1. /\ free # {}
      /\ request' = [request EXCEPT ![k] = Any(free)]
      /\ tasks' = tasks \cup {Ask("watch", k, Any(free), {})}
      /\ UNCHANGED <<watching, peers, rosterDue, faults, readers>>
  BY DEF Watch
<1>2. Any(free) \in free
  BY <1>1 DEF Any
<1>3. Any(free) \in 1..MaxWatches
  BY <1>2
<1>4. Ask("watch", k, Any(free), {}) \in Task
  BY <1>3, AskTask DEF Kinds
<1>5. Any(free) \in 0..MaxWatches
  BY <1>3, BoundsAssumption
<1> HIDE DEF free
<1> QED
  BY <1>1, <1>4, <1>5 DEF TypeOK

-----------------------------------------------------------------------------
(* Type correctness.                                                        *)

\* The initial states are typed.
LEMMA InitType == Init => TypeOK
  BY BoundsAssumption DEF Init, TypeOK, View, Sockets

\* What the client does keeps the types.
LEMMA ClientType ==
    ASSUME TypeOK, NEW c \in Clients,
           \/ Connect(c) \/ WatchAgain(c) \/ Disconnect(c) \/ Unwatch(c)
           \/ SendPresence(c) \/ Grant(c)
    PROVE  TypeOK'
<1> USE BoundsAssumption
<1>1. CASE Connect(c)
  <2> DEFINE free == {n \in 1..MaxSockets : <<c, n>> \notin open /\
                          \A task \in tasks : task.socket # <<c, n>>}
             k == <<c, Any(free)>>
  <2>1. /\ free # {}
        /\ \E s \in Servers : server' = [server EXCEPT ![k] = s]
        /\ open' = open \cup {k}
        /\ client' = [client EXCEPT ![c] = Refreshed([client[c] EXCEPT !.socket = k[2]], c)]
        /\ Watch(k)
    BY <1>1 DEF Connect
  <2>2. Any(free) \in 1..MaxSockets
    BY <2>1 DEF Any
  <2> HIDE DEF free
  <2>3. k \in Sockets /\ k[2] \in 0..MaxSockets
    BY <2>2 DEF Sockets
  <2>4. [client[c] EXCEPT !.socket = k[2]] \in View
    BY <2>3 DEF TypeOK, View
  <2>5. client' \in [Clients -> View]
    BY <2>1, <2>4, RefreshedView DEF TypeOK
  <2> HIDE DEF k
  <2> QED
    BY <2>1, <2>3, <2>5, WatchEffect DEF TypeOK
<1>2. CASE WatchAgain(c)
  <2> DEFINE k == <<c, client[c].socket>>
  <2>1. client[c] \in View /\ client[c].socket # 0
    BY <1>2 DEF TypeOK, WatchAgain
  <2>2. k \in Sockets
    BY <2>1 DEF Sockets, View
  <2>3. Watch(k) /\ client' = [client EXCEPT ![c] = Refreshed(client[c], c)]
    BY <1>2 DEF WatchAgain
  <2>4. client' \in [Clients -> View]
    BY <2>1, <2>3, RefreshedView DEF TypeOK
  <2>5. UNCHANGED <<server, open>>
    BY <1>2 DEF WatchAgain
  <2> HIDE DEF k
  <2> QED
    BY <2>2, <2>3, <2>4, <2>5, WatchEffect DEF TypeOK
<1>3. CASE Disconnect(c)
  BY <1>3, OfflineView DEF Disconnect, TypeOK, connections, presence
<1>4. CASE Unwatch(c)
  <2> DEFINE k == <<c, client[c].socket>>
  <2>1. client' \in [Clients -> View]
    BY <1>4, ClosedView DEF Unwatch, TypeOK
  <2>2. UNCHANGED <<server, open, tasks, readers>>
    BY <1>4 DEF Unwatch, connections
  <2>3. CASE client[c].socket = 0
    BY <1>4, <2>1, <2>2, <2>3 DEF Unwatch, TypeOK, presence
  <2>4. CASE client[c].socket # 0
    <3>1. k \in Sockets
      BY <2>4 DEF Sockets, TypeOK, View
    <3>2. Remove(k)
      BY <1>4, <2>4 DEF Unwatch
    <3> HIDE DEF k
    <3> QED
      BY <2>1, <2>2, <3>1, <3>2, RemoveEffect DEF TypeOK
  <2> QED
    BY <2>3, <2>4
<1>5. CASE SendPresence(c)
  <2> DEFINE k == <<c, client[c].socket>>
  <2>1. k \in Sockets /\ watching[k] # 0
    BY <1>5 DEF SendPresence, Sockets, TypeOK, View
  <2>2. watching[k] \in 1..MaxWatches
    BY <2>1 DEF TypeOK
  <2>3. tasks' = tasks \cup {Ask("presence", k, watching[k], {})}
    BY <1>5 DEF SendPresence
  <2> HIDE DEF k
  <2>4. tasks' \subseteq Task
    BY <2>1, <2>2, <2>3, AskTask DEF TypeOK, Kinds
  <2> QED
    BY <1>5, <2>4 DEF SendPresence, TypeOK, connections, presence
<1>6. CASE Grant(c)
  BY <1>6 DEF Grant, TypeOK, connections, presence
<1> QED
  BY <1>1, <1>2, <1>3, <1>4, <1>5, <1>6

\* What a process does of itself, and the database, keeps the types.
LEMMA ServerType ==
    ASSUME TypeOK,
           \/ \E k \in Sockets : RemoveSocket(k)
           \/ \E s \in Servers : SendRoster(s) \/ RefreshPresence(s) \/ Exit(s)
           \/ \E s \in Servers, c \in Clients : Expire(s, c)
           \/ Commit
    PROVE  TypeOK'
<1> USE BoundsAssumption
<1>1. ASSUME NEW k \in Sockets, RemoveSocket(k) PROVE TypeOK'
  <2>1. open' = open \ {k} /\ UNCHANGED <<client, server, tasks, readers>>
    BY <1>1 DEF RemoveSocket
  <2>2. CASE watching[k] = 0
    BY <1>1, <2>1, <2>2 DEF RemoveSocket, TypeOK, presence
  <2>3. CASE watching[k] # 0
    <3>1. Remove(k)
      BY <1>1, <2>3 DEF RemoveSocket
    <3> QED
      BY <2>1, <3>1, RemoveEffect DEF TypeOK
  <2> QED
    BY <2>2, <2>3
<1>2. ASSUME NEW s \in Servers, SendRoster(s) PROVE TypeOK'
  <2>1. peers[s] \in SUBSET Clients
    BY DEF TypeOK
  <2>2. AskAll("roster", s, peers[s]) \subseteq Task
    BY <2>1, AskAllTasks DEF Kinds
  <2> QED
    BY <1>2, <2>2 DEF SendRoster, TypeOK, connections
<1>3. ASSUME NEW s \in Servers, RefreshPresence(s) PROVE TypeOK'
  <2>1. AskAll("beat", s, {}) \subseteq Task
    BY AskAllTasks DEF Kinds
  <2> QED
    BY <1>3, <2>1 DEF RefreshPresence, TypeOK, connections, presence
<1>4. ASSUME NEW s \in Servers, Exit(s) PROVE TypeOK'
  <2> DEFINE here == {k \in open : server[k] = s}
  <2>1. client' \in [Clients -> View]
    <3>1. client' = [c \in Clients |-> IF <<c, client[c].socket>> \in here
                                       THEN Offline(client[c])
                                       ELSE client[c]]
      BY <1>4 DEF Exit
    <3>2. ASSUME NEW c \in Clients
          PROVE  client[c] \in View /\ Offline(client[c]) \in View
      BY OfflineView DEF TypeOK
    <3> HIDE DEF here
    <3> QED
      BY <3>1, <3>2
  <2>2. \E told \in {{}, {k[1] : k \in Watched(s)}} :
           /\ peers' = [t \in Servers |-> IF t = s THEN {} ELSE peers[t] \ told]
           /\ rosterDue' = (IF told = {} THEN rosterDue ELSE Servers) \ {s}
    BY <1>4 DEF Exit
  <2>3. peers' \in [Servers -> SUBSET Clients] /\ rosterDue' \subseteq Servers
    BY <2>2 DEF TypeOK
  <2>4. /\ watching' = [k \in Sockets |-> IF k \in here THEN 0 ELSE watching[k]]
        /\ request' = [k \in Sockets |-> IF k \in here THEN 0 ELSE request[k]]
        /\ tasks' \subseteq tasks /\ open' \subseteq open
        /\ UNCHANGED <<server, readers>>
    BY <1>4 DEF Exit
  <2> HIDE DEF here
  <2> QED
    BY <2>1, <2>3, <2>4 DEF TypeOK
<1>5. ASSUME NEW s \in Servers, NEW c \in Clients, Expire(s, c) PROVE TypeOK'
  BY <1>5 DEF Expire, TypeOK, connections
<1>6. CASE Commit
  <2>1. client' \in [Clients -> View]
    <3>1. ASSUME NEW c \in Clients
          PROVE  [client[c] EXCEPT !.shows = IF client[c].shows = "last" THEN "old"
                                             ELSE client[c].shows] \in View
      <4>1. client[c] \in View
        BY DEF TypeOK
      <4>2. CASE client[c].shows = "last"
        BY <4>1, <4>2 DEF View
      <4>3. CASE client[c].shows # "last"
        BY <4>1, <4>3 DEF View
      <4> QED
        BY <4>2, <4>3
    <3>2. client' = [c \in Clients |-> [client[c] EXCEPT !.shows =
                        IF client[c].shows = "last" THEN "old" ELSE client[c].shows]]
      BY <1>6 DEF Commit
    <3> QED
      BY <3>1, <3>2
  <2>2. PICK heard \in {{}, Servers} :
           tasks' = tasks \cup UNION {AskAll("notify", s, {}) : s \in heard}
    BY <1>6 DEF Commit
  <2>3. \A s \in heard : AskAll("notify", s, {}) \subseteq Task
    BY AskAllTasks DEF Kinds
  <2>4. tasks' \subseteq Task
    BY <2>2, <2>3 DEF TypeOK
  <2> QED
    BY <1>6, <2>1, <2>4 DEF Commit, TypeOK, connections, presence
<1> QED
  BY <1>1, <1>2, <1>3, <1>4, <1>5, <1>6

\* What a handler does with the answer keeps the types.
LEMMA HandlerType ==
    ASSUME TypeOK, NEW task \in tasks, Handle(task)
    PROVE  TypeOK'
<1> DEFINE k == task.socket
<1>1. task \in Task /\ k \in Sockets /\ tasks \ {task} \subseteq Task
  BY DEF TypeOK, Task
<1>2. {} \in SUBSET Servers /\ Servers \in SUBSET Servers
  OBVIOUS
<1> USE BoundsAssumption
<1>3. CASE Register(task)
  <2>1. UNCHANGED <<server, open, request, readers>>
    BY <1>3 DEF Register, connections
  <2>2. CASE /\ watching' = [watching EXCEPT ![k] = task.watcher]
             /\ EmitTo(k)
             /\ \E heard \in {{}, Servers} :
                   /\ Announce(k, heard)
                   /\ tasks' = (tasks \ {task}) \cup {Ask("request", w, watching'[w], {}) :
                                  w \in {w \in open : heard # {} /\ watching'[w] # 0}}
    <3>1. watching' \in [Sockets -> 0..MaxWatches]
      BY <1>1, <2>2 DEF TypeOK, Task
    <3>2. client' \in [Clients -> View]
      BY <1>1, <2>2, EmitView
    <3>3. PICK heard \in {{}, Servers} :
             /\ Announce(k, heard)
             /\ tasks' = (tasks \ {task}) \cup {Ask("request", w, watching'[w], {}) :
                            w \in {w \in open : heard # {} /\ watching'[w] # 0}}
      BY <2>2
    <3>4. peers' \in [Servers -> SUBSET Clients] /\ rosterDue' \subseteq Servers
      BY <1>1, <1>2, <3>3, AnnounceEffect
    <3>5. ASSUME NEW w \in open, watching'[w] # 0
          PROVE  Ask("request", w, watching'[w], {}) \in Task
      <4>1. w \in Sockets /\ watching'[w] \in 1..MaxWatches
        BY <3>1, <3>5 DEF TypeOK
      <4> QED
        BY <4>1, AskTask DEF Kinds
    <3>6. tasks' \subseteq Task
      BY <1>1, <3>3, <3>5
    <3> QED
      BY <2>1, <3>1, <3>2, <3>4, <3>6 DEF TypeOK
  <2>3. CASE tasks' = tasks \ {task} /\ UNCHANGED <<watching, client, peers, rosterDue, faults>>
    BY <1>1, <2>1, <2>3 DEF TypeOK
  <2> QED
    BY <1>3, <2>2, <2>3 DEF Register
<1>4. CASE Notify(task)
  <2>1. tasks' = tasks \ {task} /\ EmitTo(k) /\ UNCHANGED <<server, open, readers>>
    BY <1>4 DEF Notify, connections
  <2>2. CASE UNCHANGED presence
    BY <1>1, <2>1, <2>2, EmitView DEF TypeOK, presence
  <2>3. CASE Remove(k)
    BY <1>1, <2>1, <2>3, EmitView, RemoveEffect DEF TypeOK
  <2> QED
    BY <1>4, <2>2, <2>3 DEF Notify
<1>5. CASE UpdatePresence(task)
  <2>1. tasks' = tasks \ {task} /\ UNCHANGED <<server, open, readers>>
    BY <1>5 DEF UpdatePresence, connections
  <2>2. CASE UNCHANGED <<client, presence, faults>>
    BY <1>1, <2>1, <2>2 DEF TypeOK, presence
  <2>3. CASE /\ \E heard \in {{}, Servers} : Announce(k, heard)
             /\ UNCHANGED <<client, watching, request>>
    BY <1>1, <1>2, <2>1, <2>3, AnnounceEffect DEF TypeOK
  <2>4. CASE Remove(k) /\ EmitTo(k)
    BY <1>1, <2>1, <2>4, EmitView, RemoveEffect DEF TypeOK
  <2> QED
    BY <1>5, <2>2, <2>3, <2>4 DEF UpdatePresence
<1>6. CASE AnswerRequest(task)
  <2>1. tasks' = tasks \ {task} /\ UNCHANGED <<client, server, open, watching, request, readers>>
    BY <1>6 DEF AnswerRequest, connections
  <2>2. CASE \E heard \in {{}, Servers} : Announce(k, heard)
    BY <1>1, <1>2, <2>1, <2>2, AnnounceEffect DEF TypeOK
  <2>3. CASE UNCHANGED <<peers, rosterDue, faults>>
    BY <1>1, <2>1, <2>3 DEF TypeOK
  <2> QED
    BY <1>6, <2>2, <2>3 DEF AnswerRequest
<1>7. CASE DeliverRoster(task)
  <2>1. tasks' = tasks \ {task} /\ UNCHANGED <<server, open, readers>>
    BY <1>7 DEF DeliverRoster, connections
  <2>2. CASE Remove(k) /\ EmitTo(k)
    BY <1>1, <2>1, <2>2, EmitView, RemoveEffect DEF TypeOK
  <2>3. CASE /\ client' = IF watching[k] = task.watcher /\ Current(k)
                          THEN [client EXCEPT ![k[1]].roster = task.roster] ELSE client
             /\ UNCHANGED <<presence, faults>>
    <3>1. k[1] \in Clients /\ task.roster \in SUBSET Clients
      BY <1>1 DEF Sockets, Task
    <3>2. client' \in [Clients -> View]
      BY <2>3, <3>1 DEF TypeOK, View
    <3> QED
      BY <1>1, <2>1, <2>3, <3>2 DEF TypeOK, presence
  <2> QED
    BY <1>7, <2>2, <2>3 DEF DeliverRoster
<1>8. CASE Beat(task)
  <2>1. tasks' = tasks \ {task} /\ UNCHANGED <<server, open, readers>>
    BY <1>8 DEF Beat, connections
  <2>2. CASE /\ \E heard \in {{}, Servers} : Announce(k, heard)
             /\ UNCHANGED <<client, watching, request>>
    BY <1>1, <1>2, <2>1, <2>2, AnnounceEffect DEF TypeOK
  <2>3. CASE Remove(k) /\ EmitTo(k)
    BY <1>1, <2>1, <2>3, EmitView, RemoveEffect DEF TypeOK
  <2> QED
    BY <1>8, <2>2, <2>3 DEF Beat
<1> QED
  BY <1>3, <1>4, <1>5, <1>6, <1>7, <1>8 DEF Handle

\* Every step keeps the types.
LEMMA TypeStep == TypeOK /\ [Next]_vars => TypeOK'
<1> SUFFICES ASSUME TypeOK, [Next]_vars PROVE TypeOK'
  OBVIOUS
<1>1. CASE Next
  BY <1>1, ClientType, ServerType, HandlerType DEF Next
<1>2. CASE UNCHANGED vars
  BY <1>2 DEF vars, connections, presence, TypeOK
<1> QED
  BY <1>1, <1>2

\* The state is always typed: clients, connections, watchers, peers and the handlers
\* that are under way.
THEOREM TypeCorrect == Spec => []TypeOK
  BY InitType, TypeStep, PTL DEF Spec

-----------------------------------------------------------------------------
(* No watcher is left behind.                                               *)

\* A connection is clear if it has no watcher unless it is open, and neither a watcher
\* nor a request for one on behalf of a view that was closed while it was connected.
Clear(k) ==
    /\ watching[k] # 0 => k \in open
    /\ client[k[1]].socket = k[2] /\ ~client[k[1]].mounted =>
          watching[k] = 0 /\ request[k] = 0

AllClear == \A k \in Sockets : Clear(k)

\* Initially nothing is watched.
LEMMA InitClear == Init => AllClear
  BY DEF Init, AllClear, Clear, Sockets

\* A step that mounts no view, connects none and only takes watchers and requests away
\* keeps connections clear, if those that it closes lose their watchers.
LEMMA LessIsClear ==
    ASSUME TypeOK, AllClear,
           \A c \in Clients : /\ client'[c].mounted = client[c].mounted
                              /\ client'[c].socket \in {client[c].socket, 0},
           \A k \in Sockets : /\ watching'[k] \in {watching[k], 0}
                              /\ request'[k] \in {request[k], 0}
                              /\ watching'[k] # 0 /\ k \in open => k \in open'
    PROVE  AllClear'
<1> SUFFICES ASSUME NEW k \in Sockets PROVE Clear(k)'
  BY DEF AllClear
<1>1. k[1] \in Clients /\ k[2] # 0
  BY DEF Sockets
<1> QED
  BY <1>1 DEF AllClear, Clear

\* The same of a step that removes the watcher of one connection, or of none.
LEMMA RemoveIsClear ==
    ASSUME TypeOK, AllClear, NEW k \in Sockets, Remove(k) \/ UNCHANGED <<watching, request>>,
           open' = open,
           \A c \in Clients : /\ client'[c].mounted = client[c].mounted
                              /\ client'[c].socket = client[c].socket
    PROVE  AllClear'
<1>1. \A j \in Sockets : watching'[j] \in {watching[j], 0} /\ request'[j] \in {request[j], 0}
  <2>1. CASE Remove(k)
    BY <2>1, RemoveEffect DEF TypeOK
  <2>2. CASE UNCHANGED <<watching, request>>
    BY <2>2
  <2> QED
    BY <2>1, <2>2
<1> QED
  BY <1>1, LessIsClear

\* What the client does keeps connections clear.
LEMMA ClientClear ==
    ASSUME TypeOK, AllClear, NEW c \in Clients,
           \/ Connect(c) \/ WatchAgain(c) \/ Disconnect(c) \/ Unwatch(c)
           \/ SendPresence(c) \/ Grant(c)
    PROVE  AllClear'
<1> USE BoundsAssumption
<1>1. CASE Connect(c)
  <2> DEFINE free == {n \in 1..MaxSockets : <<c, n>> \notin open /\
                          \A task \in tasks : task.socket # <<c, n>>}
             k == <<c, Any(free)>>
  <2>1. /\ free # {} /\ client[c].mounted
        /\ open' = open \cup {k}
        /\ client' = [client EXCEPT ![c] = Refreshed([client[c] EXCEPT !.socket = k[2]], c)]
        /\ Watch(k)
    BY <1>1 DEF Connect
  <2>2. Any(free) \in 1..MaxSockets
    BY <2>1 DEF Any
  <2> HIDE DEF free
  <2>3. k \in Sockets /\ k[1] = c /\ k[2] \in 0..MaxSockets
    BY <2>2 DEF Sockets
  <2>4. /\ [client[c] EXCEPT !.socket = k[2]] \in View
        /\ [client[c] EXCEPT !.socket = k[2]].mounted = client[c].mounted
    BY <2>3 DEF TypeOK, View
  <2>5. client'[c].mounted /\ \A d \in Clients \ {c} : client'[d] = client[d]
    BY <2>1, <2>4, RefreshedView DEF TypeOK
  <2> HIDE DEF k
  <2>6. SUFFICES ASSUME NEW j \in Sockets PROVE Clear(j)'
    BY DEF AllClear
  <2>7. watching' = watching /\ (j # k => request'[j] = request[j]) /\ j[1] \in Clients
    BY <2>1, <2>3, WatchEffect DEF Sockets
  <2> QED
    BY <2>1, <2>3, <2>5, <2>7 DEF AllClear, Clear
<1>2. CASE WatchAgain(c)
  <2> DEFINE k == <<c, client[c].socket>>
  <2>1. client[c] \in View /\ client[c].socket # 0 /\ client[c].mounted
    BY <1>2 DEF TypeOK, WatchAgain
  <2>2. k \in Sockets /\ k[1] = c
    BY <2>1 DEF Sockets, View
  <2>3. /\ Watch(k) /\ open' = open
        /\ client' = [client EXCEPT ![c] = Refreshed(client[c], c)]
    BY <1>2 DEF WatchAgain
  <2>4. client'[c].mounted /\ \A d \in Clients \ {c} : client'[d] = client[d]
    BY <2>1, <2>3, RefreshedView DEF TypeOK
  <2> HIDE DEF k
  <2>5. SUFFICES ASSUME NEW j \in Sockets PROVE Clear(j)'
    BY DEF AllClear
  <2>6. watching' = watching /\ (j # k => request'[j] = request[j]) /\ j[1] \in Clients
    BY <2>2, <2>3, WatchEffect DEF Sockets
  <2> QED
    BY <2>2, <2>3, <2>4, <2>6 DEF AllClear, Clear
<1>3. CASE Disconnect(c)
  <2>1. \A d \in Clients : /\ client'[d].mounted = client[d].mounted
                           /\ client'[d].socket \in {client[d].socket, 0}
    BY <1>3, OfflineView DEF Disconnect, TypeOK
  <2>2. UNCHANGED <<open, watching, request>>
    BY <1>3 DEF Disconnect, connections, presence
  <2> QED
    BY <2>1, <2>2, LessIsClear
<1>4. CASE Unwatch(c)
  <2> DEFINE k == <<c, client[c].socket>>
  <2>1. open' = open /\ \A d \in Clients : /\ client'[d].socket = client[d].socket
                                           /\ d # c => client'[d].mounted = client[d].mounted
    <3>1. client' = [client EXCEPT ![c] = [client[c] EXCEPT !.mounted = FALSE, !.roster = {}]]
      BY <1>4 DEF Unwatch
    <3>2. [client[c] EXCEPT !.mounted = FALSE, !.roster = {}].socket = client[c].socket
      BY DEF TypeOK, View
    <3> QED
      BY <1>4, <3>1, <3>2 DEF Unwatch, TypeOK, connections
  <2>2. SUFFICES ASSUME NEW j \in Sockets PROVE Clear(j)'
    BY DEF AllClear
  <2>3. j[1] \in Clients /\ j[2] # 0 /\ j = <<j[1], j[2]>>
    BY DEF Sockets
  <2>4. CASE client[c].socket = 0
    <3>1. UNCHANGED <<watching, request>>
      BY <1>4, <2>4 DEF Unwatch, presence
    <3> QED
      BY <2>1, <2>3, <2>4, <3>1 DEF AllClear, Clear
  <2>5. CASE client[c].socket # 0
    <3>1. k \in Sockets /\ k[1] = c /\ k[2] = client[c].socket
      BY <2>5 DEF Sockets, TypeOK, View
    <3>2. Remove(k)
      BY <1>4, <2>5 DEF Unwatch
    <3>3. j[1] = c /\ j[2] = client[c].socket => j = k
      BY <2>3
    <3> HIDE DEF k
    <3>4. /\ watching' = [watching EXCEPT ![k] = 0]
          /\ request' = [request EXCEPT ![k] = 0]
      BY <3>1, <3>2, RemoveEffect
    <3>5. CASE j = k
      BY <3>4, <3>5 DEF Clear, TypeOK
    <3>6. CASE j # k
      BY <2>1, <2>3, <3>3, <3>4, <3>6 DEF AllClear, Clear, TypeOK
    <3> QED
      BY <3>5, <3>6
  <2> QED
    BY <2>4, <2>5
<1>5. CASE SendPresence(c)
  BY <1>5, LessIsClear DEF SendPresence, connections, presence
<1>6. CASE Grant(c)
  BY <1>6, LessIsClear DEF Grant, connections, presence
<1> QED
  BY <1>1, <1>2, <1>3, <1>4, <1>5, <1>6

\* What a process does of itself, and the database, keeps connections clear.
LEMMA ServerClear ==
    ASSUME TypeOK, AllClear,
           \/ \E k \in Sockets : RemoveSocket(k)
           \/ \E s \in Servers : SendRoster(s) \/ RefreshPresence(s) \/ Exit(s)
           \/ \E s \in Servers, c \in Clients : Expire(s, c)
           \/ Commit
    PROVE  AllClear'
<1>1. ASSUME NEW k \in Sockets, RemoveSocket(k) PROVE AllClear'
  <2>1. open' = open \ {k} /\ client' = client
    BY <1>1 DEF RemoveSocket
  <2>2. \A j \in Sockets : /\ watching'[j] = IF j = k THEN 0 ELSE watching[j]
                           /\ request'[j] \in {request[j], 0}
    <3>1. CASE watching[k] = 0
      BY <1>1, <3>1 DEF RemoveSocket, presence
    <3>2. CASE Remove(k)
      BY <3>2, RemoveEffect DEF TypeOK
    <3> QED
      BY <1>1, <3>1, <3>2 DEF RemoveSocket
  <2> QED
    BY <2>1, <2>2, LessIsClear
<1>2. ASSUME NEW s \in Servers, SendRoster(s) PROVE AllClear'
  BY <1>2, LessIsClear DEF SendRoster, connections
<1>3. ASSUME NEW s \in Servers, RefreshPresence(s) PROVE AllClear'
  BY <1>3, LessIsClear DEF RefreshPresence, connections, presence
<1>4. ASSUME NEW s \in Servers, Exit(s) PROVE AllClear'
  <2> DEFINE here == {k \in open : server[k] = s}
  <2>1. /\ open' = open \ here
        /\ client' = [c \in Clients |-> IF <<c, client[c].socket>> \in here
                                        THEN Offline(client[c]) ELSE client[c]]
        /\ watching' = [k \in Sockets |-> IF k \in here THEN 0 ELSE watching[k]]
        /\ request' = [k \in Sockets |-> IF k \in here THEN 0 ELSE request[k]]
    BY <1>4 DEF Exit
  <2> HIDE DEF here
  <2>2. \A c \in Clients : /\ client'[c].mounted = client[c].mounted
                           /\ client'[c].socket \in {client[c].socket, 0}
    BY <2>1, OfflineView DEF TypeOK
  <2>3. \A k \in Sockets : /\ watching'[k] \in {watching[k], 0}
                           /\ request'[k] \in {request[k], 0}
                           /\ watching'[k] # 0 /\ k \in open => k \in open'
    BY <2>1
  <2> QED
    BY <2>2, <2>3, LessIsClear
<1>5. ASSUME NEW s \in Servers, NEW c \in Clients, Expire(s, c) PROVE AllClear'
  BY <1>5, LessIsClear DEF Expire, connections
<1>6. CASE Commit
  <2>1. client' = [c \in Clients |-> [client[c] EXCEPT !.shows =
                      IF client[c].shows = "last" THEN "old" ELSE client[c].shows]]
    BY <1>6 DEF Commit
  <2>2. ASSUME NEW c \in Clients, NEW shown
        PROVE  /\ [client[c] EXCEPT !.shows = shown].mounted = client[c].mounted
               /\ [client[c] EXCEPT !.shows = shown].socket = client[c].socket
    BY DEF TypeOK, View
  <2>3. \A c \in Clients : /\ client'[c].mounted = client[c].mounted
                           /\ client'[c].socket = client[c].socket
    BY <2>1, <2>2
  <2> QED
    BY <1>6, <2>3, LessIsClear DEF Commit, connections, presence
<1> QED
  BY <1>1, <1>2, <1>3, <1>4, <1>5, <1>6

\* What a handler does with its answer keeps connections clear: a request that was
\* removed registers no watcher.
LEMMA HandlerClear ==
    ASSUME TypeOK, AllClear, NEW task \in tasks, Handle(task)
    PROVE  AllClear'
<1> DEFINE k == task.socket
<1>1. k \in Sockets /\ k[1] \in Clients /\ task.watcher # 0 /\ task.roster \in SUBSET Clients
  BY DEF TypeOK, Task, Sockets
<1>2. CASE Register(task)
  <2>1. UNCHANGED <<open, request>>
    BY <1>2 DEF Register, connections
  <2>2. CASE /\ k \in open /\ request[k] = task.watcher
             /\ watching' = [watching EXCEPT ![k] = task.watcher]
             /\ EmitTo(k)
    <3>1. \A c \in Clients : /\ client'[c].mounted = client[c].mounted
                             /\ client'[c].socket = client[c].socket
      BY <1>1, <2>2, EmitView
    <3>2. SUFFICES ASSUME NEW j \in Sockets PROVE Clear(j)'
      BY DEF AllClear
    <3>3. j[1] \in Clients
      BY DEF Sockets
    <3>4. CASE j = k
      BY <1>1, <2>1, <2>2, <3>1, <3>3, <3>4 DEF AllClear, Clear
    <3>5. CASE j # k
      BY <2>1, <2>2, <3>1, <3>3, <3>5 DEF AllClear, Clear, TypeOK
    <3> QED
      BY <3>4, <3>5
  <2>3. CASE UNCHANGED <<watching, client, peers, rosterDue, faults>>
    BY <2>1, <2>3, LessIsClear
  <2> QED
    BY <1>2, <2>2, <2>3 DEF Register
<1>3. CASE Notify(task)
  <2>1. open' = open /\ EmitTo(k) /\ (Remove(k) \/ UNCHANGED <<watching, request>>)
    BY <1>3 DEF Notify, connections, presence
  <2> QED
    BY <1>1, <2>1, EmitView, RemoveIsClear
<1>4. CASE UpdatePresence(task)
  <2>1. /\ open' = open
        /\ \/ client' = client /\ UNCHANGED <<watching, request>>
           \/ Remove(k) /\ EmitTo(k)
    BY <1>4 DEF UpdatePresence, connections, presence
  <2> QED
    BY <1>1, <2>1, EmitView, RemoveIsClear
<1>5. CASE AnswerRequest(task)
  BY <1>5, LessIsClear DEF AnswerRequest, connections
<1>6. CASE DeliverRoster(task)
  <2>1. open' = open
    BY <1>6 DEF DeliverRoster, connections
  <2>2. CASE Remove(k) /\ EmitTo(k)
    BY <1>1, <2>1, <2>2, EmitView, RemoveIsClear
  <2>3. CASE /\ client' = IF watching[k] = task.watcher /\ Current(k)
                          THEN [client EXCEPT ![k[1]].roster = task.roster] ELSE client
             /\ UNCHANGED <<presence, faults>>
    <3>1. \A c \in Clients : /\ client'[c].mounted = client[c].mounted
                             /\ client'[c].socket = client[c].socket
      BY <1>1, <2>3 DEF TypeOK, View
    <3> QED
      BY <2>1, <2>3, <3>1, LessIsClear DEF presence
  <2> QED
    BY <1>6, <2>2, <2>3 DEF DeliverRoster
<1>7. CASE Beat(task)
  <2>1. /\ open' = open
        /\ \/ client' = client /\ UNCHANGED <<watching, request>>
           \/ Remove(k) /\ EmitTo(k)
    BY <1>7 DEF Beat, connections
  <2> QED
    BY <1>1, <2>1, EmitView, RemoveIsClear
<1> QED
  BY <1>2, <1>3, <1>4, <1>5, <1>6, <1>7 DEF Handle

\* Every step keeps connections clear.
LEMMA ClearStep == TypeOK /\ AllClear /\ [Next]_vars => AllClear'
<1> SUFFICES ASSUME TypeOK, AllClear, [Next]_vars PROVE AllClear'
  OBVIOUS
<1>1. CASE Next
  BY <1>1, ClientClear, ServerClear, HandlerClear DEF Next
<1>2. CASE UNCHANGED vars
  BY <1>2, LessIsClear DEF vars, connections, presence
<1> QED
  BY <1>1, <1>2

\* A watcher belongs to an open connection, and never to a view that was closed, whatever
\* watches, removals and permission checks overtake one another.
THEOREM NoGhosts == Spec => []NoGhostWatch
<1>1. Init => TypeOK /\ AllClear
  BY InitType, InitClear
<1>2. TypeOK /\ AllClear /\ [Next]_vars => (TypeOK /\ AllClear)'
  BY TypeStep, ClearStep
<1>3. TypeOK /\ AllClear => NoGhostWatch
  BY DEF AllClear, Clear, NoGhostWatch
<1> QED
  BY <1>1, <1>2, <1>3, PTL DEF Spec

-----------------------------------------------------------------------------
(* No change of the document is missed.                                     *)

\* What a connection's view may still lack.
Told(k) ==
    \/ watching[k] = 0 \/ ~Current(k) \/ faults > 0
    \/ client[k[1]].shows # "old"
    \/ \E task \in tasks : task.kind = "notify" /\ task.socket = k

FaultsOK == faults \in Nat

\* Failures are only ever counted up.
LEMMA PublishFaults ==
    ASSUME FaultsOK, NEW heard, Publish(heard)
    PROVE  faults' \in Nat /\ faults' >= faults
  BY DEF Publish, FaultsOK

LEMMA RemoveFaults ==
    ASSUME FaultsOK, NEW k, Remove(k)
    PROVE  faults' \in Nat /\ faults' >= faults
<1>1. CASE watching[k] = 0
  BY <1>1 DEF Remove, FaultsOK
<1>2. CASE watching[k] # 0
  BY <1>2, PublishFaults DEF Remove
<1> QED
  BY <1>1, <1>2

LEMMA AnnounceFaults ==
    ASSUME FaultsOK, NEW k, NEW heard, Announce(k, heard)
    PROVE  faults' \in Nat /\ faults' >= faults
  BY PublishFaults DEF Announce

LEMMA FaultsStep ==
    ASSUME FaultsOK, [Next]_vars
    PROVE  faults' \in Nat /\ faults' >= faults
<1>1. CASE UNCHANGED faults
  BY <1>1 DEF FaultsOK
<1>2. ASSUME NEW c \in Clients,
             \/ Connect(c) \/ WatchAgain(c) \/ Disconnect(c) \/ Unwatch(c)
             \/ SendPresence(c) \/ Grant(c)
      PROVE  faults' \in Nat /\ faults' >= faults
  BY <1>1, <1>2, RemoveFaults
     DEF Connect, WatchAgain, Disconnect, Unwatch, SendPresence, Grant, Watch
<1>3. ASSUME NEW k \in Sockets, RemoveSocket(k)
      PROVE  faults' \in Nat /\ faults' >= faults
  BY <1>1, <1>3, RemoveFaults DEF RemoveSocket
<1>4. ASSUME NEW s \in Servers,
             \/ SendRoster(s) \/ RefreshPresence(s) \/ Exit(s)
             \/ \E c \in Clients : Expire(s, c)
      PROVE  faults' \in Nat /\ faults' >= faults
  BY <1>1, <1>4 DEF SendRoster, RefreshPresence, Exit, Expire, FaultsOK
<1>5. ASSUME NEW task \in tasks, Handle(task)
      PROVE  faults' \in Nat /\ faults' >= faults
  <2>1. CASE Register(task)
    BY <1>1, <2>1, AnnounceFaults DEF Register
  <2>2. CASE Notify(task)
    BY <1>1, <2>2, RemoveFaults DEF Notify
  <2>3. CASE UpdatePresence(task)
    BY <1>1, <2>3, RemoveFaults, AnnounceFaults DEF UpdatePresence
  <2>4. CASE AnswerRequest(task)
    BY <1>1, <2>4, AnnounceFaults DEF AnswerRequest
  <2>5. CASE DeliverRoster(task)
    BY <1>1, <2>5, RemoveFaults DEF DeliverRoster
  <2>6. CASE Beat(task)
    BY <1>1, <2>6, RemoveFaults, AnnounceFaults DEF Beat
  <2> QED
    BY <1>5, <2>1, <2>2, <2>3, <2>4, <2>5, <2>6 DEF Handle
<1>6. ASSUME Commit PROVE faults' \in Nat /\ faults' >= faults
  BY <1>6, PublishFaults DEF Commit
<1>7. CASE UNCHANGED vars
  BY <1>1, <1>7 DEF vars
<1> QED
  BY <1>2, <1>3, <1>4, <1>5, <1>6, <1>7 DEF Next

\* A fetch leaves no old revision behind, for the one who fetches; other views stay.
LEMMA EmitShows ==
    ASSUME TypeOK, NEW k \in Sockets, EmitTo(k)
    PROVE  /\ \A c \in Clients : /\ client'[c].mounted = client[c].mounted
                                 /\ client'[c].socket = client[c].socket
                                 /\ client'[c].shows \in {client[c].shows, "last", "nothing"}
           /\ Current(k)' => client'[k[1]].shows # "old"
<1>1. k[1] \in Clients /\ client \in [Clients -> View]
  BY DEF Sockets, TypeOK
<1>2. client[k[1]] \in View
  BY <1>1
<1>3. /\ Refreshed(client[k[1]], k[1]).shows \in {"last", "nothing"}
      /\ Refreshed(client[k[1]], k[1]).mounted = client[k[1]].mounted
      /\ Refreshed(client[k[1]], k[1]).socket = client[k[1]].socket
  BY <1>2 DEF Refreshed, View
<1>4. CASE Current(k)
  <2>1. client' = [client EXCEPT ![k[1]] = Refreshed(client[k[1]], k[1])]
    BY <1>4 DEF EmitTo
  <2> HIDE DEF Refreshed
  <2> QED
    BY <1>1, <1>3, <2>1
<1>5. CASE ~Current(k)
  BY <1>1, <1>5 DEF EmitTo, Current
<1> QED
  BY <1>4, <1>5

\* A step leaves every view told that changes nothing of a view but its roster, or makes it
\* fetch, and takes a notification away only by delivering it.
LEMMA StaysTold ==
    ASSUME TypeOK, FaultsOK, NoMissedChange, faults' \in Nat, faults' >= faults,
           open' \subseteq Sockets,
           \A k \in open' :
              \/ ~Current(k)' \/ client'[k[1]].shows # "old"
              \/ /\ k \in open /\ watching'[k] \in {0, watching[k]}
                 /\ client'[k[1]].mounted = client[k[1]].mounted
                 /\ client'[k[1]].socket = client[k[1]].socket
                 /\ client'[k[1]].shows = client[k[1]].shows,
           \A task \in tasks : task.kind = "notify" =>
              \/ task \in tasks' \/ ~Current(task.socket)'
              \/ client'[task.socket[1]].shows # "old"
    PROVE  NoMissedChange'
<1> SUFFICES ASSUME NEW k \in open' PROVE Told(k)'
  BY DEF NoMissedChange, Told
<1>1. CASE ~Current(k)' \/ client'[k[1]].shows # "old"
  BY <1>1 DEF Told
<1>2. CASE /\ k \in open /\ watching'[k] \in {0, watching[k]}
           /\ client'[k[1]].mounted = client[k[1]].mounted
           /\ client'[k[1]].socket = client[k[1]].socket
           /\ client'[k[1]].shows = client[k[1]].shows
  <2>1. Told(k)
    BY <1>2 DEF NoMissedChange, Told
  <2>2. Current(k)' <=> Current(k)
    BY <1>2 DEF Current
  <2>3. CASE watching[k] = 0 \/ ~Current(k) \/ client[k[1]].shows # "old"
    BY <1>2, <2>2, <2>3 DEF Told
  <2>4. CASE faults > 0
    BY <2>4 DEF Told, FaultsOK
  <2>5. CASE \E task \in tasks : task.kind = "notify" /\ task.socket = k
    BY <2>5 DEF Told
  <2> QED
    BY <2>1, <2>3, <2>4, <2>5 DEF Told
<1> QED
  BY <1>1, <1>2

\* What the client does leaves every view told: it fetches when it connects and when it
\* watches, and the connection that it leaves is nobody's.
LEMMA ClientTold ==
    ASSUME TypeOK, FaultsOK, NoMissedChange, [Next]_vars, TypeOK', NEW c \in Clients,
           \/ Connect(c) \/ WatchAgain(c) \/ Disconnect(c) \/ Unwatch(c)
           \/ SendPresence(c) \/ Grant(c)
    PROVE  NoMissedChange'
<1>1. faults' \in Nat /\ faults' >= faults /\ open' \subseteq Sockets /\ open \subseteq Sockets
  BY FaultsStep DEF TypeOK
<1>2. \A k \in Sockets : k[1] \in Clients /\ k[2] # 0
  BY DEF Sockets
<1>3. client \in [Clients -> View] /\ client[c] \in View
  BY DEF TypeOK
<1>4. CASE Connect(c) \/ WatchAgain(c)
  <2>1. PICK view \in View :
          /\ client' = [client EXCEPT ![c] = Refreshed(view, c)]
          /\ tasks \subseteq tasks' /\ watching' = watching
    <3>1. CASE WatchAgain(c)
      BY <1>3, <3>1 DEF WatchAgain, Watch
    <3>2. CASE Connect(c)
      <4> DEFINE free == {n \in 1..MaxSockets : <<c, n>> \notin open /\
                             \A task \in tasks : task.socket # <<c, n>>}
                 view == [client[c] EXCEPT !.socket = Any(free)]
      <4>1. /\ free # {} /\ watching' = watching /\ tasks \subseteq tasks'
            /\ client' = [client EXCEPT ![c] = Refreshed(view, c)]
        BY <3>2 DEF Connect, Watch
      <4>2. Any(free) \in free
        BY <4>1 DEF Any
      <4>3. Any(free) \in 0..MaxSockets
        BY <4>2, BoundsAssumption
      <4> HIDE DEF free
      <4>4. view \in View
        BY <1>3, <4>3 DEF View
      <4> QED
        BY <4>1, <4>4
    <3> QED
      BY <1>4, <3>1, <3>2
  <2>2. Refreshed(view, c).shows # "old"
    BY DEF Refreshed, View
  <2>3. client'[c].shows # "old" /\ \A b \in Clients : b # c => client'[b] = client[b]
    BY <1>3, <2>1, <2>2
  <2>4. ASSUME NEW k \in open', k[1] # c PROVE k \in open
    <3>1. CASE WatchAgain(c)
      BY <3>1 DEF WatchAgain
    <3>2. CASE Connect(c)
      BY <2>4, <3>2 DEF Connect
    <3> QED
      BY <1>4, <3>1, <3>2
  <2> QED
    BY <1>1, <1>2, <2>1, <2>3, <2>4, StaysTold
<1>5. CASE Disconnect(c)
  <2>1. /\ client' = [client EXCEPT ![c] = Offline(client[c])]
        /\ open' = open /\ watching' = watching /\ tasks' = tasks
    BY <1>5 DEF Disconnect, connections, presence
  <2>2. /\ client'[c].socket = 0 /\ \A b \in Clients : b # c => client'[b] = client[b]
    BY <1>3, <2>1, OfflineView
  <2>3. \A k \in Sockets : k[1] = c => ~Current(k)'
    BY <1>2, <2>2 DEF Current
  <2> QED
    BY <1>1, <1>2, <2>1, <2>2, <2>3, StaysTold
<1>6. CASE Unwatch(c)
  <2> DEFINE k == <<c, client[c].socket>>
  <2>1. /\ client' = [client EXCEPT ![c] = [client[c] EXCEPT !.mounted = FALSE, !.roster = {}]]
        /\ open' = open /\ tasks' = tasks
    BY <1>6 DEF Unwatch, connections
  <2>2. ~client'[c].mounted /\ \A b \in Clients : b # c => client'[b] = client[b]
    BY <1>3, <2>1 DEF View
  <2>3. \A j \in Sockets : j[1] = c => ~Current(j)'
    BY <2>2 DEF Current
  <2>4. \A j \in Sockets : j[1] # c => watching'[j] = watching[j]
    <3>1. CASE client[c].socket = 0
      BY <1>6, <3>1 DEF Unwatch, presence
    <3>2. CASE client[c].socket # 0
      <4>1. k \in Sockets
        BY <1>3, <3>2 DEF Sockets, View
      <4>2. watching' = [watching EXCEPT ![k] = 0]
        BY <1>6, <3>2, <4>1, RemoveEffect DEF Unwatch
      <4>3. k[1] = c
        OBVIOUS
      <4> HIDE DEF k
      <4> QED
        BY <4>1, <4>2, <4>3 DEF TypeOK
    <3> QED
      BY <3>1, <3>2
  <2> QED
    BY <1>1, <1>2, <2>1, <2>2, <2>3, <2>4, StaysTold
<1>7. CASE SendPresence(c) \/ Grant(c)
  <2>1. open' = open /\ client' = client /\ watching' = watching /\ tasks \subseteq tasks'
    BY <1>7 DEF SendPresence, Grant, connections, presence
  <2> QED
    BY <1>1, <2>1, StaysTold
<1> QED
  BY <1>4, <1>5, <1>6, <1>7

\* So does what a process does by itself, unless it ends.
LEMMA ServerTold ==
    ASSUME TypeOK, FaultsOK, NoMissedChange, [Next]_vars, TypeOK',
           \/ \E k \in Sockets : RemoveSocket(k)
           \/ \E s \in Servers : SendRoster(s) \/ RefreshPresence(s) \/ Exit(s)
           \/ \E s \in Servers, c \in Clients : Expire(s, c)
    PROVE  NoMissedChange'
<1>1. faults' \in Nat /\ faults' >= faults /\ open' \subseteq Sockets
  BY FaultsStep DEF TypeOK
<1>2. CASE \E k \in Sockets : RemoveSocket(k)
  <2>1. PICK k \in Sockets : RemoveSocket(k)
    BY <1>2
  <2>2. client' = client /\ tasks' = tasks /\ open' \subseteq open
    BY <2>1 DEF RemoveSocket
  <2>3. \A j \in open' : watching'[j] \in {0, watching[j]}
    <3>1. CASE watching[k] = 0
      BY <2>1, <3>1 DEF RemoveSocket, presence
    <3>2. CASE watching[k] # 0
      <4>1. watching' = [watching EXCEPT ![k] = 0]
        BY <2>1, <3>2, RemoveEffect DEF RemoveSocket
      <4> QED
        BY <1>1, <4>1 DEF TypeOK
    <3> QED
      BY <3>1, <3>2
  <2> QED
    BY <1>1, <2>2, <2>3, StaysTold
<1>3. CASE \E s \in Servers : Exit(s)
  <2>1. faults' > 0
    BY <1>3 DEF Exit, FaultsOK
  <2> QED
    BY <2>1 DEF NoMissedChange
<1>4. CASE \/ \E s \in Servers : SendRoster(s) \/ RefreshPresence(s)
           \/ \E s \in Servers, c \in Clients : Expire(s, c)
  <2>1. open' = open /\ client' = client /\ watching' = watching /\ tasks \subseteq tasks'
    BY <1>4 DEF SendRoster, RefreshPresence, Expire, connections, presence
  <2> QED
    BY <1>1, <2>1, StaysTold
<1> QED
  BY <1>2, <1>3, <1>4

\* What removes a watcher and makes its view fetch, and delivers no notification but to it.
LEMMA RemovedTold ==
    ASSUME TypeOK, FaultsOK, NoMissedChange, faults' \in Nat, faults' >= faults,
           open' = open, NEW k \in Sockets, EmitTo(k),
           Remove(k) \/ UNCHANGED watching,
           NEW task \in tasks, task.socket = k, tasks' = tasks \ {task}
    PROVE  NoMissedChange'
<1>1. open' \subseteq Sockets /\ \A j \in Sockets : j[1] \in Clients
  BY DEF TypeOK, Sockets
<1>2. \A c \in Clients : /\ client'[c].mounted = client[c].mounted
                         /\ client'[c].socket = client[c].socket
                         /\ client'[c].shows \in {client[c].shows, "last", "nothing"}
  BY EmitShows
<1>3. Current(k)' => client'[k[1]].shows # "old"
  BY EmitShows
<1>4. \A j \in open' : watching'[j] \in {0, watching[j]}
  <2>1. CASE Remove(k)
    BY <1>1, <2>1, RemoveEffect DEF TypeOK
  <2> QED
    BY <2>1
<1>5. \A j \in open' :
        \/ client'[j[1]].shows # "old"
        \/ /\ j \in open /\ watching'[j] \in {0, watching[j]}
           /\ client'[j[1]].mounted = client[j[1]].mounted
           /\ client'[j[1]].socket = client[j[1]].socket
           /\ client'[j[1]].shows = client[j[1]].shows
  BY <1>1, <1>2, <1>4
<1>6. \A t \in tasks : t \in tasks' \/ ~Current(t.socket)' \/ client'[t.socket[1]].shows # "old"
  BY <1>3
<1> QED
  BY <1>1, <1>5, <1>6, StaysTold

\* So does what a handler does with its answer: one that registers a watcher makes its view
\* fetch what was committed while it asked.
LEMMA HandlerTold ==
    ASSUME TypeOK, FaultsOK, NoMissedChange, [Next]_vars, TypeOK',
           NEW task \in tasks, Handle(task)
    PROVE  NoMissedChange'
<1> DEFINE k == task.socket
<1>1. faults' \in Nat /\ faults' >= faults /\ open' \subseteq Sockets
  BY FaultsStep DEF TypeOK
<1>2. k \in Sockets /\ k[1] \in Clients
  BY DEF TypeOK, Task, Sockets
<1>3. CASE Register(task)
  <2>1. open' = open /\ task.kind = "watch" /\ tasks \ {task} \subseteq tasks'
    BY <1>3 DEF Register, connections
  <2>2. CASE watching' = [watching EXCEPT ![k] = task.watcher] /\ EmitTo(k)
    <3>1. \A c \in Clients : /\ client'[c].mounted = client[c].mounted
                             /\ client'[c].socket = client[c].socket
                             /\ client'[c].shows \in {client[c].shows, "last", "nothing"}
      BY <1>2, <2>2, EmitShows
    <3>2. Current(k)' => client'[k[1]].shows # "old"
      BY <1>2, <2>2, EmitShows
    <3>3. \A j \in open' : j # k => watching'[j] = watching[j]
      BY <1>1, <2>2 DEF TypeOK
    <3>4. \A j \in open' : j[1] \in Clients
      BY <1>1 DEF Sockets
    <3>5. \A j \in open' :
            \/ ~Current(j)' \/ client'[j[1]].shows # "old"
            \/ /\ j \in open /\ watching'[j] \in {0, watching[j]}
               /\ client'[j[1]].mounted = client[j[1]].mounted
               /\ client'[j[1]].socket = client[j[1]].socket
               /\ client'[j[1]].shows = client[j[1]].shows
      BY <2>1, <3>1, <3>2, <3>3, <3>4
    <3>6. \A t \in tasks : t.kind = "notify" => t \in tasks'
      BY <2>1
    <3> QED
      BY <1>1, <3>5, <3>6, StaysTold
  <2>3. CASE UNCHANGED <<watching, client, peers, rosterDue, faults>>
    BY <1>1, <2>1, <2>3, StaysTold
  <2> QED
    BY <1>3, <2>2, <2>3 DEF Register
<1>4. CASE Notify(task)
  <2>1. /\ open' = open /\ tasks' = tasks \ {task} /\ EmitTo(k)
        /\ Remove(k) \/ UNCHANGED watching
    BY <1>4 DEF Notify, connections, presence
  <2> QED
    BY <1>1, <1>2, <2>1, RemovedTold
<1>5. CASE UpdatePresence(task) \/ AnswerRequest(task) \/ Beat(task)
  <2>1. open' = open /\ tasks' = tasks \ {task} /\ task.kind # "notify"
    BY <1>5 DEF UpdatePresence, AnswerRequest, Beat, connections
  <2>2. CASE client' = client /\ watching' = watching
    <3>1. \A t \in tasks : t.kind = "notify" => t \in tasks'
      BY <2>1
    <3> QED
      BY <1>1, <2>1, <2>2, <3>1, StaysTold
  <2>3. CASE Remove(k) /\ EmitTo(k)
    BY <1>1, <1>2, <2>1, <2>3, RemovedTold
  <2> QED
    BY <1>5, <2>2, <2>3 DEF UpdatePresence, AnswerRequest, Beat, presence
<1>6. CASE DeliverRoster(task)
  <2>1. open' = open /\ tasks' = tasks \ {task} /\ task.kind = "roster"
    BY <1>6 DEF DeliverRoster, connections
  <2>2. CASE Remove(k) /\ EmitTo(k)
    BY <1>1, <1>2, <2>1, <2>2, RemovedTold
  <2>3. CASE /\ client' = IF watching[k] = task.watcher /\ Current(k)
                          THEN [client EXCEPT ![k[1]].roster = task.roster] ELSE client
             /\ UNCHANGED <<presence, faults>>
    <3>1. \A c \in Clients : /\ client'[c].mounted = client[c].mounted
                             /\ client'[c].socket = client[c].socket
                             /\ client'[c].shows = client[c].shows
      BY <1>2, <2>3 DEF TypeOK, View
    <3>2. \A j \in open' : j[1] \in Clients /\ watching'[j] = watching[j]
      BY <1>1, <2>3 DEF Sockets, presence
    <3>3. \A t \in tasks : t.kind = "notify" => t \in tasks'
      BY <2>1
    <3> QED
      BY <1>1, <2>1, <3>1, <3>2, <3>3, StaysTold
  <2> QED
    BY <1>6, <2>2, <2>3 DEF DeliverRoster
<1> QED
  BY <1>3, <1>4, <1>5, <1>6 DEF Handle

\* A commit that is heard notifies every watcher; one that is not heard counts as a failure.
LEMMA CommitTold ==
    ASSUME TypeOK, FaultsOK, NoMissedChange, Commit
    PROVE  NoMissedChange'
<1>1. PICK heard \in {{}, Servers} :
        /\ Publish(heard)
        /\ tasks' = tasks \cup UNION {AskAll("notify", s, {}) : s \in heard}
  BY DEF Commit
<1>2. open' = open /\ watching' = watching /\ server' = server
  BY DEF Commit, connections, presence
<1>3. CASE heard = {} /\ faults' = faults + 1
  <2>1. faults' > 0
    BY <1>3 DEF FaultsOK
  <2> QED
    BY <2>1 DEF NoMissedChange
<1>4. CASE heard = Servers
  <2> SUFFICES ASSUME NEW k \in open', watching'[k] # 0 PROVE Told(k)'
    BY DEF NoMissedChange, Told
  <2>1. k \in Watched(server[k]) /\ server[k] \in Servers
    BY <1>2 DEF Watched, TypeOK
  <2> DEFINE t == Ask("notify", k, watching[k], {})
  <2>2. t \in AskAll("notify", server[k], {})
    BY <2>1 DEF AskAll
  <2>3. t \in tasks'
    BY <1>1, <1>4, <2>1, <2>2
  <2>4. t.kind = "notify" /\ t.socket = k
    BY DEF Ask
  <2> HIDE DEF t
  <2> QED
    BY <2>3, <2>4 DEF Told
<1> QED
  BY <1>1, <1>3, <1>4 DEF Publish

\* Every step leaves every view told.
LEMMA ToldStep ==
    TypeOK /\ FaultsOK /\ NoMissedChange /\ [Next]_vars => (FaultsOK /\ NoMissedChange)'
<1> SUFFICES ASSUME TypeOK, FaultsOK, NoMissedChange, [Next]_vars
             PROVE  (FaultsOK /\ NoMissedChange)'
  OBVIOUS
<1>1. TypeOK' /\ FaultsOK'
  BY TypeStep, FaultsStep DEF FaultsOK
<1>2. CASE Next
  BY <1>1, <1>2, ClientTold, ServerTold, HandlerTold, CommitTold DEF Next
<1>3. CASE UNCHANGED vars
  BY <1>1, <1>3 DEF vars, connections, presence, NoMissedChange, Current
<1> QED
  BY <1>1, <1>2, <1>3

\* A view that watches never stays behind a commit of which nothing is on its way to it,
\* whatever watches, fetches and notifications overtake one another, unless a publication
\* failed or a process ended.
THEOREM NothingIsMissed == Spec => []NoMissedChange
<1>1. Init => TypeOK /\ FaultsOK /\ NoMissedChange
  BY InitType DEF Init, FaultsOK, NoMissedChange
<1>2. TypeOK /\ FaultsOK /\ NoMissedChange /\ [Next]_vars
        => (TypeOK /\ FaultsOK /\ NoMissedChange)'
  BY TypeStep, ToldStep
<1> QED
  BY <1>1, <1>2, PTL DEF Spec
=============================================================================
