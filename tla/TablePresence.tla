---------------------------- MODULE TablePresence ----------------------------
(***************************************************************************)
(* Who is watching a spreadsheet, and what those who watch are told        *)
(* (server/collaboration/TableSocket.ts): every websocket process keeps    *)
(* its own watchers and its own list of the peers of all processes, and    *)
(* the processes tell one another through Redis who is present, who left   *)
(* and that a revision was committed.  The browser's side is the effect    *)
(* of app/scenes/Document/components/TableDocument.tsx that watches.       *)
(*                                                                         *)
(* One document is modelled, as a client's id belongs to one document, and *)
(* one view on each connection.  Every handler asks the database whether   *)
(* the member can read before it goes on: its question and what it does    *)
(* with the answer are two steps.  Redis delivers a message in the step    *)
(* that publishes it.  An announcement is renewed by every heartbeat, so   *)
(* that none expires while it is renewed: three heartbeats are its         *)
(* lifetime.  Selections are left out.                                     *)
(***************************************************************************)
EXTENDS Integers, FiniteSets

CONSTANTS
    Clients,        \* views of the spreadsheet, each of a member of its own
    Servers,        \* websocket processes
    Movers,         \* bound: the clients that disconnect, watch again or leave
    MaxSockets,     \* bound: connections of a client that are open or have handlers
    MaxWatches,     \* bound: watch requests of a connection at a time
    MaxMoves,       \* bound: what views do, commits and changes of permissions
    MaxTasks,       \* bound: handlers under way when a timer or a message starts another
    MaxFaults       \* bound: failed publications and processes that end

ASSUME BoundsAssumption ==
    /\ Movers \subseteq Clients
    /\ MaxSockets \in Nat \ {0} /\ MaxWatches \in Nat \ {0}
    /\ MaxMoves \in Nat /\ MaxTasks \in Nat \ {0} /\ MaxFaults \in Nat

\* A client's connections, by number.
Sockets == Clients \X (1..MaxSockets)

VARIABLES
    client,         \* the view: mounted, its connection, the revision it shows, its roster
    server,         \* the process of a connection
    open,           \* the connections whose process believes them to be open
    watching,       \* watchers: the request that installed a connection's watcher
    request,        \* watchRequests
    peers,          \* peers of each process
    rosterDue,      \* broadcastTimers: the processes whose roster is due
    tasks,          \* handlers that wait for canRead, or have its answer
    readers,        \* who can read the document
    moves, faults   \* counters of what is bounded

connections == <<server, open>>
presence == <<watching, request, peers, rosterDue>>
vars == <<client, connections, presence, faults, tasks, readers, moves>>

Kinds == {"watch", "notify", "presence", "request", "roster", "beat"}
Task == [kind : Kinds, socket : Sockets, watcher : 1..MaxWatches,
         could : BOOLEAN, roster : SUBSET Clients]
View == [mounted : BOOLEAN, socket : 0..MaxSockets,
         shows : {"last", "old", "nothing"}, roster : SUBSET Clients]

Move == moves < MaxMoves /\ moves' = moves + 1
Any(numbers) == CHOOSE n \in numbers : TRUE

Watched(s) == {k \in open : server[k] = s /\ watching[k] # 0}
Present == {k[1] : k \in {o \in open : watching[o] # 0}}
Current(k) == client[k[1]].socket = k[2] /\ client[k[1]].mounted

\* The view of a client whose connection is gone.
Offline(view) == [view EXCEPT !.socket = 0, !.roster = {}]

Init ==
    /\ client = [c \in Clients |-> [mounted |-> TRUE, socket |-> 0, shows |-> "last", roster |-> {}]]
    /\ server \in {[k \in Sockets |-> s] : s \in Servers} /\ open = {}
    /\ watching = [k \in Sockets |-> 0] /\ request = [k \in Sockets |-> 0]
    /\ peers = [s \in Servers |-> {}] /\ rosterDue = {} /\ tasks = {}
    /\ readers = Clients /\ moves = 0 /\ faults = 0

-----------------------------------------------------------------------------
(* What several handlers do.                                               *)

\* publish: those who hear of it, as a failure is only logged.
Publish(heard) ==
    \/ heard = Servers /\ UNCHANGED faults
    \/ heard = {} /\ faults < MaxFaults /\ faults' = faults + 1

\* publishPresence, and receivePresence of the announcement: a process without a watcher does
\* not keep it.
Announce(k, heard) ==
    LET keeps == {s \in heard : Watched(s) # {}} \cup {server[k]}
    IN  /\ Publish(heard)
        /\ peers' = [s \in Servers |-> IF s \in keeps THEN peers[s] \cup {k[1]} ELSE peers[s]]
        /\ rosterDue' = rosterDue \cup heard \cup {server[k]}

\* Mutant: a watch that is under way is not superseded.
RemoveLeavesRequest(k) ==
    IF watching[k] = 0 THEN UNCHANGED <<presence, faults>>
    ELSE /\ watching' = [watching EXCEPT ![k] = 0]
         /\ peers' = [s \in Servers |-> peers[s] \ {k[1]}]
         /\ rosterDue' = Servers
         /\ UNCHANGED <<request, faults>>

\* remove, and receivePresence of the removal.
Remove(k) ==
    /\ request' = [request EXCEPT ![k] = 0]
    /\ IF watching[k] = 0 THEN UNCHANGED <<watching, peers, rosterDue, faults>>
       ELSE \E heard \in {{}, Servers} :
            LET forgets == heard \cup {server[k]}
            IN  /\ Publish(heard)
                /\ watching' = [watching EXCEPT ![k] = 0]
                /\ peers' = [s \in Servers |-> IF s \in forgets THEN peers[s] \ {k[1]} ELSE peers[s]]
                /\ rosterDue' = rosterDue \cup forgets

\* The session fetches the document: what a member cannot read does not arrive.
Refreshed(view, c) == [view EXCEPT !.shows = IF c \in readers THEN "last" ELSE "nothing"]

\* Mutant: a client fetches when it watches, and only then.
EmitNothing(k) == UNCHANGED client

\* "table.changed" and "table.revoked" make the client fetch the document.
EmitTo(k) ==
    client' = IF Current(k) THEN [client EXCEPT ![k[1]] = Refreshed(@, k[1])] ELSE client

\* A handler asks whether the member behind a watcher can read (canRead): the answer is that
\* of a moment between now and the step that goes on with it.
Ask(kind, k, watcher, roster) ==
    [kind |-> kind, socket |-> k, watcher |-> watcher, could |-> k[1] \in readers, roster |-> roster]
AskAll(kind, s, roster) == {Ask(kind, k, watching[k], roster) : k \in Watched(s)}
\* Mutant: the permission is looked at when a client watches, and then no more.
AnswersOnce(task) ==
    IF task.kind = "watch" THEN {task.could, task.socket[1] \in readers} ELSE {TRUE}

Answers(task) == {task.could, task.socket[1] \in readers}
Room == Cardinality(tasks) < MaxTasks

\* The client's "table.watch", and watch until it asks.
Watch(k) ==
    LET free == {n \in 1..MaxWatches : n # watching[k] /\
                    \A task \in tasks : task.socket = k => task.watcher # n}
    IN  /\ Room /\ free # {}
        /\ request' = [request EXCEPT ![k] = Any(free)]
        /\ tasks' = tasks \cup {Ask("watch", k, Any(free), {})}
        /\ UNCHANGED <<watching, peers, rosterDue, faults, readers>>

-----------------------------------------------------------------------------
(* The client.                                                             *)

\* "authenticated": a view that is mounted watches.
Connect(c) ==
    LET free == {n \in 1..MaxSockets : <<c, n>> \notin open /\
                    \A task \in tasks : task.socket # <<c, n>>}
        k == <<c, Any(free)>>
    IN  /\ Move /\ client[c].socket = 0 /\ client[c].mounted /\ free # {}
        /\ \E s \in Servers : server' = [server EXCEPT ![k] = s]
        /\ open' = open \cup {k}
        /\ client' = [client EXCEPT ![c] = Refreshed([@ EXCEPT !.socket = k[2]], c)]
        /\ Watch(k)

\* "online".
WatchAgain(c) ==
    /\ Move /\ c \in Movers /\ client[c].socket # 0 /\ client[c].mounted
    /\ client' = [client EXCEPT ![c] = Refreshed(@, c)]
    /\ Watch(<<c, client[c].socket>>)
    /\ UNCHANGED <<server, open>>

\* The connection breaks: its process does not know yet.
Disconnect(c) ==
    /\ Move /\ c \in Movers /\ client[c].socket # 0
    /\ client' = [client EXCEPT ![c] = Offline(@)]
    /\ UNCHANGED <<connections, presence, faults, tasks, readers>>

\* The view is closed: "table.unwatch", if it is connected.
Unwatch(c) ==
    /\ Move /\ c \in Movers /\ client[c].mounted
    /\ client' = [client EXCEPT ![c] = [@ EXCEPT !.mounted = FALSE, !.roster = {}]]
    /\ IF client[c].socket = 0 THEN UNCHANGED <<presence, faults>>
       ELSE Remove(<<c, client[c].socket>>)
    /\ UNCHANGED <<connections, tasks, readers>>

\* "table.presence", and updatePresence until it asks.
SendPresence(c) ==
    LET k == <<c, client[c].socket>>
    IN  /\ Move /\ client[c].socket # 0 /\ client[c].mounted /\ watching[k] # 0 /\ Room
        /\ tasks' = tasks \cup {Ask("presence", k, watching[k], {})}
        /\ UNCHANGED <<client, connections, presence, faults, readers>>

-----------------------------------------------------------------------------
(* The process: connections, messages and timers.                          *)

\* "disconnect": soon, or when the ping times out.
RemoveSocket(k) ==
    /\ k \in open /\ client[k[1]].socket # k[2]
    /\ open' = open \ {k}
    /\ IF watching[k] = 0 THEN UNCHANGED <<presence, faults>> ELSE Remove(k)
    /\ UNCHANGED <<client, server, tasks, readers, moves>>

\* sendRoster, until it asks: the peers are those of now.
SendRoster(s) ==
    /\ s \in rosterDue /\ Room
    /\ rosterDue' = rosterDue \ {s}
    /\ peers' = IF Watched(s) = {} THEN [peers EXCEPT ![s] = {}] ELSE peers
    /\ tasks' = tasks \cup AskAll("roster", s, peers[s])
    /\ UNCHANGED <<client, connections, watching, request, faults, readers, moves>>

\* refreshPresence, until it asks.
RefreshPresence(s) ==
    /\ Room /\ Watched(s) # {}
    /\ tasks' = tasks \cup AskAll("beat", s, {})
    /\ UNCHANGED <<client, connections, presence, faults, readers, moves>>

\* refreshPresence, of what nobody has announced for presenceLifetime.
Expire(s, c) ==
    /\ c \in peers[s] \ Present
    /\ \A task \in tasks : task.socket[1] = c => task.kind \notin {"watch", "presence", "request", "beat"}
    /\ peers' = [peers EXCEPT ![s] = @ \ {c}]
    /\ rosterDue' = rosterDue \cup {s}
    /\ UNCHANGED <<client, connections, watching, request, tasks, faults, readers, moves>>

\* The process ends, with dispose (told) or without, and another takes its place.
Exit(s) ==
    LET here == {k \in open : server[k] = s}
    IN  /\ faults < MaxFaults /\ faults' = faults + 1
        /\ open' = open \ here
        /\ client' = [c \in Clients |-> IF <<c, client[c].socket>> \in here
                                        THEN Offline(client[c])
                                        ELSE client[c]]
        /\ watching' = [k \in Sockets |-> IF k \in here THEN 0 ELSE watching[k]]
        /\ request' = [k \in Sockets |-> IF k \in here THEN 0 ELSE request[k]]
        /\ tasks' = {task \in tasks : server[task.socket] # s}
        /\ \E told \in {{}, {k[1] : k \in Watched(s)}} :
              /\ peers' = [t \in Servers |-> IF t = s THEN {} ELSE peers[t] \ told]
              /\ rosterDue' = (IF told = {} THEN rosterDue ELSE Servers) \ {s}
        /\ UNCHANGED <<server, readers, moves>>

-----------------------------------------------------------------------------
(* The handlers.                                                           *)

\* watch: registers, unless it was overtaken.
Register(task) ==
    LET k == task.socket
    IN  /\ task.kind = "watch"
        /\ \/ /\ TRUE \in Answers(task) /\ k \in open /\ request[k] = task.watcher
              /\ watching' = [watching EXCEPT ![k] = task.watcher]
              /\ EmitTo(k)
              /\ \E heard \in {{}, Servers} :
                    /\ Announce(k, heard)
                    /\ tasks' = (tasks \ {task}) \cup {Ask("request", w, watching'[w], {}) :
                                   w \in {w \in open : heard # {} /\ watching'[w] # 0}}
           \/ /\ FALSE \in Answers(task) \/ k \notin open \/ request[k] # task.watcher
              /\ tasks' = tasks \ {task}
              /\ UNCHANGED <<watching, client, peers, rosterDue, faults>>
        /\ UNCHANGED <<connections, request, readers, moves>>

\* notify.
Notify(task) ==
    /\ task.kind = "notify"
    /\ tasks' = tasks \ {task}
    /\ EmitTo(task.socket)
    /\ \/ TRUE \in Answers(task) /\ UNCHANGED <<presence, faults>>
       \/ FALSE \in Answers(task) /\ Remove(task.socket)
    /\ UNCHANGED <<connections, readers, moves>>

\* updatePresence: nothing if the watcher is no longer the one that asked.
UpdatePresence(task) ==
    LET k == task.socket
    IN  /\ task.kind = "presence"
        /\ tasks' = tasks \ {task}
        /\ \/ /\ watching[k] # task.watcher
              /\ UNCHANGED <<client, presence, faults>>
           \/ /\ watching[k] = task.watcher /\ TRUE \in Answers(task)
              /\ \E heard \in {{}, Servers} : Announce(k, heard)
              /\ UNCHANGED <<client, watching, request>>
           \/ /\ watching[k] = task.watcher /\ FALSE \in Answers(task)
              /\ Remove(k) /\ EmitTo(k)
        /\ UNCHANGED <<connections, readers, moves>>

\* receivePresence, for a request.
AnswerRequest(task) ==
    /\ task.kind = "request"
    /\ tasks' = tasks \ {task}
    /\ \/ TRUE \in Answers(task) /\ \E heard \in {{}, Servers} : Announce(task.socket, heard)
       \/ FALSE \in Answers(task) /\ UNCHANGED <<peers, rosterDue, faults>>
    /\ UNCHANGED <<client, connections, watching, request, readers, moves>>

\* sendRoster.
DeliverRoster(task) ==
    LET k == task.socket
    IN  /\ task.kind = "roster"
        /\ tasks' = tasks \ {task}
        /\ \/ /\ FALSE \in Answers(task)
              /\ Remove(k) /\ EmitTo(k)
           \/ /\ TRUE \in Answers(task)
              /\ client' = IF watching[k] = task.watcher /\ Current(k)
                           THEN [client EXCEPT ![k[1]].roster = task.roster] ELSE client
              /\ UNCHANGED <<presence, faults>>
        /\ UNCHANGED <<connections, readers, moves>>

\* Mutant: the heartbeat only looks at the permission.
BeatSilently(task) ==
    /\ task.kind = "beat"
    /\ tasks' = tasks \ {task}
    /\ \/ TRUE \in Answers(task) /\ UNCHANGED <<client, presence, faults>>
       \/ FALSE \in Answers(task) /\ Remove(task.socket) /\ EmitTo(task.socket)
    /\ UNCHANGED <<connections, readers, moves>>

\* refreshPresence.
Beat(task) ==
    LET k == task.socket
    IN  /\ task.kind = "beat"
        /\ tasks' = tasks \ {task}
        /\ \/ /\ TRUE \in Answers(task)
              /\ \E heard \in {{}, Servers} : Announce(k, heard)
              /\ UNCHANGED <<client, watching, request>>
           \/ /\ FALSE \in Answers(task)
              /\ Remove(k) /\ EmitTo(k)
        /\ UNCHANGED <<connections, readers, moves>>

-----------------------------------------------------------------------------
(* The database (external).                                                *)

Commit ==
    /\ Move
    /\ client' = [c \in Clients |-> [client[c] EXCEPT !.shows = IF @ = "last" THEN "old" ELSE @]]
    /\ \E heard \in {{}, Servers} :
          /\ Publish(heard)
          /\ tasks' = tasks \cup UNION {AskAll("notify", s, {}) : s \in heard}
    /\ UNCHANGED <<connections, presence, readers>>

Grant(c) ==
    /\ c \in Movers /\ Move
    /\ readers' = IF c \in readers THEN readers \ {c} ELSE readers \cup {c}
    /\ UNCHANGED <<client, connections, presence, faults, tasks>>

Handle(task) ==
    \/ Register(task) \/ Notify(task) \/ UpdatePresence(task)
    \/ AnswerRequest(task) \/ DeliverRoster(task) \/ Beat(task)

Next ==
    \/ \E c \in Clients :
          \/ Connect(c) \/ WatchAgain(c) \/ Disconnect(c) \/ Unwatch(c)
          \/ SendPresence(c) \/ Grant(c)
    \/ \E k \in Sockets : RemoveSocket(k)
    \/ \E s \in Servers : SendRoster(s) \/ RefreshPresence(s) \/ Exit(s)
    \/ \E s \in Servers, c \in Clients : Expire(s, c)
    \/ \E task \in tasks : Handle(task)
    \/ Commit

Spec == Init /\ [][Next]_vars

\* The processes run, and so do their timers and Redis; connections that broke are noticed.
FairSpec ==
    /\ Spec
    /\ WF_vars(\E task \in tasks : Handle(task))
    /\ \A s \in Servers :
          /\ SF_vars(SendRoster(s)) /\ SF_vars(RefreshPresence(s))
          /\ \A c \in Clients : WF_vars(Expire(s, c))
    /\ \A k \in Sockets : WF_vars(RemoveSocket(k))

-----------------------------------------------------------------------------
TypeOK ==
    /\ client \in [Clients -> View]
    /\ server \in [Sockets -> Servers] /\ open \subseteq Sockets
    /\ watching \in [Sockets -> 0..MaxWatches] /\ request \in [Sockets -> 0..MaxWatches]
    /\ peers \in [Servers -> SUBSET Clients]
    /\ rosterDue \subseteq Servers /\ tasks \subseteq Task
    /\ readers \subseteq Clients

\* Nothing is watched for a connection that was closed, nor on behalf of a view that was:
\* no watch that was under way when it was closed installs a watcher afterwards.
NoGhostWatch ==
    \A k \in Sockets : watching[k] # 0 =>
        /\ k \in open
        /\ client[k[1]].socket = k[2] => client[k[1]].mounted

\* A view that watches and shows the document has its last revision, or fetches it, or a
\* notification of it is on its way, whatever else happened: also a revision committed between
\* the view's first fetch and its registration.  Unless a publication failed.
NoMissedChange ==
    \A k \in open :
        \/ watching[k] = 0 \/ ~Current(k) \/ faults > 0
        \/ client[k[1]].shows # "old"
        \/ \E task \in tasks : task.kind = "notify" /\ task.socket = k

\* In the end every process with watchers lists those who watch and nobody else, and so does the
\* roster of each view, although announcements and removals were lost, overtook one another or
\* belonged to a connection that the client had replaced.
RosterConverges ==
    <>[]( /\ \A s \in Servers : Watched(s) # {} => peers[s] = Present
          /\ \A k \in open : watching[k] # 0 /\ Current(k) => client[k[1]].roster = Present )

\* In the end nobody watches who may not read.
RevokedLeave == <>[](\A k \in open : watching[k] # 0 => k[1] \in readers)
=============================================================================
