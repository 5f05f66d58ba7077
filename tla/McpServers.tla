----------------------------- MODULE McpServers -----------------------------
(***************************************************************************)
(* The MCP server manager: the requests that start, stop, restart, remove  *)
(* and call tool servers, with the health checks and reconnections that    *)
(* run next to them.  What they share are the manager's tables, one lock,  *)
(* the clients (each with a transport: a child process or a connection)    *)
(* and the registry of tools.                                              *)
(*                                                                         *)
(* A step is what runs between two awaits.  Taking the lock is a step of   *)
(* its own, which allows a few interleavings more than asyncio, where a    *)
(* lock that is free is taken without suspension.                          *)
(***************************************************************************)
EXTENDS Naturals, FiniteSets

CONSTANTS
  Server, Tool,
  Offers,        \* the tools a server lists that pass its filter
  Client,        \* MCPClient objects (a bound)
  Requester,     \* HTTP requests, and the application's start and shutdown
  MayAsk,        \* the operations each of them asks for
  Slot,          \* background tasks: health checks and reconnections (a bound)
  MaxRetries,    \* of a reconnection
  NoServer, NoClient, NoTask,
  Ended          \* an entry for a background task that is over

Actor == Requester \cup Slot

Op == {"none", "start", "add", "stop", "restart", "remove", "start_all", "stop_all",
       "shutdown", "invoke", "check", "reconnect"}

ASSUME McpAssumption ==
  /\ Offers \in [Server -> SUBSET Tool]
  /\ MayAsk \in [Requester -> SUBSET Op]
  /\ MaxRetries \in Nat \ {0}
  /\ Requester \cap Slot = {}
  /\ NoServer \notin Server /\ NoClient \notin Client
  /\ {NoTask, Ended} \cap Actor = {} /\ NoTask # Ended

VARIABLES
  configs,      \* the names in _configs
  servers,      \* _servers: the client of each server
  info,         \* MCPServerInfo.status
  health,       \* _health_check_tasks
  reconnect,    \* _reconnect_tasks
  lock,         \* who holds _lock
  client,       \* MCPClient._status, whether its process runs, and whether its
                \* transport counts as connected
  handler,      \* MCPRegistry._handlers: the client each tool is bound to
  serverTools,  \* MCPRegistry._server_tools
  actor         \* the requests and the background tasks

tables == <<servers, info, health, reconnect>>
registry == <<handler, serverTools>>
vars == <<configs, servers, info, health, reconnect, lock, client, handler, serverTools, actor>>

Starting == {"start_lock", "connect", "handshake", "list", "publish", "fail_lock"}
Stopping == {"stop_lock", "closing"}
PC == {"idle", "names_lock", "next", "remove_lock", "stuck", "call", "spawn", "backoff",
       "sleep", "ping"} \cup Starting \cup Stopping
ActorRecord == [op: Op, pc: PC, server: Server \cup {NoServer}, client: Client \cup {NoClient},
                todo: SUBSET Server,      \* names a *_all request has still to visit
                attempt: 0 .. MaxRetries, \* of a reconnection
                cancelled: BOOLEAN]       \* was task.cancel() called?

Idle == [op |-> "none", pc |-> "idle", server |-> NoServer, client |-> NoClient,
         todo |-> {}, attempt |-> 0, cancelled |-> FALSE]

Doing(op, pc, s) == [Idle EXCEPT !.op = op, !.pc = pc, !.server = s]

At(a, pc) == actor[a].pc = pc /\ ~actor[a].cancelled

Init ==
  /\ configs = Server
  /\ servers = [s \in Server |-> NoClient]
  /\ info = [s \in Server |-> "none"]
  /\ health = [s \in Server |-> NoTask]
  /\ reconnect = [s \in Server |-> NoTask]
  /\ lock = NoTask
  /\ client = [c \in Client |-> [status |-> "stopped", alive |-> FALSE, connected |-> FALSE]]
  /\ handler = [t \in Tool |-> NoClient]
  /\ serverTools = [s \in Server |-> {}]
  /\ actor = [a \in Actor |-> Idle]

\* An MCPClient nothing refers to any more stands for one not yet created.
Fresh(c) ==
  /\ ~client[c].alive
  /\ \A s \in Server : servers[s] # c
  /\ \A t \in Tool : handler[t] # c
  /\ \A a \in Actor : actor[a].client # c

Closing(c) == \E a \in Actor : actor[a].pc = "closing" /\ actor[a].client = c

\* An entry for a task that ends stays in its table, until someone deletes it.
Retire(table, a) == [s \in Server |-> IF table[s] = a THEN Ended ELSE table[s]]

\* Mutant: a reconnection is tried once more than max_retries.
AfterStartOnceMore(a, ok) ==
  LET r == actor[a] IN
  CASE r.op = "start_all" -> [r EXCEPT !.pc = "next", !.server = NoServer, !.client = NoClient]
    [] r.op = "reconnect" /\ ~ok /\ r.attempt <= MaxRetries ->
         [r EXCEPT !.pc = "backoff", !.client = NoClient]
    [] OTHER -> Idle

\* How an actor goes on after start_server or stop_server; a reconnection that
\* fails tries again, a task that ends retires.
AfterStart(a, ok) ==
  LET r == actor[a] IN
  CASE r.op = "start_all" -> [r EXCEPT !.pc = "next", !.server = NoServer, !.client = NoClient]
    [] r.op = "reconnect" /\ ~ok /\ r.attempt < MaxRetries ->
         [r EXCEPT !.pc = "backoff", !.client = NoClient]
    [] OTHER -> Idle

AfterStop(a) ==
  LET r == actor[a] IN
  CASE r.op \in {"stop_all", "shutdown"} -> [r EXCEPT !.pc = "next", !.server = NoServer, !.client = NoClient]
    [] r.op = "restart" -> Doing("restart", "start_lock", r.server)
    [] OTHER -> Idle

Become(a, r) ==
  /\ actor' = [actor EXCEPT ![a] = r]
  /\ reconnect' = IF r = Idle THEN Retire(reconnect, a) ELSE reconnect
  /\ health' = IF r = Idle THEN Retire(health, a) ELSE health

(***************************************************************************)
(* start_server                                                            *)
(***************************************************************************)

\* Mutant: the process is not terminated.
DisconnectedAlive(c) == [status |-> "stopped", alive |-> client[c].alive, connected |-> FALSE]

\* MCPClient.stop: the transport is disconnected, which ends the process, and does
\* nothing unless the transport counts as connected.
Disconnected(c) ==
  [status |-> "stopped", alive |-> client[c].alive /\ ~client[c].connected, connected |-> FALSE]

Served(s) == servers[s] # NoClient /\ client[servers[s]].status = "running"

\* Not configured (ValueError), already running, or a new client, whose process
\* is started at once, or cannot be.  A client in the table that does not run
\* would be stopped first.
LookUp(a) ==
  LET s == actor[a].server IN
  /\ At(a, "start_lock")
  /\ lock = NoTask
  /\ \/ /\ s \in configs => Served(s)
        /\ Become(a, AfterStart(a, s \in configs))
        /\ UNCHANGED client
     \/ /\ s \in configs
        /\ ~Served(s)
        /\ \E c \in {d \in Client : Fresh(d)}, spawned \in BOOLEAN :
             /\ client' = [d \in Client |->
                  IF d = c
                  THEN [status |-> IF spawned THEN "starting" ELSE "error", alive |-> spawned,
                        connected |-> FALSE]
                  ELSE IF d = servers[s] THEN Disconnected(d) ELSE client[d]]
             /\ actor' = [actor EXCEPT ![a].pc = IF spawned THEN "connect" ELSE "fail_lock",
                                       ![a].client = c]
        /\ UNCHANGED <<health, reconnect>>
  /\ UNCHANGED <<configs, servers, info, lock>>
  /\ UNCHANGED registry

Connect(a) ==
  /\ At(a, "connect")
  /\ client' = [client EXCEPT ![actor[a].client].connected = TRUE]
  /\ actor' = [actor EXCEPT ![a].pc = "handshake"]
  /\ UNCHANGED <<configs, lock>>
  /\ UNCHANGED tables /\ UNCHANGED registry

\* The initialize response arrived and the notification is sent.
Handshake(a) ==
  /\ At(a, "handshake")
  /\ client[actor[a].client].alive
  /\ client' = [client EXCEPT ![actor[a].client].status = "running"]
  /\ actor' = [actor EXCEPT ![a].pc = "list"]
  /\ UNCHANGED <<configs, lock>>
  /\ UNCHANGED tables /\ UNCHANGED registry

\* The tools are listed, filtered and registered, bound to this client.
RegisterTools(a) ==
  LET r == actor[a] IN
  /\ At(a, "list")
  /\ client[r.client].alive
  /\ handler' = [t \in Tool |-> IF t \in Offers[r.server] THEN r.client ELSE handler[t]]
  /\ serverTools' = [serverTools EXCEPT ![r.server] = @ \cup Offers[r.server]]
  /\ actor' = [actor EXCEPT ![a].pc = "publish"]
  /\ UNCHANGED <<configs, lock, client>>
  /\ UNCHANGED tables

\* An await in client.start or list_tools raised.  While it connects, the
\* transport does not count as connected and its disconnect does nothing; once
\* it is running, the client is not stopped at all.
StartRaises(a) ==
  LET c == actor[a].client IN
  /\ \E pc \in {"connect", "handshake", "list"} : At(a, pc)
  /\ client' = IF actor[a].pc = "list" THEN client
               ELSE [client EXCEPT ![c] = [Disconnected(c) EXCEPT !.status = "error"]]
  /\ actor' = [actor EXCEPT ![a].pc = "fail_lock"]
  /\ UNCHANGED <<configs, lock>>
  /\ UNCHANGED tables /\ UNCHANGED registry

\* The exception handler of start_server.
RecordError(a) ==
  /\ At(a, "fail_lock")
  /\ lock = NoTask
  /\ info' = [info EXCEPT ![actor[a].server] = "error"]
  /\ Become(a, AfterStart(a, FALSE))
  /\ UNCHANGED <<configs, servers, lock, client>>
  /\ UNCHANGED registry

\* Enter the client in the table and start its health check.
Publish(a) ==
  LET s == actor[a].server IN
  /\ At(a, "publish")
  /\ lock = NoTask
  /\ servers' = [servers EXCEPT ![s] = actor[a].client]
  /\ info' = [info EXCEPT ![s] = "running"]
  /\ \E h \in {b \in Slot : actor[b] = Idle} :
       /\ health' = [health EXCEPT ![s] = h]
       /\ actor' = [actor EXCEPT ![a] = AfterStart(a, TRUE), ![h] = Doing("check", "sleep", s)]
  /\ reconnect' = IF AfterStart(a, TRUE) = Idle THEN Retire(reconnect, a) ELSE reconnect
  /\ UNCHANGED <<configs, lock, client>>
  /\ UNCHANGED registry

(***************************************************************************)
(* stop_server                                                             *)
(***************************************************************************)

\* stop_server of s up to its lock: cancel the background tasks and forget them.
CancelTasks(S, a, r) ==
  /\ actor' = [b \in Actor |->
       IF b = a THEN r
       ELSE IF \E s \in S : b \in {health[s], reconnect[s]}
            THEN [actor[b] EXCEPT !.cancelled = TRUE] ELSE actor[b]]
  /\ health' = [s \in Server |-> IF s \in S THEN NoTask ELSE health[s]]
  /\ reconnect' = [s \in Server |-> IF s \in S THEN NoTask ELSE reconnect[s]]

\* With the lock: nothing to stop, or close the client's transport.
StopLocked(a) ==
  LET s == actor[a].server IN
  /\ At(a, "stop_lock")
  /\ lock = NoTask
  /\ IF servers[s] = NoClient
     THEN Become(a, AfterStop(a)) /\ UNCHANGED lock
     ELSE /\ lock' = a
          /\ actor' = [actor EXCEPT ![a].pc = "closing", ![a].client = servers[s]]
          /\ UNCHANGED <<health, reconnect>>
  /\ UNCHANGED <<configs, servers, info, client>>
  /\ UNCHANGED registry

\* Mutants: the tools stay registered; the calls that wait for an answer are
\* left; the table, or the info, is not updated.
WithoutToolsKept(s) == handler
WithoutCallsKept(c) == actor
WithoutServerKept(s) == servers
InfoStoppedKept(s) == info

\* disconnect cancels the calls that wait for an answer, if it is connected.
WithoutCalls(c) ==
  [b \in Actor |-> IF At(b, "call") /\ actor[b].client = c /\ client[c].connected
                   THEN Idle ELSE actor[b]]

\* unregister_server_tools, and what stop_server does to its tables.
WithoutTools(s) == [t \in Tool |-> IF t \in serverTools[s] THEN NoClient ELSE handler[t]]
WithoutServer(s) == [servers EXCEPT ![s] = NoClient]
InfoStopped(s) == [info EXCEPT ![s] = "stopped"]

\* The rest of stop_server, which releases the lock.
Closed(a) ==
  LET s == actor[a].server
      c == actor[a].client
  IN
  /\ At(a, "closing")
  /\ lock' = NoTask
  /\ client' = [client EXCEPT ![c] = Disconnected(c)]
  /\ handler' = WithoutTools(s)
  /\ serverTools' = [serverTools EXCEPT ![s] = {}]
  /\ info' = InfoStopped(s)
  /\ servers' = WithoutServer(s)
  /\ actor' = [WithoutCalls(c) EXCEPT ![a] = AfterStop(a)]
  /\ UNCHANGED <<configs, health, reconnect>>

(***************************************************************************)
(* The requests                                                            *)
(***************************************************************************)
Free(a, op) == a \in Requester /\ actor[a] = Idle /\ op \in MayAsk[a]

AskStart(a, s) ==
  /\ Free(a, "start")
  /\ s \in configs
  /\ actor' = [actor EXCEPT ![a] = Doing("start", "start_lock", s)]
  /\ UNCHANGED <<configs, lock, client>>
  /\ UNCHANGED tables /\ UNCHANGED registry

\* add_server, then start_server.
AskAdd(a, s) ==
  /\ Free(a, "add")
  /\ s \notin configs
  /\ lock = NoTask
  /\ configs' = configs \cup {s}
  /\ actor' = [actor EXCEPT ![a] = Doing("start", "start_lock", s)]
  /\ UNCHANGED <<lock, client>>
  /\ UNCHANGED tables /\ UNCHANGED registry

AskStop(a, s, op) ==
  /\ Free(a, op)
  /\ s \in configs
  /\ CancelTasks({s}, a, Doing(op, "stop_lock", s))
  /\ UNCHANGED <<configs, servers, info, lock, client>>
  /\ UNCHANGED registry

AskRemove(a, s) ==
  /\ Free(a, "remove")
  /\ s \in configs
  /\ actor' = [actor EXCEPT ![a] = Doing("remove", "remove_lock", s)]
  /\ UNCHANGED <<configs, lock, client>>
  /\ UNCHANGED tables /\ UNCHANGED registry

\* remove_server, with the lock.  Of a server that runs it calls stop_server,
\* which waits for the very lock: stuck, and the lock is never free again.
RemoveLocked(a) ==
  LET s == actor[a].server IN
  /\ At(a, "remove_lock")
  /\ lock = NoTask
  /\ IF servers[s] = NoClient
     THEN /\ configs' = configs \ {s}
          /\ Become(a, Idle)
          /\ UNCHANGED lock
     ELSE /\ lock' = a
          /\ CancelTasks({s}, a, [actor[a] EXCEPT !.pc = "stuck"])
          /\ UNCHANGED configs
  /\ UNCHANGED <<servers, info, client>>
  /\ UNCHANGED registry

\* start_all, stop_all, and shutdown, which first cancels every background task.
AskAll(a, op) ==
  /\ Free(a, op)
  /\ CancelTasks(IF op = "shutdown" THEN Server ELSE {}, a, Doing(op, "names_lock", NoServer))
  /\ UNCHANGED <<configs, servers, info, lock, client>>
  /\ UNCHANGED registry

Names(a) ==
  /\ At(a, "names_lock")
  /\ lock = NoTask
  /\ actor' = [actor EXCEPT ![a].pc = "next",
                            ![a].todo = IF actor[a].op = "start_all" THEN configs
                                        ELSE {s \in Server : servers[s] # NoClient}]
  /\ UNCHANGED <<configs, lock, client>>
  /\ UNCHANGED tables /\ UNCHANGED registry

\* The next name of the snapshot, in any order.  start_all looks the name up
\* outside its try block: one that was removed raises, and the rest is skipped.
Visit(a) ==
  LET r == actor[a] IN
  /\ At(a, "next")
  /\ \/ r.todo = {} /\ Become(a, Idle)
     \/ \E s \in r.todo :
          \/ /\ r.op = "start_all" /\ s \notin configs
             /\ Become(a, Idle)
          \/ /\ r.op = "start_all" /\ s \in configs
             /\ Become(a, [r EXCEPT !.pc = "start_lock", !.server = s, !.todo = @ \ {s}])
          \/ /\ r.op \in {"stop_all", "shutdown"}
             /\ CancelTasks({s}, a, [r EXCEPT !.pc = "stop_lock", !.server = s,
                                             !.todo = @ \ {s}])
  /\ UNCHANGED <<configs, servers, info, lock, client>>
  /\ UNCHANGED registry

\* invoke_tool, up to the answer of the server.
Invoke(a, t) ==
  LET c == handler[t] IN
  /\ Free(a, "invoke")
  /\ c # NoClient
  /\ client[c].status = "running" /\ client[c].connected /\ ~Closing(c)
  /\ actor' = [actor EXCEPT ![a] = [Doing("invoke", "call", NoServer) EXCEPT !.client = c]]
  /\ UNCHANGED <<configs, lock, client>>
  /\ UNCHANGED tables /\ UNCHANGED registry

\* An answer, an error, or the timeout.
CallEnds(a) ==
  /\ At(a, "call")
  /\ actor' = [actor EXCEPT ![a] = Idle]
  /\ UNCHANGED <<configs, lock, client>>
  /\ UNCHANGED tables /\ UNCHANGED registry

(***************************************************************************)
(* The background tasks                                                    *)
(***************************************************************************)

\* The interval has passed: look the client up, or end.
Check(a) ==
  LET s == actor[a].server IN
  /\ At(a, "sleep")
  /\ lock = NoTask
  /\ Become(a, IF servers[s] = NoClient THEN Idle
               ELSE [actor[a] EXCEPT !.pc = "ping", !.client = servers[s]])
  /\ UNCHANGED <<configs, servers, info, lock, client>>
  /\ UNCHANGED registry

\* Healthy, which takes a live process, or not: a task is created that will start
\* a reconnection.  A transport whose process is found to be over does not count as
\* connected any more.
PingEnds(a) ==
  LET c == actor[a].client
      resting == [actor[a] EXCEPT !.pc = "sleep", !.client = NoClient]
  IN
  /\ At(a, "ping")
  /\ \/ /\ client[c].status = "running" /\ client[c].alive
        /\ actor' = [actor EXCEPT ![a] = resting]
     \/ \E b \in {d \in Slot : actor[d] = Idle} :
          actor' = [actor EXCEPT ![a] = resting,
                                 ![b] = Doing("reconnect", "spawn", actor[a].server)]
  /\ client' = [client EXCEPT ![c].connected = @ /\ client[c].alive]
  /\ UNCHANGED <<configs, lock>>
  /\ UNCHANGED tables /\ UNCHANGED registry

\* _reconnect_server: nothing if the table has an entry, even one for a task
\* that is over.
Spawn(a) ==
  LET s == actor[a].server IN
  /\ At(a, "spawn")
  /\ IF reconnect[s] # NoTask
     THEN Become(a, Idle)
     ELSE /\ reconnect' = [reconnect EXCEPT ![s] = a]
          /\ actor' = [actor EXCEPT ![a].pc = "start_lock", ![a].attempt = 1]
          /\ UNCHANGED health
  /\ UNCHANGED <<configs, servers, info, lock, client>>
  /\ UNCHANGED registry

Retry(a) ==
  /\ At(a, "backoff")
  /\ actor' = [actor EXCEPT ![a].pc = "start_lock", ![a].attempt = @ + 1]
  /\ UNCHANGED <<configs, lock, client>>
  /\ UNCHANGED tables /\ UNCHANGED registry

\* A cancelled task unwinds: no handler stops the client it was starting.
Unwind(a) ==
  /\ actor[a].cancelled
  /\ Become(a, Idle)
  /\ UNCHANGED <<configs, servers, info, lock, client>>
  /\ UNCHANGED registry

\* The process of a server ends by itself.
ProcessDies(c) ==
  /\ client[c].alive
  /\ client' = [client EXCEPT ![c].alive = FALSE]
  /\ UNCHANGED <<configs, lock, actor>>
  /\ UNCHANGED tables /\ UNCHANGED registry

Start(a) ==
  LookUp(a) \/ Connect(a) \/ Handshake(a) \/ RegisterTools(a) \/ StartRaises(a)
    \/ RecordError(a) \/ Publish(a)
Proceed(a) ==
  \/ Start(a)
  \/ StopLocked(a) \/ Closed(a) \/ RemoveLocked(a) \/ Names(a) \/ Visit(a) \/ CallEnds(a)
  \/ Check(a) \/ PingEnds(a) \/ Spawn(a) \/ Retry(a) \/ Unwind(a)

Ask(a) ==
  \/ \E s \in Server : AskStart(a, s) \/ AskAdd(a, s) \/ AskRemove(a, s)
  \/ \E s \in Server, op \in {"stop", "restart"} : AskStop(a, s, op)
  \/ \E op \in {"start_all", "stop_all", "shutdown"} : AskAll(a, op)
  \/ \E t \in Tool : Invoke(a, t)

Next ==
  \/ \E a \in Actor : Proceed(a) \/ Ask(a)
  \/ \E c \in Client : ProcessDies(c)

Spec == Init /\ [][Next]_vars

\* The event loop resumes whoever can go on; asyncio.Lock is first come, first
\* served.
FairSpec == Spec /\ \A a \in Actor : SF_vars(Proceed(a))
-----------------------------------------------------------------------------
TypeOK ==
  /\ configs \subseteq Server
  /\ servers \in [Server -> Client \cup {NoClient}]
  /\ info \in [Server -> {"none", "running", "error", "stopped"}]
  /\ health \in [Server -> Slot \cup {NoTask, Ended}]
  /\ reconnect \in [Server -> Slot \cup {NoTask, Ended}]
  /\ lock \in Requester \cup {NoTask}
  /\ client \in [Client -> [status: {"stopped", "starting", "running", "error"},
                            alive: BOOLEAN, connected: BOOLEAN]]
  /\ handler \in [Tool -> Client \cup {NoClient}]
  /\ serverTools \in [Server -> SUBSET Tool]
  /\ actor \in [Actor -> ActorRecord]

\* The table holds only clients that run, whatever becomes of the process: the
\* manager relies on it where it returns the info of a running server.
ServedRuns == \A s \in Server : servers[s] # NoClient => client[servers[s]].status = "running"

\* A tool is never bound to a client that was stopped or failed, not even when a
\* start and a stop of its server, or servers with tools of one name, overlap;
\* and some server tracks it, so that it can be unregistered.
HandlersLive ==
  \A t \in Tool : handler[t] # NoClient =>
    /\ client[handler[t]].status = "running"
    /\ \E s \in Server : t \in serverTools[s]

\* Nobody goes on waiting for the answer of a client that is stopped, whoever stops
\* it, unless a health check had found its process over: disconnect then returns
\* early, and the call waits for its timeout.
StopEndsCalls ==
  [][\A c \in Client, a \in Actor :
       client[c].connected /\ client'[c].status = "stopped" =>
         ~(actor'[a].pc = "call" /\ actor'[a].client = c)]_vars

\* What is reported as running is in the table, and can be stopped.
ReportedIsServed == \A s \in Server : info[s] = "running" => servers[s] # NoClient

\* A server leaves the table with its process ended, unless the client of a
\* second start that overlapped takes its place: that process is then lost.
StopEndsProcess ==
  [][\A s \in Server : servers[s] # NoClient /\ servers'[s] # servers[s] =>
       \/ ~client'[servers[s]].alive
       \/ \E a \in Actor : At(a, "publish") /\ servers'[s] = actor[a].client]_vars

Stuck == \E a \in Requester : actor[a].pc = "stuck"

\* With auto_reconnect, a server whose process died is replaced.  It is not:
\* its client still counts as running, so that start_server returns at once.
DeadServerReplaced ==
  \A s \in Server : \A c \in Client :
    (servers[s] = c /\ ~client[c].alive) ~> (servers[s] # c \/ Stuck)
=============================================================================
