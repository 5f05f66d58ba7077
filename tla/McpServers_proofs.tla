-------------------------- MODULE McpServers_proofs -------------------------
(***************************************************************************)
(* Proofs about McpServers, for any servers, tools and clients, any        *)
(* requests and background tasks, and any limit of retries.                *)
(***************************************************************************)
EXTENDS McpServers, TLAPS

(***************************************************************************)
(* The invariant                                                           *)
(***************************************************************************)
\* An actor that is starting a client, from its process to its entry in the table.
Building == {"connect", "handshake", "list", "publish"}
Resting == {"idle", "spawn", "backoff", "sleep", "ping"}

\* What kind of actor may be where.  Only background tasks are cancelled.
Shape(a, r) ==
  /\ r \in ActorRecord
  /\ a \in Slot => r.op \in {"none", "check", "reconnect"} /\ r.pc \in Resting \cup Starting
  /\ a \in Requester => ~r.cancelled
  /\ r.pc \in Starting \cup Stopping \cup {"remove_lock", "stuck", "spawn", "backoff", "sleep", "ping"} =>
       r.server \in Server
  /\ r.pc \in Building \cup {"closing", "call", "ping"} => r.client \in Client
  /\ r.pc = "backoff" => r.attempt < MaxRetries
  /\ r.op \in {"check", "reconnect"} => a \in Slot
  /\ r.pc \in {"spawn", "backoff", "sleep", "ping"} => r.op \in {"check", "reconnect"}

\* A client that is being started belongs to the actor that starts it: it is in no
\* table, no other actor starts it, and its tools are tracked under its server.
Owns(a) ==
  LET c == actor[a].client IN
  actor[a].pc \in Building =>
    /\ client[c].status = IF actor[a].pc \in {"connect", "handshake"} THEN "starting" ELSE "running"
    /\ actor[a].pc # "connect" => (client[c].alive => client[c].connected)
    /\ actor[a].pc \in {"connect", "handshake"} => \A t \in Tool : handler[t] # c
    /\ \A s \in Server : servers[s] # c
    /\ \A b \in Actor \ {a} : actor[b].pc \in Building => actor[b].client # c
    /\ \A t \in Tool : handler[t] = c => t \in serverTools[actor[a].server]

\* Who closes a client holds the lock, so that the table still has the client.
Closes(a) ==
  actor[a].pc = "closing" => lock = a /\ servers[actor[a].server] = actor[a].client

\* A client in the table runs, is connected unless its process is over, is there once,
\* and its tools are tracked under its server.
Serves(s) ==
  LET c == servers[s] IN
  c # NoClient =>
    /\ client[c].status = "running"
    /\ client[c].alive => client[c].connected
    /\ \A r \in Server \ {s} : servers[r] # c
    /\ \A t \in Tool : handler[t] = c => t \in serverTools[s]

MInv ==
  /\ TypeOK
  /\ \A a \in Actor : Shape(a, actor[a]) /\ Owns(a) /\ Closes(a)
  /\ \A s \in Server : Serves(s)
  /\ \A c \in Client : client[c].connected => client[c].status \in {"starting", "running"}
  /\ HandlersLive

LEMMA RecordFields ==
  ASSUME NEW r \in ActorRecord
  PROVE  /\ r.op \in Op /\ r.pc \in PC /\ r.server \in Server \cup {NoServer} /\ r.client \in Client \cup {NoClient}
         /\ r.todo \in SUBSET Server /\ r.attempt \in 0 .. MaxRetries /\ r.cancelled \in BOOLEAN
  BY DEF ActorRecord

LEMMA IdleShape == /\ Idle.pc = "idle" /\ Idle.op = "none" /\ ~Idle.cancelled /\ Idle.client = NoClient
                   /\ Idle \in ActorRecord /\ \A a \in Actor : Shape(a, Idle)
  BY McpAssumption DEF Idle, ActorRecord, Op, PC, Starting, Stopping, Shape, Building, Resting

LEMMA DoingShape ==
  ASSUME NEW op \in Op, NEW pc \in PC, NEW s \in Server \cup {NoServer}
  PROVE  LET r == Doing(op, pc, s) IN
         /\ r \in ActorRecord /\ r.op = op /\ r.pc = pc /\ r.server = s /\ r.client = NoClient
         /\ ~r.cancelled /\ r.attempt = 0
  <1>1. Idle \in ActorRecord /\ Idle.client = NoClient /\ ~Idle.cancelled /\ Idle.attempt = 0
    BY IdleShape DEF Idle
  <1>2. Doing(op, pc, s) = [Idle EXCEPT !.op = op, !.pc = pc, !.server = s]
    BY DEF Doing
  <1> QED BY <1>1, <1>2 DEF ActorRecord

LEMMA AfterStartShape ==
  ASSUME MInv, NEW a \in Actor, actor[a].pc \in Starting, ~actor[a].cancelled, NEW ok \in BOOLEAN
  PROVE  /\ Shape(a, AfterStart(a, ok)) /\ AfterStart(a, ok).pc \in {"next", "backoff", "idle"}
         /\ ~AfterStart(a, ok).cancelled
  <1> DEFINE r == actor[a]
  <1>1. Shape(a, r) /\ r \in ActorRecord
    BY DEF MInv, Shape
  <1>2. CASE r.op = "start_all"
    <2> DEFINE n == [r EXCEPT !.pc = "next", !.server = NoServer, !.client = NoClient]
    <2>1. n \in ActorRecord /\ n.pc = "next" /\ n.op = r.op /\ n.cancelled = r.cancelled
      BY <1>1 DEF ActorRecord, PC
    <2>2. AfterStart(a, ok) = n
      BY <1>2 DEF AfterStart
    <2>3. a \notin Slot
      BY <1>1, <1>2 DEF Shape
    <2> HIDE DEF n
    <2> QED BY <1>1, <2>1, <2>2, <2>3 DEF Shape, Starting, Stopping, Building
  <1>3. CASE r.op # "start_all" /\ r.op = "reconnect" /\ ~ok /\ r.attempt < MaxRetries
    <2> DEFINE n == [r EXCEPT !.pc = "backoff", !.client = NoClient]
    <2>1. n \in ActorRecord /\ n.pc = "backoff" /\ n.op = r.op /\ n.cancelled = r.cancelled
          /\ n.server = r.server /\ n.attempt = r.attempt
      BY <1>1 DEF ActorRecord, PC
    <2>2. AfterStart(a, ok) = n
      BY <1>3 DEF AfterStart
    <2> HIDE DEF n
    <2> QED BY <1>1, <1>3, <2>1, <2>2 DEF Shape, Starting, Stopping, Building, Resting
  <1>4. CASE r.op # "start_all" /\ ~(r.op = "reconnect" /\ ~ok /\ r.attempt < MaxRetries)
    <2>1. AfterStart(a, ok) = Idle
      BY <1>4 DEF AfterStart
    <2> QED BY <2>1, IdleShape
  <1> QED BY <1>2, <1>3, <1>4

LEMMA AfterStopShape ==
  ASSUME MInv, NEW a \in Actor, actor[a].pc \in Stopping
  PROVE  /\ Shape(a, AfterStop(a)) /\ AfterStop(a).pc \in {"next", "start_lock", "idle"}
         /\ a \in Requester
  <1> DEFINE r == actor[a]
  <1>1. Shape(a, r) /\ r \in ActorRecord /\ r.server \in Server /\ ~r.cancelled /\ a \in Requester /\ a \notin Slot
    BY McpAssumption DEF MInv, Shape, Actor, Resting, Starting, Stopping
  <1>2. CASE r.op \in {"stop_all", "shutdown"}
    <2> DEFINE n == [r EXCEPT !.pc = "next", !.server = NoServer, !.client = NoClient]
    <2>1. n \in ActorRecord /\ n.pc = "next" /\ n.op = r.op /\ n.cancelled = r.cancelled
      BY <1>1 DEF ActorRecord, PC
    <2>2. AfterStop(a) = n
      BY <1>2 DEF AfterStop
    <2> HIDE DEF n
    <2> QED BY <1>1, <2>1, <2>2 DEF Shape, Starting, Stopping, Building
  <1>3. CASE r.op = "restart"
    <2> DEFINE n == Doing("restart", "start_lock", r.server)
    <2>1. n \in ActorRecord /\ n.pc = "start_lock" /\ n.op = "restart" /\ ~n.cancelled /\ n.server = r.server
      BY <1>1, DoingShape DEF Op, PC, Starting
    <2>2. AfterStop(a) = n
      BY <1>3 DEF AfterStop
    <2> HIDE DEF n
    <2> QED BY <1>1, <2>1, <2>2 DEF Shape, Starting, Stopping, Building
  <1>4. CASE r.op \notin {"stop_all", "shutdown", "restart"}
    <2>1. AfterStop(a) = Idle
      BY <1>4 DEF AfterStop
    <2> QED BY <1>1, <2>1, IdleShape
  <1> QED BY <1>2, <1>3, <1>4

(***************************************************************************)
(* Steps that change no client, no served client and no tool               *)
(***************************************************************************)
\* The actor b starts and closes nothing new.
Calm(b) ==
  /\ Shape(b, actor'[b])
  /\ actor'[b].pc \in Building \cup {"closing"} =>
       actor'[b].pc = actor[b].pc /\ actor'[b].client = actor[b].client /\ actor'[b].server = actor[b].server

ClientRecord == [status: {"stopped", "starting", "running", "error"}, alive: BOOLEAN, connected: BOOLEAN]

\* Processes end, and are found to be over.
Fades ==
  /\ client' \in [Client -> ClientRecord]
  /\ \A c \in Client :
       /\ client'[c].status = client[c].status
       /\ client'[c].alive => client[c].alive /\ (client[c].connected => client'[c].connected)
       /\ client'[c].connected => client[c].connected

LEMMA QuietInv ==
  ASSUME MInv, UNCHANGED <<servers, handler, serverTools>>, Fades,
         actor' \in [Actor -> ActorRecord], \A b \in Actor : Calm(b),
         lock' = lock \/ lock = NoTask, TypeOK'
  PROVE  MInv'
  <1>1. ASSUME NEW b \in Actor PROVE Owns(b)'
    <2> SUFFICES ASSUME actor'[b].pc \in Building PROVE Owns(b)'
      BY DEF Owns
    <2> DEFINE c == actor[b].client
    <2>1. /\ actor'[b].pc = actor[b].pc /\ actor'[b].client = c /\ actor'[b].server = actor[b].server
          /\ c \in Client /\ Owns(b)
      BY DEF Calm, MInv, Shape
    <2>2. /\ client'[c].status = client[c].status
          /\ client'[c].alive => client[c].alive /\ (client[c].connected => client'[c].connected)
      BY <2>1 DEF Fades
    <2>3. \A d \in Actor \ {b} : actor'[d].pc \in Building => actor'[d].client # c
      BY <2>1 DEF Owns, Calm
    <2> QED BY <2>1, <2>2, <2>3 DEF Owns
  <1>2. ASSUME NEW b \in Actor PROVE Closes(b)'
    BY McpAssumption DEF MInv, Closes, Calm
  <1>3. ASSUME NEW s \in Server PROVE Serves(s)'
    <2> DEFINE c == servers[s]
    <2>1. Serves(s) /\ c \in Client \cup {NoClient}
      BY DEF MInv, TypeOK
    <2>2. c \in Client => /\ client'[c].status = client[c].status
                          /\ client'[c].alive => client[c].alive /\ (client[c].connected => client'[c].connected)
      BY DEF Fades
    <2> QED BY <2>1, <2>2 DEF Serves
  <1>4. HandlersLive'
    BY DEF MInv, TypeOK, HandlersLive, Fades
  <1>5. \A b \in Actor : Shape(b, actor'[b])
    BY DEF Calm
  <1>6. \A c \in Client : client'[c].connected => client'[c].status \in {"starting", "running"}
    BY DEF MInv, Fades
  <1> QED BY <1>1, <1>2, <1>3, <1>4, <1>5, <1>6 DEF MInv

\* The tables of background tasks.
TasksOK(health2, reconnect2) ==
  /\ health2 \in [Server -> Slot \cup {NoTask, Ended}]
  /\ reconnect2 \in [Server -> Slot \cup {NoTask, Ended}]

LEMMA SetCalm ==
  ASSUME MInv, NEW a \in Actor, NEW r, actor' = [actor EXCEPT ![a] = r], Shape(a, r),
         r.pc \notin Building \cup {"closing"}
  PROVE  /\ actor' \in [Actor -> ActorRecord] /\ \A b \in Actor : Calm(b)
         /\ TasksOK(health, reconnect)
  <1>1. actor \in [Actor -> ActorRecord] /\ \A b \in Actor : Shape(b, actor[b])
    BY DEF MInv, TypeOK
  <1>2. r \in ActorRecord
    BY DEF Shape
  <1>3. actor'[a] = r /\ \A b \in Actor \ {a} : actor'[b] = actor[b]
    BY <1>1
  <1>4. \A b \in Actor : Calm(b)
    BY <1>1, <1>3 DEF Calm
  <1> QED BY <1>1, <1>2, <1>4 DEF MInv, TypeOK, TasksOK

LEMMA RetireOK ==
  ASSUME NEW table \in [Server -> Slot \cup {NoTask, Ended}], NEW a
  PROVE  Retire(table, a) \in [Server -> Slot \cup {NoTask, Ended}]
  BY DEF Retire

LEMMA BecomeCalm ==
  ASSUME MInv, NEW a \in Actor, NEW r, Become(a, r), Shape(a, r), r.pc \notin Building \cup {"closing"}
  PROVE  /\ actor' \in [Actor -> ActorRecord] /\ \A b \in Actor : Calm(b)
         /\ TasksOK(health', reconnect')
  <1>1. actor' = [actor EXCEPT ![a] = r]
    BY DEF Become
  <1>2. TasksOK(health', reconnect')
    BY RetireOK DEF Become, MInv, TypeOK, TasksOK
  <1> QED BY <1>1, <1>2, SetCalm

LEMMA CancelCalm ==
  ASSUME MInv, NEW a \in Requester, NEW S \in SUBSET Server, NEW r, CancelTasks(S, a, r), Shape(a, r),
         r.pc \notin Building \cup {"closing"}
  PROVE  /\ actor' \in [Actor -> ActorRecord] /\ \A b \in Actor : Calm(b)
         /\ TasksOK(health', reconnect')
  <1>1. /\ actor \in [Actor -> ActorRecord] /\ \A b \in Actor : Shape(b, actor[b])
        /\ TasksOK(health, reconnect)
    BY DEF MInv, TypeOK, TasksOK
  <1>2. a \in Actor /\ r \in ActorRecord /\ actor' = [b \in Actor |-> actor'[b]] /\ actor'[a] = r
    BY DEF CancelTasks, Shape, Actor
  <1>3. ASSUME NEW b \in Actor \ {a}
        PROVE  actor'[b] = actor[b] \/ (b \in Slot /\ actor'[b] = [actor[b] EXCEPT !.cancelled = TRUE])
    <2>1. \A s \in S : b \in {health[s], reconnect[s]} => b \in Slot
      BY <1>1, McpAssumption DEF TasksOK
    <2> QED BY <2>1 DEF CancelTasks
  <1>4. ASSUME NEW b \in Actor \ {a} PROVE actor'[b] \in ActorRecord /\ Calm(b)
    <2> DEFINE n == [actor[b] EXCEPT !.cancelled = TRUE]
    <2>1. actor[b] \in ActorRecord /\ Shape(b, actor[b])
      BY <1>1
    <2>2. /\ n \in ActorRecord /\ n.op = actor[b].op /\ n.pc = actor[b].pc /\ n.server = actor[b].server
          /\ n.client = actor[b].client /\ n.attempt = actor[b].attempt
      BY <2>1 DEF ActorRecord
    <2> HIDE DEF n
    <2>3. b \in Slot => Shape(b, n)
      BY <2>1, <2>2, McpAssumption DEF Shape
    <2>4. CASE actor'[b] = actor[b]
      BY <2>1, <2>4 DEF Calm
    <2>5. CASE b \in Slot /\ actor'[b] = n
      BY <2>2, <2>3, <2>5 DEF Calm
    <2> QED BY <1>3, <2>4, <2>5 DEF n
  <1>5. Calm(a)
    BY <1>2 DEF Calm
  <1>6. TasksOK(health', reconnect')
    BY <1>1 DEF CancelTasks, TasksOK
  <1> QED BY <1>2, <1>4, <1>5, <1>6

LEMMA FadingStep ==
  ASSUME MInv, UNCHANGED <<servers, handler, serverTools>>, Fades,
         configs' \subseteq Server, info' \in [Server -> {"none", "running", "error", "stopped"}],
         lock' \in Requester \cup {NoTask}, lock' = lock \/ lock = NoTask,
         actor' \in [Actor -> ActorRecord], \A b \in Actor : Calm(b), TasksOK(health', reconnect')
  PROVE  MInv'
  <1>1. TypeOK'
    BY DEF MInv, TypeOK, TasksOK, Fades, ClientRecord
  <1> QED BY <1>1, QuietInv

LEMMA QuietStep ==
  ASSUME MInv, UNCHANGED <<servers, client, handler, serverTools>>,
         configs' \subseteq Server, info' \in [Server -> {"none", "running", "error", "stopped"}],
         lock' \in Requester \cup {NoTask}, lock' = lock \/ lock = NoTask,
         actor' \in [Actor -> ActorRecord], \A b \in Actor : Calm(b), TasksOK(health', reconnect')
  PROVE  MInv'
  <1>1. Fades
    BY DEF MInv, TypeOK, Fades, ClientRecord
  <1> QED BY <1>1, FadingStep

LEMMA OldTypes ==
  ASSUME MInv
  PROVE  /\ configs \subseteq Server /\ info \in [Server -> {"none", "running", "error", "stopped"}]
         /\ lock \in Requester \cup {NoTask} /\ TasksOK(health, reconnect)
         /\ servers \in [Server -> Client \cup {NoClient}]
         /\ actor \in [Actor -> ActorRecord]
         /\ \A a \in Actor : /\ actor[a] \in ActorRecord /\ Shape(a, actor[a])
                             /\ actor[a].cancelled \in BOOLEAN
                             /\ actor[a].todo \subseteq Server /\ actor[a].attempt \in 0 .. MaxRetries
  BY DEF MInv, TypeOK, TasksOK, ActorRecord

\* An actor that starts anew with an operation.
LEMMA AskShape ==
  ASSUME NEW a \in Requester, NEW op \in Op \ {"check", "reconnect"}, NEW pc \in {"start_lock", "stop_lock", "remove_lock"}, NEW s \in Server
  PROVE  Shape(a, Doing(op, pc, s)) /\ Doing(op, pc, s).pc = pc /\ pc \notin Building \cup {"closing"}
  <1>1. pc \in PC
    BY DEF PC, Starting, Stopping
  <1> DEFINE r == Doing(op, pc, s)
  <1>2. r \in ActorRecord /\ r.op = op /\ r.pc = pc /\ r.server = s /\ ~r.cancelled
    BY <1>1, DoingShape
  <1> HIDE DEF r
  <1>3. Shape(a, r)
    BY <1>2, McpAssumption DEF Shape, Building
  <1> QED BY <1>2, <1>3 DEF r, Building

LEMMA FreeRequester == ASSUME NEW a, NEW op, Free(a, op) PROVE a \in Requester /\ a \in Actor
  BY DEF Free, Actor

(***************************************************************************)
(* The requests                                                            *)
(***************************************************************************)
LEMMA AskInv ==
  ASSUME MInv, NEW a \in Actor, NEW s \in Server,
         AskStart(a, s) \/ AskAdd(a, s) \/ AskRemove(a, s)
  PROVE  MInv'
  <1>1. PICK op \in Op \ {"check", "reconnect"}, pc \in {"start_lock", "remove_lock"} :
          /\ a \in Requester
          /\ actor' = [actor EXCEPT ![a] = Doing(op, pc, s)]
    BY FreeRequester DEF AskStart, AskAdd, AskRemove, Op
  <1>2. /\ UNCHANGED <<servers, client, handler, serverTools, info, lock, health, reconnect>>
        /\ configs' \subseteq Server
    BY OldTypes DEF AskStart, AskAdd, AskRemove, tables, registry
  <1> DEFINE r == Doing(op, pc, s)
  <1>3. Shape(a, r) /\ r.pc \notin Building \cup {"closing"}
    BY <1>1, AskShape
  <1> HIDE DEF r
  <1>4. actor' \in [Actor -> ActorRecord] /\ (\A b \in Actor : Calm(b)) /\ TasksOK(health, reconnect)
    BY <1>1, <1>3, SetCalm DEF r
  <1> QED BY <1>2, <1>4, OldTypes, QuietStep

LEMMA AskStopInv ==
  ASSUME MInv, NEW a \in Actor, NEW s \in Server, NEW op \in {"stop", "restart"}, AskStop(a, s, op)
  PROVE  MInv'
  <1>1. a \in Requester /\ op \in Op /\ CancelTasks({s}, a, Doing(op, "stop_lock", s))
    BY FreeRequester DEF AskStop, Op
  <1>2. UNCHANGED <<servers, client, handler, serverTools, configs, info, lock>>
    BY DEF AskStop, registry
  <1> DEFINE r == Doing(op, "stop_lock", s)
  <1>3. Shape(a, r) /\ r.pc \notin Building \cup {"closing"}
    BY <1>1, AskShape
  <1> HIDE DEF r
  <1>4. actor' \in [Actor -> ActorRecord] /\ (\A b \in Actor : Calm(b)) /\ TasksOK(health', reconnect')
    BY <1>1, <1>3, CancelCalm DEF r
  <1> QED BY <1>2, <1>4, OldTypes, QuietStep

LEMMA AskAllInv ==
  ASSUME MInv, NEW a \in Actor, NEW op \in {"start_all", "stop_all", "shutdown"}, AskAll(a, op)
  PROVE  MInv'
  <1> DEFINE r == Doing(op, "names_lock", NoServer)
             S == IF op = "shutdown" THEN Server ELSE {}
  <1>1. a \in Requester /\ op \in Op /\ CancelTasks(S, a, r) /\ S \in SUBSET Server
    BY FreeRequester DEF AskAll, Op
  <1>2. UNCHANGED <<servers, client, handler, serverTools, configs, info, lock>>
    BY DEF AskAll, registry
  <1>3. r \in ActorRecord /\ r.pc = "names_lock" /\ r.op = op /\ ~r.cancelled
    BY <1>1, DoingShape DEF PC
  <1> HIDE DEF r, S
  <1>4. Shape(a, r) /\ r.pc \notin Building \cup {"closing"}
    BY <1>1, <1>3, McpAssumption DEF Shape, Building, Starting, Stopping
  <1>5. actor' \in [Actor -> ActorRecord] /\ (\A b \in Actor : Calm(b)) /\ TasksOK(health', reconnect')
    BY <1>1, <1>4, CancelCalm
  <1> QED BY <1>2, <1>5, OldTypes, QuietStep

LEMMA InvokeInv ==
  ASSUME MInv, NEW a \in Actor, NEW t \in Tool, Invoke(a, t)
  PROVE  MInv'
  <1> DEFINE d == Doing("invoke", "call", NoServer)
             r == [d EXCEPT !.client = handler[t]]
  <1>1. a \in Requester /\ handler[t] \in Client
    BY FreeRequester DEF Invoke, MInv, TypeOK
  <1>2. UNCHANGED <<servers, client, handler, serverTools, configs, info, lock, health, reconnect>>
        /\ actor' = [actor EXCEPT ![a] = r]
    BY DEF Invoke, registry, tables
  <1>3. d \in ActorRecord /\ d.pc = "call" /\ d.op = "invoke" /\ ~d.cancelled
    BY DoingShape DEF PC, Op
  <1> HIDE DEF d
  <1>4. r \in ActorRecord /\ r.pc = "call" /\ r.op = "invoke" /\ ~r.cancelled /\ r.client \in Client
    BY <1>1, <1>3 DEF ActorRecord
  <1> HIDE DEF r
  <1>5. Shape(a, r) /\ r.pc \notin Building \cup {"closing"}
    BY <1>1, <1>4, McpAssumption DEF Shape, Building, Starting, Stopping
  <1>6. actor' \in [Actor -> ActorRecord] /\ (\A b \in Actor : Calm(b)) /\ TasksOK(health, reconnect)
    BY <1>2, <1>5, SetCalm
  <1> QED BY <1>2, <1>6, OldTypes, QuietStep

\* A requester that visits names, calls, or ends.
LEMMA OwnShape ==
  ASSUME MInv, NEW a \in Actor, actor[a].pc \in {"names_lock", "next", "call", "remove_lock"} \cup Stopping
  PROVE  /\ a \in Requester /\ a \notin Slot /\ ~actor[a].cancelled
         /\ actor[a].op \notin {"check", "reconnect"}
  BY McpAssumption DEF MInv, Shape, Actor, Resting, Starting, Stopping

LEMMA NamesInv == ASSUME MInv, NEW a \in Actor, Names(a) PROVE MInv'
  <1>1. PICK todo \in SUBSET Server : actor' = [actor EXCEPT ![a].pc = "next", ![a].todo = todo]
    BY OldTypes DEF Names
  <1> DEFINE r == [actor[a] EXCEPT !.pc = "next", !.todo = todo]
  <1>2. UNCHANGED <<servers, client, handler, serverTools, configs, info, lock, health, reconnect>>
        /\ actor' = [actor EXCEPT ![a] = r]
    BY <1>1, OldTypes DEF Names, registry, tables
  <1>3. a \in Requester /\ a \notin Slot /\ ~actor[a].cancelled /\ actor[a] \in ActorRecord
        /\ actor[a].op \notin {"check", "reconnect"}
    BY OwnShape, OldTypes DEF Names, At
  <1>4. r \in ActorRecord /\ r.pc = "next" /\ r.op = actor[a].op /\ ~r.cancelled
    BY <1>3 DEF ActorRecord, PC
  <1> HIDE DEF r
  <1>5. Shape(a, r) /\ r.pc \notin Building \cup {"closing"}
    BY <1>3, <1>4 DEF Shape, Building, Starting, Stopping
  <1>6. actor' \in [Actor -> ActorRecord] /\ (\A b \in Actor : Calm(b)) /\ TasksOK(health, reconnect)
    BY <1>2, <1>5, SetCalm
  <1> QED BY <1>2, <1>6, OldTypes, QuietStep

LEMMA VisitInv == ASSUME MInv, NEW a \in Actor, Visit(a) PROVE MInv'
  <1>1. a \in Requester /\ a \notin Slot /\ ~actor[a].cancelled /\ actor[a] \in ActorRecord
        /\ actor[a].op \notin {"check", "reconnect"}
    BY OwnShape, OldTypes DEF Visit, At
  <1>2. UNCHANGED <<servers, client, handler, serverTools, configs, info, lock>>
    BY DEF Visit, registry
  <1>3. CASE Become(a, Idle)
    <2>1. Shape(a, Idle) /\ Idle.pc \notin Building \cup {"closing"}
      BY IdleShape DEF Building
    <2>2. actor' \in [Actor -> ActorRecord] /\ (\A b \in Actor : Calm(b)) /\ TasksOK(health', reconnect')
      BY <1>3, <2>1, BecomeCalm
    <2> QED BY <1>2, <2>2, OldTypes, QuietStep
  <1>4. ASSUME NEW s \in Server, NEW pc \in {"start_lock", "stop_lock"}
        PROVE  LET r == [actor[a] EXCEPT !.pc = pc, !.server = s, !.todo = @ \ {s}] IN
               Shape(a, r) /\ r.pc \notin Building \cup {"closing"}
    <2> DEFINE r == [actor[a] EXCEPT !.pc = pc, !.server = s, !.todo = @ \ {s}]
    <2>1. r \in ActorRecord /\ r.pc = pc /\ r.op = actor[a].op /\ ~r.cancelled /\ r.server = s
      BY <1>1 DEF ActorRecord, PC, Starting, Stopping
    <2> HIDE DEF r
    <2>2. Shape(a, r) /\ r.pc \notin Building \cup {"closing"}
      BY <1>1, <2>1 DEF Shape, Building
    <2> QED BY <2>2 DEF r
  <1>5. ASSUME NEW s \in actor[a].todo,
               Become(a, [actor[a] EXCEPT !.pc = "start_lock", !.server = s, !.todo = @ \ {s}])
        PROVE  MInv'
    <2> DEFINE r == [actor[a] EXCEPT !.pc = "start_lock", !.server = s, !.todo = @ \ {s}]
    <2>1. Shape(a, r) /\ r.pc \notin Building \cup {"closing"} /\ Become(a, r)
      BY <1>4, <1>5, OldTypes
    <2> HIDE DEF r
    <2>2. actor' \in [Actor -> ActorRecord] /\ (\A b \in Actor : Calm(b)) /\ TasksOK(health', reconnect')
      BY <2>1, BecomeCalm
    <2> QED BY <1>2, <2>2, OldTypes, QuietStep
  <1>6. ASSUME NEW s \in actor[a].todo,
               CancelTasks({s}, a, [actor[a] EXCEPT !.pc = "stop_lock", !.server = s, !.todo = @ \ {s}])
        PROVE  MInv'
    <2> DEFINE r == [actor[a] EXCEPT !.pc = "stop_lock", !.server = s, !.todo = @ \ {s}]
    <2>1. Shape(a, r) /\ r.pc \notin Building \cup {"closing"} /\ CancelTasks({s}, a, r) /\ {s} \in SUBSET Server
      BY <1>4, <1>6, OldTypes
    <2> HIDE DEF r
    <2>2. actor' \in [Actor -> ActorRecord] /\ (\A b \in Actor : Calm(b)) /\ TasksOK(health', reconnect')
      BY <1>1, <2>1, CancelCalm
    <2> QED BY <1>2, <2>2, OldTypes, QuietStep
  <1> QED BY <1>3, <1>5, <1>6 DEF Visit

LEMMA CallEndsInv == ASSUME MInv, NEW a \in Actor, CallEnds(a) PROVE MInv'
  <1>1. UNCHANGED <<servers, client, handler, serverTools, configs, info, lock, health, reconnect>>
        /\ actor' = [actor EXCEPT ![a] = Idle]
    BY DEF CallEnds, registry, tables
  <1>2. Shape(a, Idle) /\ Idle.pc \notin Building \cup {"closing"}
    BY IdleShape DEF Building
  <1>3. actor' \in [Actor -> ActorRecord] /\ (\A b \in Actor : Calm(b)) /\ TasksOK(health, reconnect)
    BY <1>1, <1>2, SetCalm
  <1> QED BY <1>1, <1>3, OldTypes, QuietStep

LEMMA RemoveLockedInv == ASSUME MInv, NEW a \in Actor, RemoveLocked(a) PROVE MInv'
  <1> DEFINE s == actor[a].server
             r == [actor[a] EXCEPT !.pc = "stuck"]
  <1>1. a \in Requester /\ a \notin Slot /\ ~actor[a].cancelled /\ actor[a] \in ActorRecord /\ s \in Server
        /\ actor[a].op \notin {"check", "reconnect"}
    BY OwnShape, OldTypes DEF RemoveLocked, At, Shape
  <1>2. UNCHANGED <<servers, client, handler, serverTools, info>> /\ lock = NoTask
    BY DEF RemoveLocked, registry
  <1>3. CASE configs' = configs \ {s} /\ Become(a, Idle) /\ UNCHANGED lock
    <2>1. Shape(a, Idle) /\ Idle.pc \notin Building \cup {"closing"}
      BY IdleShape DEF Building
    <2>2. actor' \in [Actor -> ActorRecord] /\ (\A b \in Actor : Calm(b)) /\ TasksOK(health', reconnect')
      BY <1>3, <2>1, BecomeCalm
    <2>3. configs' \subseteq Server
      BY <1>3, OldTypes
    <2> QED BY <1>2, <1>3, <2>2, <2>3, OldTypes, QuietStep
  <1>4. CASE lock' = a /\ CancelTasks({s}, a, r) /\ UNCHANGED configs
    <2>1. r \in ActorRecord /\ r.pc = "stuck" /\ r.op = actor[a].op /\ ~r.cancelled /\ r.server = s
      BY <1>1 DEF ActorRecord, PC
    <2> HIDE DEF r
    <2>2. Shape(a, r) /\ r.pc \notin Building \cup {"closing"} /\ {s} \in SUBSET Server
      BY <1>1, <2>1 DEF Shape, Building
    <2>3. actor' \in [Actor -> ActorRecord] /\ (\A b \in Actor : Calm(b)) /\ TasksOK(health', reconnect')
      BY <1>1, <1>4, <2>2, CancelCalm
    <2> QED BY <1>1, <1>2, <1>4, <2>3, OldTypes, QuietStep
  <1> QED BY <1>3, <1>4 DEF RemoveLocked

(***************************************************************************)
(* The background tasks                                                    *)
(***************************************************************************)
LEMMA EndQuietly ==
  ASSUME MInv, NEW a \in Actor, NEW r, Become(a, r), Shape(a, r), r.pc \notin Building \cup {"closing"},
         UNCHANGED <<servers, client, handler, serverTools, configs, lock>>,
         info' \in [Server -> {"none", "running", "error", "stopped"}]
  PROVE  MInv'
  <1>1. actor' \in [Actor -> ActorRecord] /\ (\A b \in Actor : Calm(b)) /\ TasksOK(health', reconnect')
    BY BecomeCalm
  <1> QED BY <1>1, OldTypes, QuietStep

LEMMA UnwindInv == ASSUME MInv, NEW a \in Actor, Unwind(a) PROVE MInv'
  <1>1. Shape(a, Idle) /\ Idle.pc \notin Building \cup {"closing"}
    BY IdleShape DEF Building
  <1> QED BY <1>1, EndQuietly, OldTypes DEF Unwind, registry

\* Another place of the same actor.
LEMMA MovedShape ==
  ASSUME NEW a \in Actor, NEW old, Shape(a, old), NEW r \in ActorRecord,
         r.op = old.op, r.server = old.server, r.server \in Server, r.cancelled = old.cancelled,
         r.pc \in (Resting \cup Starting) \ {"backoff"},
         r.pc \in {"ping"} \cup Building => r.client \in Client,
         r.pc \in {"spawn", "sleep", "ping"} => r.op \in {"check", "reconnect"}
  PROVE  Shape(a, r)
  BY DEF Shape, Building, Starting, Resting

LEMMA CheckInv == ASSUME MInv, NEW a \in Actor, Check(a) PROVE MInv'
  <1> DEFINE s == actor[a].server
  <1>1. UNCHANGED <<servers, client, handler, serverTools, configs, info, lock>> /\ actor[a].pc = "sleep"
    BY DEF Check, registry, At
  <1>2. actor[a] \in ActorRecord /\ Shape(a, actor[a]) /\ s \in Server /\ servers[s] \in Client \cup {NoClient}
        /\ actor[a].attempt \in 0 .. MaxRetries
    BY <1>1, OldTypes DEF Shape
  <1>3. CASE Become(a, Idle)
    <2>1. Shape(a, Idle) /\ Idle.pc \notin Building \cup {"closing"}
      BY IdleShape DEF Building
    <2> QED BY <1>1, <1>3, <2>1, EndQuietly, OldTypes
  <1>4. CASE servers[s] # NoClient /\ Become(a, [actor[a] EXCEPT !.pc = "ping", !.client = servers[s]])
    <2> DEFINE r == [actor[a] EXCEPT !.pc = "ping", !.client = servers[s]]
    <2>1. servers[s] \in Client /\ actor[a].op \in {"check", "reconnect"}
      BY <1>1, <1>2, <1>4 DEF Shape
    <2>2. /\ r \in ActorRecord /\ r.pc = "ping" /\ r.client \in Client /\ r.op = actor[a].op
          /\ r.server = s /\ r.cancelled = actor[a].cancelled
      BY <1>2, <2>1 DEF ActorRecord, PC
    <2>3. Become(a, r)
      BY <1>4
    <2> HIDE DEF r
    <2>4. Shape(a, r)
      BY <1>2, <2>1, <2>2, MovedShape DEF Resting
    <2> QED BY <1>1, <2>2, <2>3, <2>4, EndQuietly, OldTypes DEF Building
  <1> QED BY <1>3, <1>4 DEF Check

LEMMA SpawnInv == ASSUME MInv, NEW a \in Actor, Spawn(a) PROVE MInv'
  <1> DEFINE s == actor[a].server
  <1>1. UNCHANGED <<servers, client, handler, serverTools, configs, info, lock>> /\ actor[a].pc = "spawn"
    BY DEF Spawn, registry, At
  <1>2. /\ actor[a] \in ActorRecord /\ Shape(a, actor[a]) /\ s \in Server
        /\ actor[a].client \in Client \cup {NoClient} /\ 1 \in 0 .. MaxRetries
        /\ a \in Slot
    <2>1. 1 \in 0 .. MaxRetries
      BY McpAssumption
    <2> QED BY <1>1, <2>1, OldTypes, RecordFields DEF Shape
  <1>3. CASE Become(a, Idle)
    <2>1. Shape(a, Idle) /\ Idle.pc \notin Building \cup {"closing"}
      BY IdleShape DEF Building
    <2> QED BY <1>1, <1>3, <2>1, EndQuietly, OldTypes
  <1>4. CASE /\ reconnect' = [reconnect EXCEPT ![s] = a] /\ UNCHANGED health
             /\ actor' = [actor EXCEPT ![a].pc = "start_lock", ![a].attempt = 1]
    <2> DEFINE r == [actor[a] EXCEPT !.pc = "start_lock", !.attempt = 1]
    <2>1. actor' = [actor EXCEPT ![a] = r]
      BY <1>2, <1>4, OldTypes
    <2>2. /\ r \in ActorRecord /\ r.pc = "start_lock" /\ r.op = actor[a].op
          /\ r.server = s /\ r.cancelled = actor[a].cancelled
      BY <1>2 DEF ActorRecord, PC, Starting
    <2> HIDE DEF r
    <2>5. Shape(a, r)
      BY <1>2, <2>2, MovedShape DEF Starting, Building
    <2>3. actor' \in [Actor -> ActorRecord] /\ (\A b \in Actor : Calm(b))
      BY <2>1, <2>2, <2>5, SetCalm DEF Building
    <2>4. TasksOK(health', reconnect')
      BY <1>2, <1>4, OldTypes DEF TasksOK
    <2> QED BY <1>1, <2>3, <2>4, OldTypes, QuietStep
  <1> QED BY <1>3, <1>4 DEF Spawn

LEMMA RetryInv == ASSUME MInv, NEW a \in Actor, Retry(a) PROVE MInv'
  <1> DEFINE r == [actor[a] EXCEPT !.pc = "start_lock", !.attempt = @ + 1]
  <1>1. /\ UNCHANGED <<servers, client, handler, serverTools, configs, info, lock, health, reconnect>>
        /\ actor[a].pc = "backoff" /\ actor' = [actor EXCEPT ![a] = r]
    BY OldTypes DEF Retry, registry, tables, At
  <1>2. /\ actor[a] \in ActorRecord /\ Shape(a, actor[a]) /\ actor[a].server \in Server
        /\ actor[a].attempt + 1 \in 0 .. MaxRetries
    <2>1. Shape(a, actor[a]) /\ actor[a].attempt < MaxRetries /\ actor[a].attempt \in 0 .. MaxRetries
      BY <1>1, OldTypes DEF Shape
    <2> QED BY <1>1, <2>1, McpAssumption DEF Shape
  <1>3. /\ r \in ActorRecord /\ r.pc = "start_lock" /\ r.op = actor[a].op
        /\ r.server = actor[a].server /\ r.cancelled = actor[a].cancelled
    BY <1>2 DEF ActorRecord, PC, Starting
  <1> HIDE DEF r
  <1>4. Shape(a, r)
    BY <1>2, <1>3, MovedShape DEF Starting, Building
  <1>5. actor' \in [Actor -> ActorRecord] /\ (\A b \in Actor : Calm(b)) /\ TasksOK(health, reconnect)
    BY <1>1, <1>3, <1>4, SetCalm DEF Building
  <1> QED BY <1>1, <1>5, OldTypes, QuietStep

LEMMA PingEndsInv == ASSUME MInv, NEW a \in Actor, PingEnds(a) PROVE MInv'
  <1> DEFINE c == actor[a].client
             r == [actor[a] EXCEPT !.pc = "sleep", !.client = NoClient]
             n == Doing("reconnect", "spawn", actor[a].server)
  <1>1. /\ UNCHANGED <<servers, handler, serverTools, configs, info, lock, health, reconnect>>
        /\ actor[a].pc = "ping"
        /\ client' = [client EXCEPT ![c].connected = @ /\ client[c].alive]
    BY DEF PingEnds, registry, tables, At
  <1>2. actor[a] \in ActorRecord /\ Shape(a, actor[a]) /\ actor[a].server \in Server /\ c \in Client
        /\ actor[a].op \in {"check", "reconnect"} /\ actor \in [Actor -> ActorRecord]
    BY <1>1, OldTypes DEF Shape
  <1>3. Fades
    <2>1. client \in [Client -> ClientRecord]
      BY DEF MInv, TypeOK, ClientRecord
    <2> QED BY <1>1, <1>2, <2>1 DEF Fades, ClientRecord
  <1>4. /\ r \in ActorRecord /\ r.pc = "sleep" /\ r.op = actor[a].op
        /\ r.server = actor[a].server /\ r.cancelled = actor[a].cancelled
    BY <1>2 DEF ActorRecord, PC
  <1>5. n \in ActorRecord /\ n.pc = "spawn" /\ n.op = "reconnect" /\ n.server = actor[a].server /\ ~n.cancelled
    BY <1>2, DoingShape DEF PC, Op
  <1>6. /\ actor' = [b \in Actor |-> actor'[b]] /\ actor'[a] = r
        /\ \A b \in Actor \ {a} : actor'[b] = actor[b] \/ (b \in Slot /\ actor'[b] = n)
    <2>1. CASE actor' = [actor EXCEPT ![a] = r]
      BY <1>2, <2>1
    <2>2. ASSUME NEW b \in Slot, actor[b] = Idle, actor' = [actor EXCEPT ![a] = r, ![b] = n]
          PROVE <1>6
      <3>1. b # a /\ b \in Actor
        BY <1>1, <2>2, IdleShape DEF Actor
      <3> QED BY <1>2, <2>2, <3>1
    <2> QED BY <2>1, <2>2 DEF PingEnds
  <1> HIDE DEF r, n
  <1>7. Shape(a, r)
    BY <1>2, <1>4, MovedShape DEF Building, Resting
  <1>8. \A b \in Slot : Shape(b, n)
    BY <1>2, <1>5, McpAssumption DEF Shape, Building, Resting
  <1>9. \A b \in Actor : Calm(b) /\ actor'[b] \in ActorRecord
    BY <1>2, <1>4, <1>5, <1>6, <1>7, <1>8, OldTypes DEF Calm, Building
  <1> QED BY <1>1, <1>3, <1>6, <1>9, OldTypes, FadingStep

LEMMA ProcessDiesInv == ASSUME MInv, NEW c \in Client, ProcessDies(c) PROVE MInv'
  <1>1. /\ UNCHANGED <<servers, handler, serverTools, configs, info, lock, health, reconnect, actor>>
        /\ client' = [client EXCEPT ![c].alive = FALSE]
    BY DEF ProcessDies, registry, tables
  <1>2. Fades
    <2>1. client \in [Client -> ClientRecord]
      BY DEF MInv, TypeOK, ClientRecord
    <2> QED BY <1>1, <2>1 DEF Fades, ClientRecord
  <1>3. \A b \in Actor : Calm(b)
    BY <1>1, OldTypes DEF Calm
  <1> QED BY <1>1, <1>2, <1>3, OldTypes, FadingStep

(***************************************************************************)
(* start_server                                                            *)
(***************************************************************************)
LEMMA RecordErrorInv == ASSUME MInv, NEW a \in Actor, RecordError(a) PROVE MInv'
  <1> DEFINE r == AfterStart(a, FALSE)
  <1>1. /\ UNCHANGED <<servers, client, handler, serverTools, configs, lock>> /\ Become(a, r)
        /\ info' = [info EXCEPT ![actor[a].server] = "error"]
    BY DEF RecordError, registry
  <1>2. Shape(a, r) /\ r.pc \notin Building \cup {"closing"}
    BY AfterStartShape DEF RecordError, At, Starting, Building
  <1>3. info' \in [Server -> {"none", "running", "error", "stopped"}]
    BY <1>1, OldTypes
  <1> HIDE DEF r
  <1> QED BY <1>1, <1>2, <1>3, EndQuietly

\* A step of an actor about a client that is in no table and that no other actor starts.
LEMMA OwnStep ==
  ASSUME MInv, NEW a \in Actor, NEW c \in Client, NEW v \in ClientRecord, NEW r,
         client' = [client EXCEPT ![c] = v], actor' = [actor EXCEPT ![a] = r],
         UNCHANGED <<servers, handler, serverTools, lock, configs, info, health, reconnect>>,
         \A s \in Server : servers[s] # c,
         \A b \in Actor \ {a} : actor[b].pc \in Building => actor[b].client # c,
         v.status # "running" => \A t \in Tool : handler[t] # c,
         v.connected => v.status \in {"starting", "running"},
         Shape(a, r), r.pc # "closing",
         r.pc \in Building =>
           /\ r.client = c
           /\ v.status = IF r.pc \in {"connect", "handshake"} THEN "starting" ELSE "running"
           /\ r.pc # "connect" => (v.alive => v.connected)
           /\ \A t \in Tool : handler[t] = c => t \in serverTools[r.server]
  PROVE  MInv'
  <1>1. client \in [Client -> ClientRecord] /\ handler \in [Tool -> Client \cup {NoClient}]
    BY DEF MInv, TypeOK, ClientRecord
  <1>2. client'[c] = v /\ \A d \in Client \ {c} : client'[d] = client[d]
    BY <1>1
  <1>3. actor'[a] = r /\ (\A b \in Actor \ {a} : actor'[b] = actor[b]) /\ actor' \in [Actor -> ActorRecord]
    BY OldTypes DEF Shape
  <1>4. TypeOK'
    <2>1. client' \in [Client -> ClientRecord]
      BY <1>1
    <2> QED BY <1>3, <2>1 DEF MInv, TypeOK, ClientRecord
  <1>5. Owns(a)'
    BY <1>2, <1>3 DEF Owns
  <1>6. ASSUME NEW b \in Actor \ {a} PROVE Owns(b)'
    <2> SUFFICES ASSUME actor[b].pc \in Building PROVE Owns(b)'
      BY <1>3 DEF Owns
    <2>1. actor'[b] = actor[b] /\ actor[b].client \in Client \ {c} /\ Owns(b)
      BY <1>3 DEF MInv, Shape
    <2>2. client'[actor[b].client] = client[actor[b].client]
      BY <1>2, <2>1
    <2>3. \A d \in Actor \ {b} : actor'[d].pc \in Building => actor'[d].client # actor[b].client
      BY <1>3, <2>1 DEF Owns
    <2> QED BY <2>1, <2>2, <2>3 DEF Owns
  <1>7. \A b \in Actor : Closes(b)' /\ Shape(b, actor'[b])
    BY <1>3 DEF MInv, Closes
  <1>8. ASSUME NEW s \in Server PROVE Serves(s)'
    <2>1. Serves(s) /\ (servers[s] = NoClient \/ servers[s] \in Client \ {c})
      BY DEF MInv, TypeOK
    <2>2. servers[s] # NoClient => client'[servers[s]] = client[servers[s]]
      BY <1>2, <2>1
    <2> QED BY <2>1, <2>2 DEF Serves
  <1>9. HandlersLive'
    BY <1>1, <1>2 DEF MInv, HandlersLive
  <1>10. \A d \in Client : client'[d].connected => client'[d].status \in {"starting", "running"}
    BY <1>2 DEF MInv
  <1> QED BY <1>4, <1>5, <1>6, <1>7, <1>8, <1>9, <1>10 DEF MInv

LEMMA LookUpInv == ASSUME MInv, NEW a \in Actor, LookUp(a) PROVE MInv'
  <1> DEFINE s == actor[a].server
  <1>1. /\ UNCHANGED <<servers, handler, serverTools, lock, configs, info>>
        /\ actor[a].pc = "start_lock" /\ ~actor[a].cancelled
    BY DEF LookUp, registry, At
  <1>2. actor[a] \in ActorRecord /\ Shape(a, actor[a]) /\ s \in Server
    BY <1>1, OldTypes DEF Shape, Starting
  <1>3. CASE Become(a, AfterStart(a, s \in configs)) /\ UNCHANGED client
    <2> DEFINE ok == s \in configs
    <2>1. ok \in BOOLEAN /\ Become(a, AfterStart(a, ok)) /\ actor[a].pc \in Starting
      BY <1>1, <1>3 DEF Starting
    <2> HIDE DEF ok
    <2>2. Shape(a, AfterStart(a, ok)) /\ AfterStart(a, ok).pc \notin Building \cup {"closing"}
      BY <1>1, <2>1, AfterStartShape DEF Building
    <2> QED BY <1>1, <1>3, <2>1, <2>2, EndQuietly, OldTypes
  <1>4. ASSUME NEW c \in Client, Fresh(c), NEW spawned \in BOOLEAN, ~Served(s),
               client' = [d \in Client |->
                  IF d = c
                  THEN [status |-> IF spawned THEN "starting" ELSE "error", alive |-> spawned,
                        connected |-> FALSE]
                  ELSE IF d = servers[s] THEN Disconnected(d) ELSE client[d]],
               actor' = [actor EXCEPT ![a].pc = IF spawned THEN "connect" ELSE "fail_lock", ![a].client = c],
               UNCHANGED <<health, reconnect>>
        PROVE  MInv'
    <2> DEFINE v == [status |-> IF spawned THEN "starting" ELSE "error", alive |-> spawned, connected |-> FALSE]
               r == [actor[a] EXCEPT !.pc = IF spawned THEN "connect" ELSE "fail_lock", !.client = c]
    <2>1. servers[s] = NoClient
      BY <1>2, <1>4 DEF MInv, Serves, Served
    <2>2. client \in [Client -> ClientRecord] /\ NoClient \notin Client
      BY McpAssumption DEF MInv, TypeOK, ClientRecord
    <2>3. client' = [client EXCEPT ![c] = v]
      BY <1>4, <2>1, <2>2
    <2>4. v \in ClientRecord /\ ~v.connected /\ v.status = (IF spawned THEN "starting" ELSE "error")
      BY DEF ClientRecord
    <2>5. actor' = [actor EXCEPT ![a] = r]
      BY <1>4, OldTypes
    <2>6. /\ r \in ActorRecord /\ r.pc = (IF spawned THEN "connect" ELSE "fail_lock") /\ r.client = c
          /\ r.op = actor[a].op /\ r.server = s /\ r.cancelled = actor[a].cancelled
      BY <1>2 DEF ActorRecord, PC, Starting
    <2> HIDE DEF r, v
    <2>7. Shape(a, r)
      BY <1>2, <2>6, MovedShape DEF Starting, Building
    <2>8. r.pc \in Building => spawned /\ r.pc = "connect"
      BY <2>6 DEF Building
    <2>9. /\ \A q \in Server : servers[q] # c
          /\ \A b \in Actor \ {a} : actor[b].client # c
          /\ \A t \in Tool : handler[t] # c
      BY <1>4 DEF Fresh
    <2>10. /\ r.pc # "closing" /\ (v.connected => v.status \in {"starting", "running"})
           /\ v.status # "running"
           /\ r.pc \in Building => v.status = "starting" /\ r.client = c /\ r.pc = "connect"
      BY <2>4, <2>6, <2>8
    <2>11. UNCHANGED <<servers, handler, serverTools, lock, configs, info, health, reconnect>>
      BY <1>1, <1>4
    <2> QED BY <2>3, <2>4, <2>5, <2>7, <2>9, <2>10, <2>11, OwnStep
  <1> QED BY <1>3, <1>4 DEF LookUp

\* What is known of a client that is being started, and where its actor goes on.
LEMMA OwnClient ==
  ASSUME MInv, NEW a \in Actor, actor[a].pc \in Building
  PROVE  LET c == actor[a].client IN
         /\ c \in Client /\ client[c] \in ClientRecord /\ Owns(a) /\ actor[a].server \in Server
         /\ \A s \in Server : servers[s] # c
         /\ \A b \in Actor \ {a} : actor[b].pc \in Building => actor[b].client # c
         /\ actor[a] \in ActorRecord /\ Shape(a, actor[a])
  BY DEF MInv, TypeOK, ClientRecord, Shape, Owns, Building, Starting

LEMMA StartMoves ==
  ASSUME MInv, NEW a \in Actor, actor[a].pc \in Building, NEW pc \in Starting
  PROVE  LET r == [actor[a] EXCEPT !.pc = pc] IN
         /\ Shape(a, r) /\ r.pc = pc /\ r.client = actor[a].client /\ r.server = actor[a].server
  <1> DEFINE r == [actor[a] EXCEPT !.pc = pc]
  <1>1. actor[a] \in ActorRecord /\ Shape(a, actor[a]) /\ actor[a].server \in Server /\ actor[a].client \in Client
    BY OwnClient
  <1>2. /\ r \in ActorRecord /\ r.pc = pc /\ r.client = actor[a].client /\ r.server = actor[a].server
        /\ r.op = actor[a].op /\ r.cancelled = actor[a].cancelled
    BY <1>1 DEF ActorRecord, PC
  <1> HIDE DEF r
  <1>3. Shape(a, r)
    BY <1>1, <1>2, MovedShape DEF Starting
  <1> QED BY <1>2, <1>3 DEF r

LEMMA ConnectInv == ASSUME MInv, NEW a \in Actor, Connect(a) PROVE MInv'
  <1> DEFINE c == actor[a].client
             v == [client[c] EXCEPT !.connected = TRUE]
             r == [actor[a] EXCEPT !.pc = "handshake"]
  <1>1. UNCHANGED <<servers, handler, serverTools, lock, configs, info, health, reconnect>>
        /\ actor[a].pc = "connect"
    BY DEF Connect, tables, registry, At
  <1>2. actor[a].pc \in Building /\ "handshake" \in Starting
    BY <1>1 DEF Building, Starting
  <1>3. /\ c \in Client /\ client[c] \in ClientRecord /\ Owns(a) /\ client[c].status = "starting"
        /\ \A s \in Server : servers[s] # c
        /\ \A b \in Actor \ {a} : actor[b].pc \in Building => actor[b].client # c
        /\ \A t \in Tool : handler[t] # c
    BY <1>1, <1>2, OwnClient DEF Owns
  <1>4. client' = [client EXCEPT ![c] = v] /\ actor' = [actor EXCEPT ![a] = r]
    BY <1>3, OldTypes DEF Connect, MInv, TypeOK
  <1>5. v \in ClientRecord /\ v.status = "starting" /\ v.connected
    BY <1>3 DEF ClientRecord
  <1>6. Shape(a, r) /\ r.pc = "handshake" /\ r.client = c
    BY <1>2, StartMoves
  <1> HIDE DEF v, r
  <1> QED BY <1>1, <1>3, <1>4, <1>5, <1>6, OwnStep

LEMMA HandshakeInv == ASSUME MInv, NEW a \in Actor, Handshake(a) PROVE MInv'
  <1> DEFINE c == actor[a].client
             v == [client[c] EXCEPT !.status = "running"]
             r == [actor[a] EXCEPT !.pc = "list"]
  <1>1. UNCHANGED <<servers, handler, serverTools, lock, configs, info, health, reconnect>>
        /\ actor[a].pc = "handshake"
    BY DEF Handshake, tables, registry, At
  <1>2. actor[a].pc \in Building /\ "list" \in Starting
    BY <1>1 DEF Building, Starting
  <1>3. /\ c \in Client /\ client[c] \in ClientRecord /\ (client[c].alive => client[c].connected)
        /\ \A s \in Server : servers[s] # c
        /\ \A b \in Actor \ {a} : actor[b].pc \in Building => actor[b].client # c
        /\ \A t \in Tool : handler[t] # c
    BY <1>1, <1>2, OwnClient DEF Owns
  <1>4. client' = [client EXCEPT ![c] = v] /\ actor' = [actor EXCEPT ![a] = r]
    BY <1>3, OldTypes DEF Handshake, MInv, TypeOK
  <1>5. v \in ClientRecord /\ v.status = "running" /\ (v.alive => v.connected)
    BY <1>3 DEF ClientRecord
  <1>6. Shape(a, r) /\ r.pc = "list" /\ r.client = c
    BY <1>2, StartMoves
  <1> HIDE DEF v, r
  <1> QED BY <1>1, <1>3, <1>4, <1>5, <1>6, OwnStep

LEMMA StartRaisesInv == ASSUME MInv, NEW a \in Actor, StartRaises(a) PROVE MInv'
  <1> DEFINE c == actor[a].client
             r == [actor[a] EXCEPT !.pc = "fail_lock"]
  <1>1. UNCHANGED <<servers, handler, serverTools, lock, configs, info, health, reconnect>>
        /\ actor[a].pc \in {"connect", "handshake", "list"}
    BY DEF StartRaises, tables, registry, At
  <1>2. actor[a].pc \in Building /\ "fail_lock" \in Starting /\ "fail_lock" \notin Building
    BY <1>1 DEF Building, Starting
  <1>3. /\ c \in Client /\ client[c] \in ClientRecord
        /\ \A s \in Server : servers[s] # c
        /\ \A b \in Actor \ {a} : actor[b].pc \in Building => actor[b].client # c
        /\ actor[a].pc # "list" => \A t \in Tool : handler[t] # c
        /\ actor[a].pc = "list" => client[c].status = "running"
    BY <1>1, <1>2, OwnClient DEF Owns
  <1>4. PICK v \in ClientRecord :
          /\ client' = [client EXCEPT ![c] = v]
          /\ actor[a].pc = "list" => v = client[c]
          /\ actor[a].pc # "list" => ~v.connected
    <2>1. CASE actor[a].pc = "list"
      <3>1. client' = [client EXCEPT ![c] = client[c]]
        BY <1>3, <2>1 DEF StartRaises, MInv, TypeOK
      <3> QED BY <1>3, <2>1, <3>1
    <2>2. CASE actor[a].pc # "list"
      <3> DEFINE v == [Disconnected(c) EXCEPT !.status = "error"]
      <3>1. v \in ClientRecord /\ ~v.connected
        BY <1>3 DEF Disconnected, ClientRecord
      <3>2. client' = [client EXCEPT ![c] = v]
        BY <2>2 DEF StartRaises
      <3> QED BY <2>2, <3>1, <3>2
    <2> QED BY <2>1, <2>2
  <1>5. actor' = [actor EXCEPT ![a] = r]
    BY OldTypes DEF StartRaises
  <1>6. Shape(a, r) /\ r.pc = "fail_lock"
    BY <1>2, StartMoves
  <1> HIDE DEF r
  <1> QED BY <1>1, <1>2, <1>3, <1>4, <1>5, <1>6, OwnStep

\* The tools are bound to the client, and tracked under its server.
LEMMA RegisterToolsInv == ASSUME MInv, NEW a \in Actor, RegisterTools(a) PROVE MInv'
  <1> DEFINE c == actor[a].client
             s == actor[a].server
             r == [actor[a] EXCEPT !.pc = "publish"]
  <1>1. /\ UNCHANGED <<servers, client, lock, configs, info, health, reconnect>> /\ actor[a].pc = "list"
        /\ handler' = [t \in Tool |-> IF t \in Offers[s] THEN c ELSE handler[t]]
        /\ serverTools' = [serverTools EXCEPT ![s] = @ \cup Offers[s]]
        /\ actor' = [actor EXCEPT ![a] = r]
    BY OldTypes DEF RegisterTools, tables, At
  <1>2. actor[a].pc \in Building /\ "publish" \in Starting
    BY <1>1 DEF Building, Starting
  <1>3. /\ c \in Client /\ s \in Server /\ c # NoClient
        /\ Owns(a) /\ client[c].status = "running" /\ (client[c].alive => client[c].connected)
        /\ \A q \in Server : servers[q] # c
        /\ \A b \in Actor \ {a} : actor[b].pc \in Building => actor[b].client # c
    BY <1>1, <1>2, OwnClient, McpAssumption DEF Owns
  <1>4. Shape(a, r) /\ r.pc = "publish" /\ r.client = c /\ r.server = s
    BY <1>2, StartMoves
  <1> HIDE DEF r
  <1>5. actor'[a] = r /\ (\A b \in Actor \ {a} : actor'[b] = actor[b]) /\ actor' \in [Actor -> ActorRecord]
    BY <1>1, <1>4, OldTypes DEF Shape
  <1>6. /\ handler \in [Tool -> Client \cup {NoClient}] /\ serverTools \in [Server -> SUBSET Tool]
        /\ Offers[s] \subseteq Tool
    BY <1>3, McpAssumption DEF MInv, TypeOK
  <1>7. /\ \A t \in Tool : handler'[t] # handler[t] => handler'[t] = c /\ t \in serverTools'[s]
        /\ \A q \in Server : serverTools[q] \subseteq serverTools'[q]
        /\ handler' \in [Tool -> Client \cup {NoClient}] /\ serverTools' \in [Server -> SUBSET Tool]
    BY <1>1, <1>3, <1>6
  <1>8. TypeOK'
    BY <1>1, <1>5, <1>7 DEF MInv, TypeOK
  <1>9. Owns(a)'
    <2>1. \A t \in Tool : handler'[t] = c => t \in serverTools'[s]
      BY <1>2, <1>3, <1>7 DEF Owns
    <2> QED BY <1>1, <1>3, <1>4, <1>5, <2>1 DEF Owns
  <1>10. ASSUME NEW b \in Actor \ {a} PROVE Owns(b)'
    <2> SUFFICES ASSUME actor[b].pc \in Building PROVE Owns(b)'
      BY <1>5 DEF Owns
    <2>1. actor'[b] = actor[b] /\ actor[b].client \in Client \ {c} /\ actor[b].server \in Server /\ Owns(b)
      BY <1>3, <1>5, OwnClient
    <2>2. /\ \A d \in Actor \ {b} : actor'[d].pc \in Building => actor'[d].client # actor[b].client
          /\ \A t \in Tool : handler'[t] = actor[b].client => handler[t] = actor[b].client
      BY <1>4, <1>5, <1>7, <2>1 DEF Owns
    <2> QED BY <1>1, <1>7, <2>1, <2>2 DEF Owns
  <1>11. \A b \in Actor : Closes(b)' /\ Shape(b, actor'[b])
    BY <1>1, <1>4, <1>5 DEF MInv, Closes
  <1>12. ASSUME NEW q \in Server PROVE Serves(q)'
    <2>1. Serves(q) /\ servers[q] # c
      BY <1>3 DEF MInv
    <2> QED BY <1>1, <1>7, <2>1 DEF Serves
  <1>13. HandlersLive'
    BY <1>1, <1>3, <1>7 DEF MInv, HandlersLive
  <1> QED BY <1>1, <1>8, <1>9, <1>10, <1>11, <1>12, <1>13 DEF MInv

LEMMA PublishInv == ASSUME MInv, NEW a \in Actor, Publish(a) PROVE MInv'
  <1> DEFINE c == actor[a].client
             s == actor[a].server
             r == AfterStart(a, TRUE)
             n == Doing("check", "sleep", s)
  <1>1. /\ UNCHANGED <<client, handler, serverTools, lock, configs>>
        /\ actor[a].pc = "publish" /\ ~actor[a].cancelled /\ lock = NoTask
        /\ servers' = [servers EXCEPT ![s] = c]
        /\ info' = [info EXCEPT ![s] = "running"]
        /\ reconnect' = IF r = Idle THEN Retire(reconnect, a) ELSE reconnect
    BY DEF Publish, registry, At
  <1>2. actor[a].pc \in Building \cap Starting
    BY <1>1 DEF Building, Starting
  <1>3. /\ c \in Client /\ s \in Server
        /\ Owns(a) /\ client[c].status = "running" /\ (client[c].alive => client[c].connected)
        /\ \A q \in Server : servers[q] # c
        /\ \A t \in Tool : handler[t] = c => t \in serverTools[s]
        /\ \A b \in Actor \ {a} : actor[b].pc \in Building => actor[b].client # c
    BY <1>1, <1>2, OwnClient DEF Owns
  <1>4. Shape(a, r) /\ r.pc \notin Building \cup {"closing"}
    BY <1>1, <1>2, AfterStartShape DEF Building
  <1>5. n \in ActorRecord /\ n.pc = "sleep" /\ n.op = "check" /\ n.server = s /\ ~n.cancelled
    BY <1>3, DoingShape DEF PC, Op
  <1>6. PICK h \in Slot : /\ actor[h] = Idle /\ health' = [health EXCEPT ![s] = h]
                          /\ actor' = [actor EXCEPT ![a] = r, ![h] = n]
    BY DEF Publish
  <1> HIDE DEF r, n
  <1>7. Shape(h, n)
    BY <1>3, <1>5, McpAssumption DEF Shape, Building, Resting
  <1>8. /\ actor'[a] = r /\ actor'[h] = n /\ h # a /\ actor' = [b \in Actor |-> actor'[b]]
        /\ \A b \in Actor \ {a, h} : actor'[b] = actor[b]
    <2>1. h # a /\ h \in Actor
      BY <1>1, <1>6, IdleShape DEF Actor
    <2> QED BY <1>6, <2>1, OldTypes
  <1>9. /\ \A b \in Actor : Calm(b) /\ actor'[b] \in ActorRecord
        /\ actor'[a].pc \notin Building \cup {"closing"}
    BY <1>4, <1>5, <1>7, <1>8, OldTypes DEF Calm, Shape, Building
  <1>10. TasksOK(health', reconnect')
    BY <1>1, <1>3, <1>6, OldTypes, RetireOK DEF TasksOK
  <1>11. TypeOK'
    <2>1. servers' \in [Server -> Client \cup {NoClient}]
      BY <1>1, <1>3, OldTypes
    <2>2. info' \in [Server -> {"none", "running", "error", "stopped"}]
      BY <1>1, OldTypes
    <2> QED BY <1>1, <1>8, <1>9, <1>10, <2>1, <2>2 DEF MInv, TypeOK, TasksOK
  <1>12. ASSUME NEW b \in Actor PROVE Owns(b)'
    <2> SUFFICES ASSUME actor'[b].pc \in Building PROVE Owns(b)'
      BY DEF Owns
    <2>1. /\ b # a /\ actor'[b].pc = actor[b].pc /\ actor'[b].client = actor[b].client
          /\ actor'[b].server = actor[b].server /\ Owns(b) /\ actor[b].client # c
      BY <1>3, <1>9 DEF Calm, MInv
    <2>2. \A d \in Actor \ {b} : actor'[d].pc \in Building => actor'[d].client # actor[b].client
      BY <1>9, <2>1 DEF Owns, Calm
    <2>3. \A q \in Server : servers'[q] # actor[b].client
      BY <1>1, <2>1, OldTypes DEF Owns
    <2> QED BY <1>1, <2>1, <2>2, <2>3 DEF Owns
  <1>13. \A b \in Actor : Closes(b)' /\ Shape(b, actor'[b])
    <2>1. \A b \in Actor : actor[b].pc # "closing"
      BY <1>1, McpAssumption DEF MInv, Closes
    <2> QED BY <1>9, <2>1 DEF Closes, Calm
  <1>14. ASSUME NEW q \in Server PROVE Serves(q)'
    <2>1. servers'[s] = c /\ \A p \in Server \ {s} : servers'[p] = servers[p]
      BY <1>1, <1>3, OldTypes
    <2>2. CASE q = s
      BY <1>1, <1>3, <2>1, <2>2 DEF Serves
    <2>3. CASE q # s
      BY <1>1, <1>3, <2>1, <2>3 DEF MInv, Serves
    <2> QED BY <2>2, <2>3
  <1>15. HandlersLive'
    BY <1>1 DEF MInv, HandlersLive
  <1> QED BY <1>1, <1>11, <1>12, <1>13, <1>14, <1>15 DEF MInv

(***************************************************************************)
(* stop_server                                                             *)
(***************************************************************************)
LEMMA StopLockedInv == ASSUME MInv, NEW a \in Actor, StopLocked(a) PROVE MInv'
  <1> DEFINE s == actor[a].server
  <1>1. /\ UNCHANGED <<servers, client, handler, serverTools, configs, info>>
        /\ actor[a].pc = "stop_lock" /\ lock = NoTask /\ actor[a].pc \in Stopping
    BY DEF StopLocked, registry, At, Stopping
  <1>2. /\ actor[a] \in ActorRecord /\ Shape(a, actor[a]) /\ s \in Server /\ ~actor[a].cancelled
        /\ a \in Requester /\ a \notin Slot /\ actor[a].op \notin {"check", "reconnect"}
    BY <1>1, OldTypes, OwnShape DEF Shape
  <1>3. CASE servers[s] = NoClient /\ Become(a, AfterStop(a)) /\ UNCHANGED lock
    <2> DEFINE r == AfterStop(a)
    <2>1. Shape(a, r) /\ r.pc \notin Building \cup {"closing"} /\ Become(a, r)
      BY <1>1, <1>3, AfterStopShape DEF Building
    <2> HIDE DEF r
    <2> QED BY <1>1, <1>3, <2>1, EndQuietly, OldTypes
  <1>4. CASE /\ servers[s] # NoClient /\ lock' = a /\ UNCHANGED <<health, reconnect>>
             /\ actor' = [actor EXCEPT ![a].pc = "closing", ![a].client = servers[s]]
    <2> DEFINE r == [actor[a] EXCEPT !.pc = "closing", !.client = servers[s]]
    <2>1. servers[s] \in Client
      BY <1>2, <1>4, OldTypes
    <2>2. actor' = [actor EXCEPT ![a] = r]
      BY <1>4, OldTypes
    <2>3. /\ r \in ActorRecord /\ r.pc = "closing" /\ r.client = servers[s] /\ r.server = s
          /\ r.op = actor[a].op /\ r.cancelled = actor[a].cancelled
      BY <1>2, <2>1 DEF ActorRecord, PC, Stopping
    <2> HIDE DEF r
    <2>4. Shape(a, r)
      BY <1>2, <2>1, <2>3 DEF Shape
    <2>5. actor'[a] = r /\ (\A b \in Actor \ {a} : actor'[b] = actor[b]) /\ actor' \in [Actor -> ActorRecord]
      BY <2>2, <2>3, OldTypes
    <2>6. TypeOK'
      BY <1>1, <1>2, <1>4, <2>5 DEF MInv, TypeOK
    <2>7. ASSUME NEW b \in Actor PROVE Owns(b)'
      <3> SUFFICES ASSUME actor'[b].pc \in Building PROVE Owns(b)'
        BY DEF Owns
      <3>1. b # a /\ actor'[b] = actor[b] /\ Owns(b)
        BY <2>3, <2>5 DEF Building, MInv
      <3>2. \A d \in Actor \ {b} : actor'[d].pc \in Building => actor'[d].client # actor[b].client
        BY <2>3, <2>5, <3>1 DEF Owns, Building
      <3> QED BY <1>1, <3>1, <3>2 DEF Owns
    <2>8. ASSUME NEW b \in Actor PROVE Closes(b)' /\ Shape(b, actor'[b])
      <3>1. b # a => actor[b].pc # "closing"
        BY <1>1, McpAssumption DEF MInv, Closes
      <3> QED BY <1>1, <1>4, <2>3, <2>4, <2>5, <3>1 DEF Closes, MInv
    <2>9. (\A q \in Server : Serves(q)') /\ HandlersLive'
          /\ \A d \in Client : client'[d].connected => client'[d].status \in {"starting", "running"}
      BY <1>1 DEF MInv, Serves, HandlersLive
    <2> QED BY <2>6, <2>7, <2>8, <2>9 DEF MInv
  <1> QED BY <1>3, <1>4 DEF StopLocked

\* The client in the table is closed, with its tools: those of another client that is
\* tracked under this server as well are unbound too.
LEMMA ClosedInv == ASSUME MInv, NEW a \in Actor, Closed(a) PROVE MInv'
  <1> DEFINE c == actor[a].client
             s == actor[a].server
             v == Disconnected(c)
             r == AfterStop(a)
  <1>1. /\ UNCHANGED <<configs, health, reconnect>> /\ actor[a].pc = "closing" /\ actor[a].pc \in Stopping
        /\ lock' = NoTask
        /\ client' = [client EXCEPT ![c] = v]
        /\ handler' = [t \in Tool |-> IF t \in serverTools[s] THEN NoClient ELSE handler[t]]
        /\ serverTools' = [serverTools EXCEPT ![s] = {}]
        /\ info' = [info EXCEPT ![s] = "stopped"]
        /\ servers' = [servers EXCEPT ![s] = NoClient]
        /\ actor' = [WithoutCalls(c) EXCEPT ![a] = r]
    BY DEF Closed, At, Stopping, WithoutTools, InfoStopped, WithoutServer
  <1>2. /\ c \in Client /\ c # NoClient /\ s \in Server /\ lock = a /\ servers[s] = c /\ Serves(s)
        /\ client[c] \in ClientRecord
    <2>1. Shape(a, actor[a]) /\ Closes(a)
      BY DEF MInv
    <2>2. c \in Client /\ s \in Server /\ lock = a /\ servers[s] = c
      BY <1>1, <2>1 DEF Shape, Closes
    <2> QED BY <2>2, McpAssumption DEF MInv, TypeOK, ClientRecord
  <1>3. v \in ClientRecord /\ ~v.connected
    BY <1>2 DEF Disconnected, ClientRecord
  <1>4. Shape(a, r) /\ r.pc \notin Building \cup {"closing"}
    BY <1>1, AfterStopShape DEF Building
  <1> HIDE DEF v, r
  <1>5. /\ actor'[a] = r /\ \A b \in Actor \ {a} : actor'[b] \in {actor[b], Idle}
        /\ actor' = [b \in Actor |-> actor'[b]]
    BY <1>1 DEF WithoutCalls
  <1>6. ASSUME NEW b \in Actor
        PROVE  /\ Shape(b, actor'[b])
               /\ actor'[b].pc \in Building \cup {"closing"} => b # a /\ actor'[b] = actor[b]
    BY <1>4, <1>5, IdleShape, OldTypes DEF Building
  <1>7. \A b \in Actor : actor'[b] \in ActorRecord
    BY <1>6 DEF Shape
  <1>8. client'[c] = v /\ (\A d \in Client \ {c} : client'[d] = client[d]) /\ client' \in [Client -> ClientRecord]
    BY <1>1, <1>2, <1>3 DEF MInv, TypeOK, ClientRecord
  <1>9. /\ handler \in [Tool -> Client \cup {NoClient}] /\ serverTools \in [Server -> SUBSET Tool]
        /\ servers \in [Server -> Client \cup {NoClient}]
    BY DEF MInv, TypeOK
  <1>10. /\ handler' \in [Tool -> Client \cup {NoClient}] /\ serverTools' \in [Server -> SUBSET Tool]
         /\ servers' \in [Server -> Client \cup {NoClient}]
         /\ info' \in [Server -> {"none", "running", "error", "stopped"}]
    BY <1>1, <1>9, OldTypes
  <1>11. TypeOK'
    BY <1>1, <1>5, <1>7, <1>8, <1>10 DEF MInv, TypeOK, ClientRecord
  \* What stays bound is not of this server, and stays tracked.
  <1>12. ASSUME NEW t \in Tool, handler'[t] # NoClient
         PROVE  /\ handler'[t] = handler[t] /\ handler[t] # c /\ t \notin serverTools[s]
                /\ \A q \in Server : t \in serverTools[q] => t \in serverTools'[q]
    <2>1. handler'[t] = handler[t] /\ t \notin serverTools[s]
      BY <1>1, <1>12
    <2>2. handler[t] # c
      BY <1>2, <2>1 DEF Serves
    <2> QED BY <1>1, <1>9, <2>1, <2>2
  <1>13. \A q \in Server : servers'[q] # NoClient => q # s /\ servers'[q] = servers[q] /\ servers[q] # c
    BY <1>1, <1>2, <1>9 DEF Serves
  <1>14. ASSUME NEW b \in Actor PROVE Owns(b)'
    <2> SUFFICES ASSUME actor'[b].pc \in Building PROVE Owns(b)'
      BY DEF Owns
    <2>1. /\ b # a /\ actor'[b] = actor[b] /\ Owns(b) /\ Shape(b, actor[b])
          /\ actor[b].client \in Client /\ actor[b].server \in Server
      BY <1>6, OwnClient DEF MInv
    <2>2. actor[b].client # c /\ actor[b].client # NoClient /\ client'[actor[b].client] = client[actor[b].client]
      BY <1>2, <1>8, <2>1, McpAssumption DEF Owns
    <2>3. \A d \in Actor \ {b} : actor'[d].pc \in Building => actor'[d].client # actor[b].client
      BY <1>6, <2>1 DEF Owns
    <2>4. \A q \in Server : servers'[q] # actor[b].client
      BY <1>13, <2>1, <2>2 DEF Owns
    <2>5. \A t \in Tool : handler'[t] = actor[b].client =>
             handler[t] = actor[b].client /\ t \in serverTools'[actor[b].server]
      BY <1>12, <2>1, <2>2 DEF Owns
    <2> QED BY <2>1, <2>2, <2>3, <2>4, <2>5 DEF Owns
  <1>15. ASSUME NEW b \in Actor PROVE Closes(b)'
    BY <1>2, <1>6 DEF MInv, Closes
  <1>16. ASSUME NEW q \in Server PROVE Serves(q)'
    <2> SUFFICES ASSUME servers'[q] # NoClient PROVE Serves(q)'
      BY DEF Serves
    <2>1. /\ servers'[q] = servers[q] /\ servers[q] \in Client \ {c} /\ Serves(q)
          /\ client'[servers[q]] = client[servers[q]]
      BY <1>8, <1>9, <1>13 DEF MInv
    <2>2. \A p \in Server \ {q} : servers'[p] # servers[q]
      BY <1>13, <2>1 DEF Serves
    <2>3. \A t \in Tool : handler'[t] = servers[q] => t \in serverTools'[q]
      BY <1>12, <2>1, McpAssumption DEF Serves
    <2> QED BY <2>1, <2>2, <2>3 DEF Serves
  <1>17. HandlersLive'
    <2> SUFFICES ASSUME NEW t \in Tool, handler'[t] # NoClient
                 PROVE  client'[handler'[t]].status = "running" /\ \E q \in Server : t \in serverTools'[q]
      BY DEF HandlersLive
    <2>1. /\ handler'[t] = handler[t] /\ handler[t] \in Client \ {c}
          /\ \A q \in Server : t \in serverTools[q] => t \in serverTools'[q]
      BY <1>9, <1>12
    <2> QED BY <1>8, <2>1 DEF MInv, HandlersLive
  <1>18. \A d \in Client : client'[d].connected => client'[d].status \in {"starting", "running"}
    BY <1>3, <1>8 DEF MInv
  <1> QED BY <1>6, <1>11, <1>14, <1>15, <1>16, <1>17, <1>18 DEF MInv

(***************************************************************************)
(* The theorems                                                            *)
(***************************************************************************)
LEMMA MInvInit == Init => MInv
  <1> SUFFICES ASSUME Init PROVE MInv
    OBVIOUS
  <1>1. \A a \in Actor : actor[a] = Idle /\ Shape(a, actor[a]) /\ actor[a].pc = "idle"
    BY IdleShape DEF Init
  <1>2. TypeOK
    <2>1. actor \in [Actor -> ActorRecord]
      BY IdleShape DEF Init
    <2> QED BY <2>1 DEF Init, TypeOK
  <1>3. (\A a \in Actor : Owns(a) /\ Closes(a)) /\ (\A s \in Server : Serves(s)) /\ HandlersLive
    BY <1>1 DEF Init, Owns, Closes, Serves, HandlersLive, Building
  <1>4. \A c \in Client : ~client[c].connected
    BY DEF Init
  <1> QED BY <1>1, <1>2, <1>3, <1>4 DEF MInv

LEMMA MInvStep == MInv /\ [Next]_vars => MInv'
  <1> SUFFICES ASSUME MInv, [Next]_vars PROVE MInv'
    OBVIOUS
  <1>1. CASE UNCHANGED vars
    <2>1. Fades
      BY <1>1 DEF vars, MInv, TypeOK, Fades, ClientRecord
    <2>2. \A b \in Actor : Calm(b)
      BY <1>1, OldTypes DEF vars, Calm
    <2> QED BY <1>1, <2>1, <2>2, OldTypes, FadingStep DEF vars
  <1>2. ASSUME NEW a \in Actor, Proceed(a) PROVE MInv'
    BY <1>2, LookUpInv, ConnectInv, HandshakeInv, RegisterToolsInv, StartRaisesInv, RecordErrorInv, PublishInv,
       StopLockedInv, ClosedInv, RemoveLockedInv, NamesInv, VisitInv, CallEndsInv,
       CheckInv, PingEndsInv, SpawnInv, RetryInv, UnwindInv
       DEF Proceed, Start
  <1>3. ASSUME NEW a \in Actor, Ask(a) PROVE MInv'
    BY <1>3, AskInv, AskStopInv, AskAllInv, InvokeInv DEF Ask
  <1>4. ASSUME NEW c \in Client, ProcessDies(c) PROVE MInv'
    BY <1>4, ProcessDiesInv
  <1> QED BY <1>1, <1>2, <1>3, <1>4 DEF Next

\* Every variable keeps its type: only background tasks are in the tables of tasks, and
\* no reconnection is tried more often than it may.
THEOREM TypeCorrect == Spec => []TypeOK
  <1>1. MInv => TypeOK
    BY DEF MInv
  <1> QED BY <1>1, MInvInit, MInvStep, PTL DEF Spec

\* The table holds only clients that run, whatever starts, stops, health checks and
\* reconnections of any number of servers overlap.
THEOREM ServedAlwaysRun == Spec => []ServedRuns
  <1>1. MInv => ServedRuns
    BY DEF MInv, Serves, ServedRuns
  <1> QED BY <1>1, MInvInit, MInvStep, PTL DEF Spec

\* A tool is bound only to a client that runs, and can be unregistered.
THEOREM HandlersStayLive == Spec => []HandlersLive
  <1>1. MInv => HandlersLive
    BY DEF MInv
  <1> QED BY <1>1, MInvInit, MInvStep, PTL DEF Spec

\* Only the end of a start, a failed start and the end of a stop write the tables.
LEMMA TablesKept ==
  ASSUME [Next]_vars, \A a \in Actor : ~Publish(a) /\ ~Closed(a) /\ ~RecordError(a)
  PROVE  UNCHANGED <<servers, info>>
  <1>1. ASSUME NEW a \in Actor, Start(a) PROVE UNCHANGED <<servers, info>>
    BY <1>1 DEF Start, LookUp, Connect, Handshake, RegisterTools, StartRaises, tables
  <1>2. ASSUME NEW a \in Actor, Proceed(a) PROVE UNCHANGED <<servers, info>>
    BY <1>1, <1>2 DEF Proceed, StopLocked, RemoveLocked, Names, Visit, CallEnds, Check, PingEnds, Spawn, Retry, Unwind,
                      tables
  <1>3. ASSUME NEW a \in Actor, Ask(a) PROVE UNCHANGED <<servers, info>>
    BY <1>3 DEF Ask, AskStart, AskAdd, AskRemove, AskStop, AskAll, Invoke, tables
  <1>4. ASSUME NEW c \in Client, ProcessDies(c) PROVE UNCHANGED <<servers, info>>
    BY <1>4 DEF ProcessDies, tables
  <1> QED BY <1>2, <1>3, <1>4 DEF Next, vars

\* What is reported as running can be stopped: an overlapping start or stop leaves no
\* report behind.
THEOREM ReportsTrue == Spec => []ReportedIsServed
  <1> DEFINE RInv == MInv /\ ReportedIsServed
  <1>1. Init => RInv
    BY MInvInit DEF Init, ReportedIsServed
  <1>2. RInv /\ [Next]_vars => RInv'
    <2> SUFFICES ASSUME MInv, ReportedIsServed, [Next]_vars PROVE ReportedIsServed'
      BY MInvStep
    <2>1. CASE \A a \in Actor : ~Publish(a) /\ ~Closed(a) /\ ~RecordError(a)
      BY <2>1, TablesKept DEF ReportedIsServed
    <2>2. ASSUME NEW a \in Actor, Publish(a) PROVE ReportedIsServed'
      <3>1. actor[a].client \in Client /\ actor[a].client # NoClient
        BY <2>2, OwnClient, McpAssumption DEF Publish, At, Building
      <3>2. /\ servers' = [servers EXCEPT ![actor[a].server] = actor[a].client]
            /\ info' = [info EXCEPT ![actor[a].server] = "running"]
        BY <2>2 DEF Publish
      <3> QED BY <3>1, <3>2, OldTypes DEF ReportedIsServed
    <2>3. ASSUME NEW a \in Actor, Closed(a) PROVE ReportedIsServed'
      BY <2>3, OldTypes DEF Closed, InfoStopped, WithoutServer, ReportedIsServed
    <2>4. ASSUME NEW a \in Actor, RecordError(a) PROVE ReportedIsServed'
      BY <2>4, OldTypes DEF RecordError, ReportedIsServed
    <2> QED BY <2>1, <2>2, <2>3, <2>4
  <1>3. RInv => ReportedIsServed
    OBVIOUS
  <1> QED BY <1>1, <1>2, <1>3, PTL DEF Spec

\* A server leaves the table with its process ended, unless another start that
\* overlapped takes its place.
THEOREM ProcessEndsWithServer == Spec => StopEndsProcess
  <1> DEFINE Ends == \A s \in Server : servers[s] # NoClient /\ servers'[s] # servers[s] =>
                       \/ ~client'[servers[s]].alive
                       \/ \E a \in Actor : At(a, "publish") /\ servers'[s] = actor[a].client
  <1>1. MInv /\ [Next]_vars => [Ends]_vars
    <2> SUFFICES ASSUME MInv, [Next]_vars, NEW s \in Server, servers[s] # NoClient, servers'[s] # servers[s]
                 PROVE  \/ ~client'[servers[s]].alive
                        \/ \E a \in Actor : At(a, "publish") /\ servers'[s] = actor[a].client
      OBVIOUS
    <2>1. ASSUME NEW a \in Actor, Publish(a) PROVE At(a, "publish") /\ servers'[s] = actor[a].client
      BY <2>1, OldTypes DEF Publish
    <2>2. ASSUME NEW a \in Actor, Closed(a) PROVE ~client'[servers[s]].alive
      <3> DEFINE c == actor[a].client
      <3>1. Closes(a) /\ actor[a].pc = "closing" /\ client' = [client EXCEPT ![c] = Disconnected(c)]
            /\ servers' = [servers EXCEPT ![actor[a].server] = NoClient]
        BY <2>2 DEF MInv, Closed, At, WithoutServer
      <3>2. s = actor[a].server /\ servers[s] = c /\ c \in Client /\ client \in [Client -> ClientRecord]
        BY <3>1, OldTypes DEF Closes, MInv, TypeOK, ClientRecord, Shape
      <3>3. client[c].alive => client[c].connected
        BY <3>2 DEF MInv, Serves
      <3>4. ~Disconnected(c).alive
        BY <3>3 DEF Disconnected
      <3> QED BY <3>1, <3>2, <3>4
    <2>3. ASSUME NEW a \in Actor, RecordError(a) PROVE FALSE
      BY <2>3 DEF RecordError
    <2> QED BY <2>1, <2>2, <2>3, TablesKept
  <1>2. StopEndsProcess <=> [][Ends]_vars
    BY DEF StopEndsProcess
  <1> QED BY <1>1, <1>2, MInvInit, MInvStep, PTL DEF Spec

\* A client that is connected is stopped by stop_server only, which has found it in the
\* table.
LEMMA StoppedByClosing ==
  ASSUME MInv, [Next]_vars, NEW c \in Client, client[c].connected, client'[c].status = "stopped"
  PROVE  \E a \in Actor : Closed(a) /\ actor[a].client = c
  <1>1. client[c].status \in {"starting", "running"} /\ client \in [Client -> ClientRecord]
    BY DEF MInv, TypeOK, ClientRecord
  <1>2. client'[c].status # client[c].status
    BY <1>1
  <1>3. ASSUME NEW a \in Actor, LookUp(a) PROVE FALSE
    <2> DEFINE s == actor[a].server
    <2>1. s \in Server /\ (servers[s] = NoClient \/ Served(s)) /\ NoClient \notin Client
      BY <1>3, OldTypes, McpAssumption DEF LookUp, At, Shape, Starting, MInv, Serves, Served
    <2>2. UNCHANGED client \/ ~Served(s)
      BY <1>3 DEF LookUp
    <2>3. ASSUME ~UNCHANGED client, NEW d \in Client, NEW spawned \in BOOLEAN,
                 client' = [e \in Client |->
                   IF e = d
                   THEN [status |-> IF spawned THEN "starting" ELSE "error", alive |-> spawned,
                         connected |-> FALSE]
                   ELSE IF e = servers[s] THEN Disconnected(e) ELSE client[e]]
          PROVE  FALSE
      <3>1. c # servers[s]
        BY <2>1, <2>2, <2>3
      <3>2. CASE c = d
        <4>1. client'[c].status = IF spawned THEN "starting" ELSE "error"
          BY <2>3, <3>2
        <4> QED BY <4>1
      <3>3. CASE c # d
        <4>1. client'[c] = client[c]
          BY <2>3, <3>1, <3>3
        <4> QED BY <1>2, <4>1
      <3> QED BY <3>2, <3>3
    <2> QED BY <1>2, <1>3, <2>3 DEF LookUp
  <1>4. ASSUME NEW a \in Actor, Connect(a) \/ Handshake(a) PROVE FALSE
    BY <1>1, <1>2, <1>4 DEF Connect, Handshake, ClientRecord
  <1>5. ASSUME NEW a \in Actor, StartRaises(a) PROVE FALSE
    BY <1>1, <1>2, <1>5 DEF StartRaises, Disconnected, ClientRecord
  <1>6. ASSUME NEW a \in Actor, Closed(a) PROVE actor[a].client = c
    BY <1>2, <1>6 DEF Closed
  <1>7. ASSUME NEW a \in Actor, PingEnds(a) PROVE FALSE
    BY <1>1, <1>2, <1>7 DEF PingEnds, ClientRecord
  <1>8. ASSUME NEW d \in Client, ProcessDies(d) PROVE FALSE
    BY <1>1, <1>2, <1>8 DEF ProcessDies, ClientRecord
  <1>9. ASSUME NEW a \in Actor, Start(a) PROVE FALSE
    BY <1>2, <1>3, <1>4, <1>5, <1>9 DEF Start, RegisterTools, RecordError, Publish
  <1>10. ASSUME NEW a \in Actor, Proceed(a) PROVE Closed(a)
    BY <1>2, <1>7, <1>9, <1>10 DEF Proceed, StopLocked, RemoveLocked, Names, Visit, CallEnds, Check, Spawn, Retry, Unwind
  <1>11. ASSUME NEW a \in Actor, Ask(a) PROVE FALSE
    BY <1>2, <1>11 DEF Ask, AskStart, AskAdd, AskRemove, AskStop, AskAll, Invoke
  <1> QED BY <1>2, <1>6, <1>8, <1>10, <1>11 DEF Next, vars

\* Whoever stops a client ends the calls that wait for its answer.
THEOREM CallsEndWithClient == Spec => StopEndsCalls
  <1> DEFINE Ends == \A c \in Client, a \in Actor :
                       client[c].connected /\ client'[c].status = "stopped" =>
                         ~(actor'[a].pc = "call" /\ actor'[a].client = c)
  <1>1. MInv /\ [Next]_vars => [Ends]_vars
    <2> SUFFICES ASSUME MInv, [Next]_vars, NEW c \in Client, NEW b \in Actor,
                        client[c].connected, client'[c].status = "stopped"
                 PROVE  ~(actor'[b].pc = "call" /\ actor'[b].client = c)
      OBVIOUS
    <2>1. PICK a \in Actor : Closed(a) /\ actor[a].client = c
      BY StoppedByClosing
    <2>2. actor' = [WithoutCalls(c) EXCEPT ![a] = AfterStop(a)] /\ actor[a].pc \in Stopping
      BY <2>1 DEF Closed, At, Stopping
    <2>3. AfterStop(a).pc # "call"
      BY <2>2, AfterStopShape
    <2>4. actor[b].pc = "call" => At(b, "call")
      BY OwnShape DEF At
    <2> QED BY <2>2, <2>3, <2>4, IdleShape DEF WithoutCalls
  <1>2. StopEndsCalls <=> [][Ends]_vars
    BY DEF StopEndsCalls
  <1> QED BY <1>1, <1>2, MInvInit, MInvStep, PTL DEF Spec
=============================================================================
