# Verification of NexusMind's backend

NexusMind is a multi-agent platform: a FastAPI backend
(`src/nexusmind/backend/app`, below `app`) on one asyncio event loop, with
PostgreSQL, Redis, ChromaDB and Docker behind it, and a TypeScript front end.
This directory holds TLA+ models of the backend's stateful parts, the TLC
configurations that check them, and the proofs TLAPS checks.

Everything runs in one process and one thread, so that data races do not
occur; what does is that a coroutine reads state, awaits, and writes. The
models therefore have one common shape: **an action is what a coroutine does
between two awaits that can suspend it**, and an actor is a record that says
where it is suspended and what it carries over the await.

## Inventory

| component (under `app`) | state it keeps | operations | what is hard, and what makes it correct | module |
|---|---|---|---|---|
| Production executor: `orchestration/executor.py`, with `db/execution.py` and the endpoints `api/v1/executions.py`, `api/v1/sessions.py` | `Execution`, `ExecutionStep`, `Session` rows; `_running_tasks` | execute, cancel, pause, resume, retry, recover, stop and delete a session; the background run with its step retries | requests race with a background task over one row, in transactions that roll back; faults and restarts. COMPLETED follows every step; checkpoints are durable only with their steps; one task at a time unless retries overlap; requests are answered | `Executor`, `Pipeline` |
| Supervisor: `orchestration/supervisor.py`, `agents/registry.py` | executions, their tasks, cancellation tokens; agents with capacity and load | submit, add, dispatch, wait, cancel, clean up; register, unregister | two callers scan one dictionary, suspended inside a dispatch. Dependencies first, one dispatch for each task, load accounted, cancellation ends waiting | `Supervisor` |
| MCP manager: `mcp/`, `api/v1/mcp.py` | tables of clients, infos, health and reconnection tasks; the tool registry; child processes | start, stop, add, remove, restart, start_all, stop_all, shutdown, invoke, health check, reconnect | the lock is released while a process starts; tasks are cancelled; processes die. Tables, tools and processes stay in step; dead servers are replaced | `McpServers` |
| Provider connections: `llm/byok/service.py`, `db/provider.py`, `api/v1/providers.py` | `UserProviderConnection` rows | create, update, enable, disable, verify, set default, delete | check, then insert; read, await the network, write. Limits and defaults are bounded, nicknames distinct, nothing is written back | `ByokConnections` |
| Agents: `agents/reasoning_loop.py`, `execution_engine.py`, `autonomous.py` | one `ReasoningLoop` and one tool selector for all agents; budgets, histories, traces | run a loop, select and invoke tools, finish | loops overlap on the shared selector. Budgets hold, traces account for what was done, each loop asks its own service | `AgentLoops` |
| Workflows: `agents/advanced_workflow.py`, `agents/workflow.py` | the graph state; a semaphore; active workflows | run, run with recovery, run tasks in parallel; graphs of agents | a semaphore held while dependencies are awaited; the whole graph run again. Dependencies first, no failure hidden while attempts are left, no deadlock where the order of the tasks allows it | `Workflows`, `ParallelTasks`, `AgentGraphs` |
| Improvement loop: `agents/improvement/` | the loop in memory, its documents in Chroma | run, store, delete | a failure in any phase. The status explains why it ended; what is stored is what was made | `Improvements` |
| Project generator: `orchestration/project_generator.py`, `api.py` | `_generations`; directories named after projects | generate, stream, list, delete | generations share a directory; a disk that is full. A listed project is there with all its own files name | `Projects` |
| BYOK router and adapters: `llm/byok/executor.py`, `adapters.py`, `implementations.py` | adapters that hold a key | chat, stream, with a fallback to the system provider | failure in the middle of a stream, connections that change. One answer, keys released, the router (not the agents) stops at a refused key | `ByokChats`, `Adapters` |
| Model routing: `llm/routing/` | latencies and counts of models | route, record | what is measured decides on what is chosen. Limits of context and cost are kept but by the fallback, which is taken when no model keeps them | `ModelRouting` |
| Tools: `tools/registry.py`, `registration.py`, `mcp_integration.py`, `mcp/registry.py` | four dictionaries of tools | register, sync, list, invoke | one of them is filled once, another changes with its servers. A name is called where it is now | `ToolTables` |
| Browser tool: `tools/browser/` | the driver, the sessions with their browsers and pages | launch, open, close, stop | requests overlap, half of them under a lock. What is closed is closed | `Browsers` |
| Web search: `tools/web_search/service.py` | cache, bucket of tokens | search | waiting with the lock held. Nothing is cached that was not found, everyone is served | `WebSearches` |
| Sandbox: `sandbox/docker.py`, `api/v1/sandbox.py`, `tools/docker_sandbox_tool.py` | pool, containers, directories | allocate, execute, pause, resume, release | Docker calls that fail half way, a restart. Within a process, what an allocation answered is listed while it is there | `Sandboxes` |
| Streaming: `streaming/ws_manager.py`, `api/ws.py` | connections of each session | connect, send, broadcast, disconnect | sends overlap with ends of handlers. The two tables agree, messages keep their order, closed sockets are forgotten | `Streams` |
| Webhooks: `api/v1/webhooks.py`, `db/webhook.py` | rows with counters, deliveries | create, update, rotate, test, deliver, delete | a delivery writes from a copy it loaded before it called the receiver. The user's changes win | `Webhooks` |
| Plugins: `plugins/system/manager.py` | status and instance of each plugin | register, load, unload, reload, enable, disable, uninstall | hooks are awaited; the registered plugin may be replaced meanwhile. An enabled plugin is initialized; none is removed from under one that was registered on it | `Plugins` |
| Start-up: `security/deployment_gate.py`, `init.py`, `main.py` | environment, schema, collections | gate, initialize, serve | many configurations, services that do not answer, a second start. What serves has its secrets, services and collections (not its migrations) | `Startup` |
| Limits: `security/middleware.py`, `utils/security.py`, `security/csrf.py` | logs of requests, tokens with an expiry | admit; generate, validate | the edge of the window. No minute has more than the limit | `RateLimits` |
| Access: `auth/`, `dependencies.py`, `security/rbac.py` | users, keys, roles, overrides | register, create and use a key, grant, revoke, assign | rows that may be there twice. A permission that was revoked is gone | `Access` |
| Memory: `memory/chromadb.py`, `api/v1/memory.py` | collections | store, list, clear | an id that is there is ignored, and ids are put together from strings; filters with two keys are refused. Nothing else is lost | `Memories` |
| Providers of models, GitHub client, monitoring, audit, validation, encryption, agent templates, front end | little or none | calls of services, checks of strings, templates | — | not modelled |

How they interact: an HTTP request runs in a database session of its own, which
commits when the request ends (`db/database.py`). `execute` and `retry` start a
background task that outlives the request; it calls the agents, these call a
provider (`llm/`) and tools (`tools/`, `mcp/`), and events go out over
`streaming/`. The MCP manager is started and shut down by `main.py` and operated
by its endpoints. The supervisor has no caller in the repository: its callers in the
model are any that use its public methods. Its registry is filled by the executor's
module when it is loaded, and read by the supervisor only.

`PROJECT.json` lists under "hazards" the places where the code is hard to test,
with the properties aimed at each.

### What the code does that its reader may not expect

Met while modelling; the models have it as it is. Four that a line of the
repository contradicts are violation runs (`pipeline`, `cancel`, `reconnect`,
`production`), listed under "findings" in `PROJECT.json`. Other lines are
contradicted too, without a run of their own: the docstring of `resume`
(executor.py:921-923, "This will restart from the last checkpoint"), the timeout
in the docstring of `wait_for_completion`, the limit of the rate in
`docs/api-web-search.md` (the bucket lets twice its size pass at once), and the
"Run: alembic upgrade head" of `backend/DEPLOYMENT.md`, line 69, for what start-up does.

- Executor: a resumed task returns at once, and no request takes the execution
  out of RESUMING (`executor.py:974`); a step that failed does not keep an
  execution from COMPLETED; a cancellation behind the last agent is followed by
  COMPLETED; two retries that race both start a task; the branch of
  `recover_unfinished` that starts one (`executor.py:1137`) is dead.
- Supervisor: the timeout of `wait_for_completion` is never looked at.
- MCP: removing a running server blocks the manager (`manager.py:163`); a start
  that fails or is cancelled after the client runs leaves its process behind
  (`manager.py:210`).
- Provider connections: the verdict of a verification is written beside a key
  that replaced the verified one meanwhile (`service.py:530`).
- Adapters: the user's provider is never asked for a stream if it is OpenAI or
  Ollama, whose `stream` returns a list, which the router cannot iterate over;
  Ollama without a base URL cannot be asked at all; Google's adapter drops
  messages of the system, and Anthropic's sends the last of them only. The router
  stops at a key that is refused or cannot be decrypted; the agents go on with the
  system's provider whatever happened (`autonomous.py:108`, `232`).
- Sandbox: a container whose `containers.run` raised after it was started, and all
  that an earlier process made, are never found again, nor their directories;
  release answers that the sandbox is released whatever happened;
  `timed_out` is never true (the killed command answers 137); file operations
  pass shell syntax to `exec` without a shell; the tool of the agents takes a
  `Sandbox` for a pair, so that it counts no session. What agents reach as
  `sandbox` is a stand-in (`tools/sandbox.py`) that runs nothing.
- Plugins: `disable` and `unload` ask nobody who depends on the plugin, so that an
  enabled one may stand on one that is not; `reload` checks no dependency.
- Start-up: the migrations never run. `init.py:407` looks for `backend/alembic.ini`,
  but the file is `backend/alembic/alembic.ini`; `startup.sh:202` looks in the same
  place, and only warns. A start with `RUN_MIGRATIONS=true` goes on and serves a
  database that may have no tables. A URL that cannot be parsed is an error at once
  for PostgreSQL and Redis, and an error of every turn of the wait for ChromaDB. The
  older validator raises outside production, for a severity that does not exist
  (`startup_validator.py:406`). The secret that is generated is not used, since the
  settings are cached before.
- Memory: `get_conversation` shows the first messages, not the last; a plan with an
  id that is there is ignored, and ids are strings put together with `_`, so that a
  request that names no session of the database can take the id of one's plan
  (`chromadb.py:238`); `/memory/search` shows entries of every session.
- Graphs of agents: the context never has a plan, so the later agents get no
  step; two constructors are called with a `session_id` that they do not take.
- Projects: "django" and "mongo" contain "go" and "javascript" contains "java",
  so prompts with these words become projects of Go or Java; the streaming
  endpoint fails after the files are written; a JavaScript project fails unless
  its directory exists; no application includes the router.
- Browser: `stop` with an open session waits for its own lock; a browser whose
  context could not be made is never closed; of two openings that overlap one
  page stays open beside the other.
- Tools: MCP tools are put into the table of tools once, at start; those that go
  stay listed. `ToolRegistry.execute` reports success when an MCP tool failed.
- Access: a permission that was granted twice cannot be revoked.

## Plan

1. `Executor`, the core: rows, tasks, requests, faults. Abstract specification
   `Pipeline` (steps are recorded in order, completion comes last), which
   `Executor` implements. *Done; proved.*
2. `Supervisor`, `McpServers`, `ByokConnections`. *Done.*
3. What agents do: `ParallelTasks`, `Workflows`, `AgentLoops`, `AgentGraphs`,
   `Improvements`, `ByokChats` over `Adapters`, `ModelRouting`, `Projects`,
   `Browsers`, `ToolTables`, composed in `MCAgents`. *Done.*
4. What requests of the API share: `Sandboxes`, `Streams`, `Webhooks`,
   `Plugins`, `Startup`, `RateLimits`, `WebSearches`, `Access`, `Memories`,
   composed in `MCServices`. *Done.*
5. Proofs, for any size. *Done: every safety property of every passing run, and
   the refinement of `Pipeline`.* What could follow: the deadlock of a batch
   that is out of order as a theorem (which tasks wait for which, for any number of
   slots), and an abstract specification of the server manager that
   `McpServers` implements up to its lost processes.

## The production executor

`app/orchestration/executor.py` runs an execution — a list of agents, each one
step — in an asyncio task of its own, and answers the requests that cancel,
pause, resume, retry or recover it. What both work on is one row of the
database. `ProductionExecutor` keeps `_running_tasks`, a map from execution id
to the task handle; everything else is in the row.

### How the model corresponds to the code

| model | code |
|---|---|
| `row[e]` | the committed `Execution` row: `state`, `is_cancelled`, `retry_count`, `checkpoint_data["step_index"]` (`ckpt`), `error_details["type"]` (`err`) |
| `steps[e]` | the committed `ExecutionStep` rows, as `<<step_order, outcome>>` |
| `sess` | `Session.status`; all executions of an instance are in one session |
| `lock[e]` | the background task whose transaction holds a flushed, uncommitted UPDATE of the row (a row lock in PostgreSQL) |
| `task[t]` | an asyncio task running `_run_execution`: where it is suspended, the loop index, the attempt, the outcome of the agent, whether `task.cancel()` was called, whether `execute` gave it a done-callback |
| `entry[e]` | `_running_tasks[e]`: a task, a task that is over (`Stale`), or nothing |
| `req[c]` | a request in flight, with its copy of the columns it decides on |

An action is what happens between two `await`s that can suspend: the guard is
that the task is suspended there (`At`), and a cancellation that was asked for
is delivered before anything else (`Unwind`). A commit that has been sent may
still be applied when the task is cancelled (`Sent`). The steps of a run are
`Begin`, `Start`, then for each agent `Refresh` (look at `is_cancelled`),
`BeginStep` (checkpoint, step row, state of the agent: flushed, so the row is
locked), `AgentSucceeds` / `AgentFails` (with the retry loop), `CommitStep` or
`CommitStepFailure`, and at the end `Finish`, `CommitCompleted`. An exception
goes through `Raise` (rollback), `LoadError`, `CommitError`; a cancellation
through `Unwind` and `HandleCancellationById`, which persists nothing, because
it passes no session to `_handle_cancellation`.

A request is `Load` (SELECT and the checks), `CancelTask` where it has one,
`CommitRequest` (which waits for the row lock and writes its columns over
whatever the row has become) and `Spawn` where it starts a task.

The states of the six agents are one state `working`; the outcome of an agent
is its error class; progress columns, logs, messages and broadcasts are left
out. `AgentStateIsEnum` is the one constant that tells the code from its
intention: `_run_execution` hands the *string* of `AGENT_TO_STATE` to
`_transition_state`, which reads `new_state.value`, so in the code as it is
(`FALSE`) every execution fails at its first agent: run `pipeline` shows it.
All other runs set it to `TRUE`, since nothing behind that line could be looked
at otherwise; the theorems hold for both values.

### What the runs show

| run | instance | question |
|---|---|---|
| `races` | 1 execution, 2 agents, 2 tasks, 2 clients (execute, cancel, retry, delete / stop, pause, resume) | do the rows stay sound in every interleaving of the requests with up to two tasks? |
| `crash` | 2 clients (execute, retry, recover, delete / retry), 2 tasks, database faults, 1 crash | and when two overlapping retries start two tasks for one execution, any database call may raise, and the process dies? |
| `live` | 2 clients, `FairSpec` | is every request answered, and does a committed cancellation end the run, never COMPLETED if it came before the end of the last agent? |
| `cancel` | the instance of `live` | refuted: a cancelled execution is not COMPLETED |
| `pipeline` | the code's string argument | refuted: the pipeline is triggered |

`OneRunner` — one task at a time may write the row — is checked in `races`,
where one client retries. With two that retry it fails: both load the FAILED
row, both pass `can_retry`, and each starts a task. `crash` is the run with two
such clients, so it does not ask for `OneRunner` but for what still holds with
two tasks at work (`SoundAfterCrash`): steps are recorded in order and never
taken back, checkpoints name only recorded steps, COMPLETED follows all steps
and at least one success, FAILED carries an error, the row lock keeps the steps
of the two tasks apart (`OneStepAtATime`), and a running row has a checkpoint
(`RunningHasCheckpoint`). The last one means that `recover_unfinished` never
starts a run: STARTING is flushed and committed only with the first step, so the
branch for rows without a checkpoint (executor.py:1137-1158) is never taken, the
other one starts `_run_execution_resume`, which does nothing, and a run that
died before its first commit stays QUEUED, a state recovery does not look for.
Cancellations beside two tasks would make this instance three times as large: they
are left to `races`, and to the theorem `SoundAfterAnyCrash`, which has every request.
That overlapping retries are the only source of a second task is the theorem
`OneAtATime`.

`CancellationSettles` says that a committed cancellation ends the work, and that
the execution is never COMPLETED if all its tasks were before the end of the
last agent. A task behind that point no longer looks at `is_cancelled`, and
`task.cancel()` does not reach it if the callback of an older task popped its
entry: run `cancel` shows the execution COMPLETED with `is_cancelled` set, which
the docstring of the endpoint (executions.py:320) rules out.

The docstring of `resume` (executor.py:921-923, "This will restart from the last
checkpoint") is contradicted as well: what it starts has an empty body, so a
resumed execution stays RESUMING until something else writes its row. The model
has it that way (`Spawn`), and no property pretends otherwise.

**Bounds.** Two agents are enough for "first, next, last" (the loop treats all
positions alike); one retry distinguishes "may retry", "last attempt" and "none
left"; two tasks are a task and the one that replaces it, or the two that two
retries start. One crash: a second one finds only what the first one left, rows
and nothing in memory. One execution: rows of
different executions share only the session status and `delete_session`, which
the theorems cover for any number.

**Fairness.** `FairSpec` asks weak fairness of every background task and of
every accepted request: the event loop runs what is ready, an agent returns or
raises (`tool_timeout` and the provider's own timeouts bound it), and the
database answers. No client is obliged to ask for anything. Deadlock is not
checked: an instance in which every execution is over and no client asks for
anything may stop.


## The supervisor

`Supervisor` models `orchestration/supervisor.py` with `agents/registry.py`.

| model | code |
|---|---|
| `active[x]`, `token[x]`, `ctxStatus[x]` | `_active_executions`, `_cancellation_tokens`, `ExecutionContext.status` |
| `order[x]`, `status[t]` | `ExecutionContext.tasks` (a dictionary, in insertion order) and `AgentTask.status` |
| `completed`, `failed` | `completed_tasks`, `failed_tasks` |
| `registered[a]`, `load[a]` | the registry and `AgentMetadata.current_load` |
| `actor[p]` | a caller: in the loop of `wait_for_completion`, or suspended in `dispatch_task` (broadcast of the start, the agent, the last broadcast), with its position in the scan of `dispatch_next_ready` |

`Dispatch` is `dispatch_task` up to its first suspension, `Scan` goes on with the
next ready task, `Loop` is one turn of `wait_for_completion`, `EndDispatch` and
`Interrupt` are the two ways out, the latter being a `CancelledError` delivered
to the caller. The registry's lock is never contended, because nothing is awaited
under it. Who scans is a waiter or a client that calls `dispatch_next_ready` itself
(`Client`). `dispatch_task` has no other caller than this scan: a direct call for a
task that runs would run it twice, because the function does not look at the status.

| run | instance | question |
|---|---|---|
| `dispatch` | 2 executions (2 tasks, one depending on the other; 1 task), one agent of capacity 1, 1 waiter, 1 client that calls `dispatch_next_ready`, 2 changes of the registration, interruptions, `FairSpec` | do dependencies, capacity, single dispatch and cancellation hold in every interleaving, and does waiting end when it is cancelled, and when nothing goes wrong? |

`LoadAccounted` is exact as long as no agent is registered anew, which resets
the load to 0 while dispatches are under way; from then on the load never counts
more than there is. `WaitersLeave` assumes that no task fails or meets a full
agent, or that the execution is cancelled: otherwise it is false, because such a
task stays `waiting` and the timeout of `wait_for_completion` is never looked at.

**Bounds.** Capacity 1 with two executions makes tasks compete for the agent;
two tasks of which one depends on the other give the scan a ready and an
unready task in either order of insertion; a waiter and a client give two scans of
one dictionary. `MaxChanges` bounds re-registrations.
**Fairness.** Weak fairness of each caller's next step (`Proceed`): the event
loop resumes what is ready and an agent returns or raises. Cancellation,
interruption and registration are never obliged to happen.

## The MCP server manager

`McpServers` models `mcp/manager.py` with its clients (`mcp/client.py`), the
stdio transport (`mcp/transports/stdio.py`), the tool registry
(`mcp/registry.py`) and the endpoints of `api/v1/mcp.py`.

| model | code |
|---|---|
| `configs`, `servers`, `info`, `health`, `reconnect`, `lock` | `_configs`, `_servers`, `_server_info[...].status`, `_health_check_tasks`, `_reconnect_tasks`, `_lock` |
| `client[c]` | an `MCPClient`: `_status`; whether its child process runs; `StdioTransport._connected` |
| `handler`, `serverTools` | `MCPRegistry._handlers` (which client a tool's closure is bound to) and `_server_tools` |
| `actor[a]` | a request (`Requester`), or a background task (`Slot`): a health check or a reconnection, with its attempt, and whether it was cancelled |

`start_server` is `LookUp` (with the lock, then the process is started),
`Connect`, `Handshake`, `RegisterTools` and `Publish`; `StartRaises` and
`RecordError` are its exception handler. `stop_server` is `CancelTasks`,
`StopLocked`, `Closed`. `remove_server` of a running server calls `stop_server`
with the lock in its hands: the actor is `stuck`, and nobody gets the lock any
more. `Unwind` is the cancellation of a background task, which leaves behind the
process it was starting. A client nothing refers to any more stands for a new
one (`Fresh`); one whose process was lost is not used again.

| run | instance | question |
|---|---|---|
| `servers` | 1 server, 1 tool, 2 clients, 2 requesters (start, add, restart, remove, invoke / stop, start_all, shutdown), 2 background tasks, 2 attempts | do tables, tools, processes and callers stay in step while starts, stops, health checks and reconnections overlap and processes die? |
| `reconnect` | one requester that starts and stops, `FairSpec` | refuted: a server whose process died is replaced |

**Bounds.** Two clients allow for two overlapping starts, the case in which a
process is lost; two background tasks for a health check and the reconnection
it starts. A second server shares with the first the lock and the names of
tools; an instance with both is too large to be exhausted here, and covered by the proofs.
**Fairness** (run `reconnect` only): strong fairness of each actor's next step,
because `asyncio.Lock` is first come, first served, so that who waits for it
gets it. The counterexample needs none of it to be strong.

## Provider connections

`ByokConnections` models the requests of `llm/byok/service.py`. Each runs in one
transaction (READ COMMITTED) that reads, decides, and is flushed and committed
at its end; `row` is what is committed, `req[q]` what a request has read and
will write. `Dirty` is the ORM's rule: an UPDATE writes the columns whose value
differs from the one that was loaded; `Fails` are the two ways it fails, a row
that is gone and the unique index. Of the columns that nothing here decides on
the key stands for all.

| run | instance | question |
|---|---|---|
| `connections` | 1 provider, 4 connections, limit 2, 1 nickname, 2 keys, 2 clients | how far may racing requests exceed the limit and the one default, and are nicknames and keys safe from stale copies? |

`LimitOvershoot` and `DefaultsBounded` bound what the code does not prevent: the
limit is exceeded by less than the number of requests that race, and there are
no more defaults of a provider than clients. `NicknamesDistinct` rests on the
unique index, not on the check. **Bounds**: four connections are one more than
the two clients can create under a limit of two; a third client adds one to both
bounds and no new case. No liveness is claimed: requests have no loops.

## What agents do

`MCAgents` has ten parts that share no variable. A behaviour of run `agents`
begins with one of them (`part`) and stays with it, so each part is explored in
full and the run is the sum of ten small ones, not their product. Each property
of the run speaks of several parts; the definitions it is made of are in the
modules.

| module | state and code | actions |
|---|---|---|
| `ParallelTasks` | the semaphore, the order of those that wait for it, `completed`, `results` of `ParallelTaskExecutor` | `PtExecute` creates the tasks of a batch; `PtAcquire`, `PtCall` (which polls until the dependencies are over), `PtEnd`; `PtStop` cancels the call of `execute`, `PtCancelled` ends a task by a `CancelledError`, which completes nothing |
| `Workflows` | the node that runs, the phases the parallel node still waits for, failed phases, attempts | `WfRun`, `WfEnter`, `WfPhaseEnds`, `WfFlightEnds`, `WfFinish` (which may start the whole graph again), `WfRaises` |
| `AgentLoops` | the service in the shared selector; of each loop whether it has a service of its own, its iteration, the tools of the step, results, history, trace | `AlStart`, `AlSelect`, `AlInvoke`, `AlReason`, `AlFails` |
| `AgentGraphs` | the next node, what is in the context, the traces | the nodes in the order of their edges; `AgRaises` |
| `Improvements` | a loop's solution, critique, iterations, status; the documents in Chroma | critique, improvement, failure of either, save, delete |
| `ByokChats`, `Adapters` | a user's enabled connections, which change; each call, its open adapter, whom it asked, what its reader got. `Adapters` tells the ten adapters apart | `BcLookup`, `BcLookupFails` (no connection, two defaults, a key that cannot be decrypted, no adapter), `BcOwnAnswers`, `BcOwnFails`, `BcSystemChunk`, `BcSystemEnds`; `BcSetDefault`, `BcRemove` |
| `ModelRouting` | `enable_fallback`, measured latencies, counts, the last result | `MrRoute`, `MrRecord`; scores in integers, costs and estimated latencies by the tokens of the request |
| `Projects` | directories, files, `_generations` | `PgGenerate`, `PgStream`, `PgDelete`: each is one step, because the endpoints pass no callback to await; the stack, the plan and the files are operators |
| `Browsers` | driver, sessions, browsers, contexts, pages, lock, and where each request is suspended | `BrLaunch`, `BrOpenPage`, `BrClose`, `BrStop` and their steps; `BrRaises` |
| `ToolTables` | the table of tools, the MCP registry's two tables, a call | `TtUp`, `TtDown`, `TtSync`, `TtInvoke`, `TtEnds` |

| property of run `agents` | what it says |
|---|---|
| `LoopsSound` | a loop invokes no more tools than its budget; its trace accounts for its results; one that says DONE had no failed step before; unless it was overtaken, a loop that has a service asks its own |
| `WorkSound` | no task is called before what it depends on; a workflow that answers with a failed phase has no attempt left; a loop's status explains its end and what is stored is what was made; a listed project has the files that its own files name; a graph has the trace of every agent that ran; a browser session that is closed is closed and one that is listed runs; a tool is called where it is now |
| `ChatsSound` | adapters are closed, a reader gets one answer, the router (an agent does) asks nobody behind a key that is refused or cannot be decrypted; alternatives keep the limits of context and cost, and so does the selected model unless it is the fallback |
| `AgentsEnd` | batches whose tasks come after their dependencies end, unless a task is cancelled alone under another that waits for it, workflows and loops end, and calls of the browser tool end unless it was stopped with a session open |

**Bounds.** Four tasks in two batches, with every choice of dependencies from
sets that contain forward, backward and cross-batch ones, and two slots: the
smallest instance in which as many tasks as there are slots may wait for one
that is behind them (`AgentsEnd` asks for an end only of batches that are in
order; the others may deadlock, and `PtSortedEnds` says which). Every set of
phases, of which two are parallel, with one retry. Two loops of two iterations:
one is overtaken by the other. Two providers that differ most (Google drops,
Ollama lists and needs a URL). Three models, of which each is best at something.
Two generations of one name. Two requests of the browser tool, one session, two
pages, two drivers: a page that is opened while its session is closed, a launch
while the tool is stopped, a second driver. Two servers that offer a name
together and names that the program has itself.
**Fairness.** Weak fairness of the steps of tasks, of a workflow that runs, and
of the loops: they await tools and models, which answer or time out. Strong
fairness of each request of the browser tool, because `asyncio.Lock` serves
those that wait in their order.

## What the requests of the API share

`MCServices` composes nine parts in the same way.

| module | state and code | actions |
|---|---|---|
| `Sandboxes` | the pool, the status of each sandbox, the validators, directories, containers | allocation with its fallback, which may raise behind a container that runs; execution, pause, resume, release; a restart of the process (`SbRestart`), which loses the pool; what the Docker daemon does with each call is chosen freely |
| `Streams` | sockets, `_connections`, `_connection_sessions`, the sends under way, what each socket got | connect (with its authentication), send, drain, disconnect |
| `Webhooks` | the row, the copy each delivery has of it, delivery rows | trigger, test, end of the call; update, rotate, disable, delete |
| `Plugins` | `_plugins`, the `PluginInfo` of each with its version, the operations suspended at hooks | register, load, unload, enable, disable, reload, uninstall |
| `Startup` | the configuration, where the lifespan is, what was asked how often, what was made | gate, secrets, waits for services (`InSkips`: a URL that is of no use), migrations that are always skipped (`InMigrates`), collections, restart |
| `RateLimits` | the log of requests, CSRF tokens, a clock | admit, generate, validate, tick |
| `WebSearches` | cache, bucket, the lock and its queue, searches, a clock | search, token, attempts with backoff, tick |
| `Access` | accounts, roles, overrides, keys, a clock | register (look, then insert), assign, grant, revoke, ask, create and use keys |
| `Memories` | the collections, and what was ever stored; ids of plans as strings | store, by agents and by requests, clear, delete; what requests are shown are operators |

| property of run `services` | what it says |
|---|---|
| `TablesSound` | within a process, a container whose allocation was answered is in the pool while it is there; the two tables of sockets agree, messages reach those that are open, in their order; a delivery never brings back what the user changed, and its counts fall short only if deliveries overlapped; an enabled plugin is initialized and not shut down again, and none is removed from under one that was registered on it (whether what it depends on is still enabled is not said: nothing asks) |
| `ClocksSound` | what serves has its secrets, its database, the services it waited for and its collections, though not its migrations; a service is asked until its timeout and no longer; in production the gate is as strict as the validator it replaced, but for two named values; no window has more than its limit; a bucket passes at most twice its size at once; what is cached was found |
| `RecordsSound` | one account for each email; after a revocation the permission is gone; keys expire; no entry of the memory is lost but a plan stored under an id that was there, and ids of two sessions of the database never meet; a session is not shown the plan or the messages of another (`/memory/search`, which shows everybody's, is not among it) |
| `ServicesEnd` | closed sockets are forgotten, the start ends, searches are served |

Run `production` uses the same instance with the one property `InProductionStarts`.

**Bounds.** Two of everything that can overlap: sandboxes, sockets of a session,
messages, deliveries, plugins (one needs the other in its second version, and that is registered twice),
operations. For the memory two sessions and a string that is none, with plan ids
that make one id in two ways (`a` + `b_c`, `a_b` + `c`). All configurations that differ in one value from a complete one, in
development and in production: the checks are independent of each other. Limits
of 1 or 2 with a clock that reaches one tick past the window. Three searches, of
which two ask for the same. Rows that may be there twice.
**Fairness.** Weak fairness of what the event loop can go on with in streams,
start-up and searches; time passes in the last two.

## Proofs

TLAPS checks the following for every value of the constants that meets the
assumptions: any number of executions, tasks, agents, connections and servers, any
limits, with or without faults, crashes, interruptions and re-registrations. Every
safety property that a passing run checks is the conclusion of one of these
theorems (`OneRunner` under a hypothesis, see below).

| module | theorem | from |
|---|---|---|
| `Executor_proofs` | `TypeCorrect`: `[]TypeOK` | `TInv` |
| `ExecutorSafety_proofs` | `CompletedRuns`, `CompletedSucceeds`, `CheckpointsSound`, `FailuresExplained`, `LocksHaveWriters`, `SoundAfterAnyCrash` | `TInv /\ SInv` |
| | `Implements`: `Spec => ImplementsPipeline` | `Safe` |
| | `Checkpointed`: `[]CInv`; `RunningCheckpointed`, `StepsApart`: the two conjuncts of `SoundAfterCrash` that are not of the above | `Safe` and `CInv` |
| `ExecutorMutex_proofs` | `OneAtATime`: `[]OneRunner`, in behaviours with `[]RetriesApart` | `Safe`, `CInv` and `MInv` |
| `Supervisor_proofs` | `TypeCorrect`, `DependenciesComeFirst`, `DispatchedOnce`, `OutcomesExclusive`, `NoStartAfterCancel` | `SInv` |
| | `VerdictTrue`: `CompletedMeansAll` | `SInv /\ VInv` |
| | `LoadExact`: `[]LoadAccounted` | `SInv /\ LInv` |
| `ByokConnections_proofs` | `TypeCorrect`, `NicknamesStayDistinct`, `NothingBroughtBack` | `TInv` |
| | `LimitHolds`: `[]LimitOvershoot` | `TInv` and `LInv` |
| | `DefaultsStayBounded`: `[]DefaultsBounded` | `TInv` and `DInv` |
| `McpServers_proofs` | `TypeCorrect`, `ServedAlwaysRun`, `HandlersStayLive`, `ProcessEndsWithServer`, `CallsEndWithClient` | `MInv` |
| | `ReportsTrue`: `[]ReportedIsServed` | `MInv` and itself |
| `Agents_proofs` | `TasksAreInOrder`, `WorkflowsAreAnswered`, `LoopsAreSound`, `ImprovementsAreExplained`, `ChatsAreSound`, `RoutesAreSound`, `ProjectsAreSound`, `GraphsAreTraced`, `BrowsersAreSound`, `ToolsAreReached`: each part on its own | `PtInv`, `WfInv`, `AlInv`, `ImInv`, `BcInv`, `MrInv`, `PgInv`, `AgInv`, `BrInv`, `TtInv` |
| | `AgentsTyped`, `LoopsStaySound`, `WorkStaysSound`, `ChatsStaySound`: `[]TypeOK`, `[]LoopsSound`, `[]WorkSound`, `[]ChatsSound` of the composition | `AgentsInv`, their conjunction |
| `Services_proofs` | `SandboxesAreKept`, `StreamsAreSound`, `WebhooksAreSound`, `PluginsAreSound`, `StartsAreSound`, `LimitsAreSound`, `SearchesAreSound`, `AccessIsSound`, `MemoriesAreSound`: each part on its own | `SbInv`, `StInv`, `WhInv`, `PlInv`, `InInv`, `RlInv`, `WsInv`, `AcInv`, `MeInv` |
| | `ServicesTyped`, `TablesStaySound`, `ClocksStaySound`, `RecordsStaySound`: `[]TypeOK`, `[]TablesSound`, `[]ClocksSound`, `[]RecordsSound` of the composition | `ServicesInv`, their conjunction |

The assumptions on the constants: `ParametersAssumption` (in `Executor`).
`OneAtATime` has a hypothesis besides, on the behaviour and not on the constants:
`RetriesApart`, no two retries of one execution are under way at the same time. The
code does not ensure it, and without it `OneRunner` is false: two retries that have
both read a FAILED row each start a task. The theorem says that nothing else does:
any client may retry, recover, resume, cancel and delete, and the process may die.
`SupervisorAssumption`: each task has one execution and one
agent, dependencies are of one execution, capacities are positive, and there are
finitely many callers, which is what counting dispatches needs.
`ByokAssumption`: a limit that is a number, and finitely many clients.
`McpAssumption`: requests and background tasks are not the same, and the values
that stand for "none" are none of the others. Those of the parts of `MCAgents` and
`MCServices` are of three kinds. Settings are numbers, positive where the
code's defaults and validators make them so. Values that stand for "none" or for
places of the program are not names of users, services or phases. Inputs are what
they are in the code: the tasks of a batch are consecutive numbers, in the order of
its list (`PtAssumption`), batches have no task in common, messages are numbered
(`StAssumption`), an application has an email to register with (`AcAssumption`),
ids of sessions are UUIDs, which have no `_` (`MeAssumption`; requests may name any string),
versions of plugins are numbers (`PlAssumption`),
estimates, costs and limits of models are whole numbers (`MrAssumption`). Sets of
users, sockets, plugins, executions, phases of a graph that run in parallel and so
on are any sets, finite where something is counted.

*The executor.* `TypeOK` is not inductive: that the loop index stays below the
number of agents depends on where the task is suspended, and that `retry_count`
stays below its limit on what a retry request has checked. `TInv` adds both.
None of the safety properties is inductive either. The completion of a run is
written by a task that trusts its loop index, and a second task (after a retry
or a recovery) may work on the same row. `SInv` adds what each control point
knows: the row lock is held only at certain points and by one task
(`Locking`); a task has committed a step for every index below its own, and if
its output is there one of them succeeded (`TaskSound`); completed and failed
rows keep what they claim (`RowSound`); a request that goes on works on a row
that was created (`RequestSound`). Since committed steps are never taken back, except with
their session, knowledge about them stays true when another task interferes, and
that is why the lock, and not the absence of a second task, is enough. `CInv`
says that a row that runs or is paused has a checkpoint, and that a pause, a
resumption or a recovery which was let through on such a row still finds one; so
recovery starts nothing. `MInv`
then says that a request on its way to start a task has been alone since the row
was found FAILED. The refinement maps committed steps and completed rows; every
action is one `Pipeline` step or a stutter.

*The supervisor.* A caller dispatches a task when it finds it pending or waiting,
and comes back to it after two suspensions. `SInv` says why nobody else takes it
in between: a task that is under way has a status from which nothing is
dispatched until its own caller is done with it, and its dependencies, which
never leave `completed`, were complete when it began. All the ways a caller goes
on are one lemma, a *turn*: it leaves a task, refuses some, starts at most one.
`VInv` says of each task how it came to its status, so that the verdict of an
execution is true of its tasks. `LInv` counts: the load of an agent is the number
of dispatches under way, until it is registered anew.

*The connections.* A request that loaded a row writes it later, from a copy.
`TInv` says which columns each kind of request may write, so that what one
request changes is in nobody else's update, unless the clients ask for the same
column. The limit is exceeded because the check comes before the insert:
connections and creations under way are together fewer than the limit and the
clients (`LInv`; that ids are new is what makes the count go up by one).
Defaults are taken down before one is put up, each by a request that saw what was
there: `DInv` maps each default to the client that put it up, one to one.

*The MCP servers.* The lock is not held while a process is started, its tools are
listed and registered; what protects a start is that nobody else knows its client.
`MInv` says so: a client that is being started belongs to one actor, is in no
table, has no tool bound to it before the tools are listed, and its tools are
tracked under its server (`Owns`). An actor that closes a client holds the lock,
and the table still has the client (`Closes`). A client in the table runs, is
connected while its process lives, is there once, and what is bound to it is
tracked (`Serves`): so unregistering the tools of a server unbinds all of its
client, and perhaps some of another's, but leaves none bound to a client that was
stopped. Steps that start and close nothing are one lemma (`QuietInv`), and so are
those of an actor about its own client (`OwnStep`). The run has one server; that
servers with tools of the same name do not disturb each other is known from the
proof alone.

*What agents do.* Each invariant was checked by TLC on the instance of run
`agents` before it was proved (`BrInv` on a larger one as well).
`PtInv` adds that no task is in the queue of the semaphore twice, nor there and in
a slot, which a cancellation needs that takes it out; `MrInv` is the property itself. For `RoutesAreSound` the
work is in `route`: it sorts, which the model says with the number of models that
are ahead of one. Scores that are equal are told apart by the order of
configuration, so the order is total and no two models have the same rank: a model
that nobody is ahead of exists, it is the selected one, and no more than three come
next, however many there are.
`WfInv` adds where the graph is: the phases behind the node have results, those
of the parallel node that are over are counted, and there are no others; so an
answer comes of every phase that was included. `AlInv` adds that the calls so far,
with what is left of the tools of this step, fit into (iteration × tools), which
is why a loop never needs to look at its budget, and that the trace of an
iteration is complete when the next begins. `ImInv` ties each entry of the log to
its iteration: the i-th one determines the critique and the solution that the next
begins with. `BcInv` says for each place of a call whom it has asked and what its
reader has got: a call that falls back to the system gave its own adapter back
first. `PgInv` says that an entry of `_generations` was made
of the stack it names, and that its files are in its directory unless another
generation of that name took them; that the files of any stack contain what they
import is a lemma by cases over languages, frameworks and databases. `AgInv` says
why no agent gets a step: no plan that the planner leaves has one. `BrInv` is the
largest: where a request waits says whether it holds the lock, whether its session
is still listed and which browser, context or page it has in hands, and any two
references to a page, of the table or of a request, are of one session. A session is
closed by the request that took it out of the list, and nobody else reaches what
is left of it. `TtInv` says that a name is served by a server only while that is up
and offers it, whatever the order in which two servers offered it.

*What requests share.* `SbInv` is the property itself, with its types: an
allocation that raises and a restart put into `sbLost` what they leave behind. `StInv`
knows for each call which sockets it has yet to write to. Two calls that write to
one socket do so in the order in which they began, because a call that began
later, over the same open sockets, stays behind the earlier one: the list it goes
through begins with the other's, and it is no further in it (`StStaysBehind`).
`WhInv` says of the copy a delivery that is out will write that its counts were
reached before, and are those of the row while no two deliveries overlapped. `PlInv`
adds that nobody that is there was registered on what is leaving. `InInv` says what is behind each place of the sequence, that
polls × interval is the time that was waited, and that in production the gate's checks imply
the validator's, for every configuration, not only those of the run. `RlInv` says
that the log has every request of the last minute that was let through: then no
window that begins anywhere has more than the limit. `WsInv` bounds what is taken
from the bucket between any two ticks by what was in it, what flowed in, and what
is in it now; twice the bucket and the ticks between is what remains. `AcInv`
knows which registration an account belongs to, and which rows are gone for good.
`MeInv` says that nothing is lost; that a session is shown its own follows. Behind both is that `s_p` tells its session `s` when
`s` has no `_`: the first `_` ends it (`MeIdsOfSessions`). So an id that two plans
share is of one session and one plan id, or one of the two names no session.

*The two compositions.* One part moves and the others rest, so `AgentsInv` and
`ServicesInv` are conjunctions of what the parts keep on their own; the theorems of
a part hold without the composition and its instance.

*How the models were made fit to be reasoned about.* Some definitions are written in a
form with the same steps but with simpler proof obligations: the limiter's log
has the indices of requests rather than a filtered copy of them; collections of
the memory are sets of the numbers of their entries, whose order is that of the numbers;
the end of a wait that timed out is an action (`InGivesUp`); the trace of a loop
grows by `AlAddStep` alone. In the last case the reason is the prover: it expands
`@` inside the value of another `EXCEPT` with the wrong function, and would prove
what is not true. No model has this form.

*Out of the prover's reach, and left to TLC*: liveness (`CancellationSettles`,
`RequestsAreAnswered`, `WaitersLeave`, `AgentsEnd`, `ServicesEnd`), with its
fairness and ENABLED. The four refuted properties are TLC's as well.

## What is not modelled

- `llm/service.py`, `llm/providers.py`, `integrations/github/`: each method is one
  HTTP request; the models have its outcomes as choices.
- `agents/implementations.py`: agents that fill in templates in one step; no graph
  and no executor calls `execute` of them. `tools/sandbox.py` answers every call
  alike.
- `security/audit.py`, `validation.py`, `encryption.py`, `monitoring/`, `utils/`:
  functions on strings, counters, logs; nothing decides on them.
- `api/v1/schemas.py` and the schemas beside each component, routers, the front
  end, deployment files.
- `streaming/sse.py` and the event streams of executions, which poll the database.

Within the modules: wording, logs, broadcasts, metrics and progress columns;
real time (a timeout or a delay is a step that may happen at any moment, but for
the clocks of `RateLimits`, `WebSearches`, `Access` and `Startup`); and the HTTP
transport where it differs from stdio (its health check never fails). Where the
database decides, its rules are part of the model: row locks from flush to
commit, the unique index, an UPDATE that meets no row. `PROJECT.json` says for
each component what of it is left out.
