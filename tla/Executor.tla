------------------------------ MODULE Executor ------------------------------
(***************************************************************************)
(* The production executor: background runs of an agent pipeline, and the  *)
(* requests (cancel, pause, resume, retry, recover, stop, delete) that     *)
(* race with them over one database row per execution.                     *)
(*                                                                         *)
(* Every await of a handler ends a step here: another coroutine, or the    *)
(* database, may act before the handler goes on with the copy of the row   *)
(* it loaded.  A row changes only when a transaction commits; an UPDATE    *)
(* that was flushed and not committed holds the row lock, and every other  *)
(* UPDATE of the row waits for it.  The executions belong to one session.  *)
(***************************************************************************)
EXTENDS Integers, FiniteSets

CONSTANTS
  Execution,          \* executions a client may create, all in one session
  Task,               \* handles for asyncio tasks; bounds the tasks alive at once
  Caller,             \* requests that can be in flight at once
  MaySend,            \* the operations each caller may ask for
  Steps,              \* number of agents in run_agents
  MaxRetries,         \* Execution.max_retries, of a step and of an execution
  AgentStateIsEnum,   \* does the state of an agent reach _transition_state as
                      \* the ExecutionState its signature asks for?  FALSE in
                      \* the code: AGENT_TO_STATE holds strings
  Faults,             \* may a database call of a background task raise?
  MaxCrashes,         \* bound: crashes of the process
  NoTask,             \* no entry in _running_tasks
  Stale,              \* an entry in _running_tasks whose task has finished
  NoExec              \* the execution of an idle caller or of a free handle

Op == {"execute", "cancel", "stop", "pause", "resume", "retry", "recover", "delete"}

ASSUME ParametersAssumption ==
  /\ Steps \in Nat \ {0}
  /\ MaxRetries \in Nat
  /\ MaxCrashes \in Nat
  /\ AgentStateIsEnum \in BOOLEAN
  /\ Faults \in BOOLEAN
  /\ \A c \in Caller : MaySend[c] \subseteq Op
  /\ NoExec \notin Execution
  /\ NoTask \notin Task
  /\ Stale \notin Task \cup {NoTask}

VARIABLES
  row,        \* the committed Execution rows
  steps,      \* the committed ExecutionStep rows: <<step_order, outcome>>
  sess,       \* Session.status
  lock,       \* the task whose transaction has a flushed UPDATE of the row
  task,       \* the asyncio tasks
  entry,      \* ProductionExecutor._running_tasks
  req,        \* the requests in flight
  crashes     \* crashes so far

vars == <<row, steps, sess, lock, task, entry, req, crashes>>

(***************************************************************************)
(* Rows.  The states of the six agents are one state, "working".           *)
(***************************************************************************)
State == {"absent", "queued", "starting", "working", "completed", "failed",
          "cancelled", "paused", "resuming", "deleted"}

Terminal == {"completed", "failed", "cancelled"}          \* is_terminal
Running  == {"starting", "working", "resuming"}           \* is_running
Present  == State \ {"absent", "deleted"}

StepIndex == 0 .. Steps - 1

\* What _classify_error makes of an exception: a type that is retried, one
\* that can_retry refuses, or "unknown", which is neither.
ErrorClass == {"transient", "permanent", "unknown"}

\* ckpt is checkpoint_data["step_index"], whose completed_agents are the agents
\* before that step; -1 is no checkpoint.  err is error_details["type"].
Row == [state: State, cancelled: BOOLEAN, retries: 0 .. MaxRetries,
        ckpt: -1 .. Steps - 1, err: {"none", "step_failed"} \cup ErrorClass]

NewRow(state) == [state |-> state, cancelled |-> FALSE, retries |-> 0,
                  ckpt |-> -1, err |-> "none"]

\* Mutants of can_retry: the retry limit off by one; no look at the state.
CanRetryOnceMore(r) == r.state = "failed" /\ r.retries <= MaxRetries /\ r.err \notin {"none", "permanent"}
CanRetryAnyState(r) == r.retries < MaxRetries /\ r.err # "permanent"

CanRetry(r) ==
  /\ r.state = "failed"
  /\ r.retries < MaxRetries
  /\ r.err \notin {"none", "permanent"}

(***************************************************************************)
(* Tasks.  seen is the state in the task's copy of the row, kept where it  *)
(* decides what is written; result is the outcome of the agent, or the     *)
(* class of the exception being handled; output tells whether the result   *)
(* in workflow_state is one (a dict) and not None.                         *)
(* The control points, in the order of _run_execution:                     *)
(*   load, starting, top, ready, agent, commit, finish, finishing          *)
(*   cancelling: in _handle_cancellation;  failing: the step failed        *)
(*   error, erroring: in _handle_error;  unwind: in the CancelledError arm *)
(*   done: over, its done-callback not yet called;  free: no task          *)
(***************************************************************************)
InTry == {"load", "starting", "top", "ready", "agent", "commit", "finish",
          "finishing", "cancelling", "failing"}
PC == InTry \cup {"error", "erroring", "unwind", "done", "free"}

TaskRecord == [exec: Execution \cup {NoExec}, pc: PC, idx: 0 .. Steps,
               attempt: 0 .. MaxRetries, result: {"none", "completed"} \cup ErrorClass,
               output: BOOLEAN, seen: State, cancelReq: BOOLEAN, callback: BOOLEAN]

NewTask(e, pc, callback) ==
  [exec |-> e, pc |-> pc, idx |-> 0, attempt |-> 0, result |-> "none",
   output |-> FALSE, seen |-> "absent", cancelReq |-> FALSE, callback |-> callback]

FreeTask == NewTask(NoExec, "free", FALSE)

\* Requests.  retries and ckpt are the request's copy of these columns.
Request == [op: Op, exec: Execution \cup {NoExec}, retries: 0 .. MaxRetries,
            ckpt: -1 .. Steps - 1, pc: {"idle", "loaded", "commit", "spawn", "session"}]

Idle == [op |-> "execute", exec |-> NoExec, retries |-> 0, ckpt |-> -1, pc |-> "idle"]

Init ==
  /\ row = [e \in Execution |-> NewRow("absent")]
  /\ steps = [e \in Execution |-> {}]
  /\ sess = "created"
  /\ lock = [e \in Execution |-> NoTask]
  /\ task = [t \in Task |-> FreeTask]
  /\ entry = [e \in Execution |-> NoTask]
  /\ req = [c \in Caller |-> Idle]
  /\ crashes = 0

(***************************************************************************)
(* Helpers                                                                 *)
(***************************************************************************)
Exec(t) == task[t].exec

\* Task t is at pc and the event loop may run it: an asked-for cancellation
\* is delivered at the await the task is suspended in, before anything else.
At(t, pc) == task[t].pc = pc /\ ~task[t].cancelReq

\* The database applies a commit that was sent, cancellation or not.
Sent(t, pc) == task[t].pc = pc

Gone(e) == row[e].state = "deleted"

CanLock(t) == lock[Exec(t)] \in {NoTask, t}
Unlock(t)  == lock' = [e \in Execution |-> IF lock[e] = t THEN NoTask ELSE lock[e]]

GoTo(t, pc) == task' = [task EXCEPT ![t].pc = pc]

\* The coroutine of t returns: a done-callback is due, or the handle just
\* stays behind in _running_tasks.
Return(t) ==
  /\ task' = [task EXCEPT ![t] = IF @.callback THEN NewTask(@.exec, "done", TRUE)
                                               ELSE FreeTask]
  /\ entry' = [e \in Execution |->
                 IF entry[e] = t /\ ~task[t].callback THEN Stale ELSE entry[e]]

\* Mutant: the except arm does not roll back.
RaiseWithoutRollback(t, cls) ==
  /\ task' = [task EXCEPT ![t] = [NewTask(@.exec, "error", @.callback) EXCEPT !.result = cls]]
  /\ UNCHANGED lock

\* The except arm: rollback, then _handle_error with an exception of class cls.
Raise(t, cls) ==
  /\ task' = [task EXCEPT ![t] = [NewTask(@.exec, "error", @.callback) EXCEPT !.result = cls]]
  /\ Unlock(t)

(***************************************************************************)
(* The background task: _run_execution                                     *)
(***************************************************************************)

\* Load the execution and its session; return if they are gone.
Begin(t) ==
  /\ At(t, "load")
  /\ IF Gone(Exec(t))
     THEN Return(t)
     ELSE /\ GoTo(t, "starting")
          /\ UNCHANGED entry
  /\ UNCHANGED <<row, steps, sess, lock, req, crashes>>

\* Mark as starting and flush the user message: the UPDATE waits for the row
\* lock and keeps it.  No state is checked: a cancelled row is started too.
Start(t) ==
  /\ At(t, "starting")
  /\ IF Gone(Exec(t))
     THEN Raise(t, "unknown")
     ELSE /\ CanLock(t)
          /\ lock' = [lock EXCEPT ![Exec(t)] = t]
          /\ GoTo(t, "top")
  /\ UNCHANGED <<row, steps, sess, entry, req, crashes>>

\* Mutant: is_cancelled is not looked at again.
RefreshDeaf(t) ==
  /\ At(t, "top")
  /\ IF Gone(Exec(t))
     THEN Raise(t, "unknown")
     ELSE GoTo(t, "ready") /\ UNCHANGED lock
  /\ UNCHANGED <<row, steps, sess, entry, req, crashes>>

\* Top of the loop over the agents: refresh, and look at is_cancelled.
Refresh(t) ==
  /\ At(t, "top")
  /\ IF Gone(Exec(t))
     THEN Raise(t, "unknown")
     ELSE /\ IF row[Exec(t)].cancelled
             THEN task' = [task EXCEPT ![t].pc = "cancelling",
                    ![t].seen = IF lock[Exec(t)] = t THEN "starting" ELSE row[Exec(t)].state]
             ELSE GoTo(t, "ready")
          /\ UNCHANGED lock
  /\ UNCHANGED <<row, steps, sess, entry, req, crashes>>

\* Mutant: the checkpoint is committed before the agent has run.
BeginStepCommitsCheckpoint(t) ==
  /\ At(t, "ready") /\ ~Gone(Exec(t)) /\ CanLock(t)
  /\ row' = [row EXCEPT ![Exec(t)].ckpt = task[t].idx]
  /\ task' = [task EXCEPT ![t].pc = "agent", ![t].attempt = 0]
  /\ UNCHANGED <<steps, sess, lock, entry, req, crashes>>

\* Save the checkpoint, add the step, transition to the state of the agent.
\* The flushes take the row lock; nothing is committed before the agent ran.
BeginStep(t) ==
  /\ At(t, "ready")
  /\ \/ /\ Gone(Exec(t))
        /\ Raise(t, "unknown")
     \/ /\ ~Gone(Exec(t))
        /\ CanLock(t)
        /\ ~AgentStateIsEnum          \* 'str' object has no attribute 'value'
        /\ Raise(t, "unknown")
     \/ /\ ~Gone(Exec(t))
        /\ CanLock(t)
        /\ AgentStateIsEnum
        /\ lock' = [lock EXCEPT ![Exec(t)] = t]
        /\ task' = [task EXCEPT ![t].pc = "agent", ![t].attempt = 0]
  /\ UNCHANGED <<row, steps, sess, entry, req, crashes>>

\* execute_with_tools returned a trace.  The reasoning loop turns an exception
\* into a trace with no final_result: a success too, that leaves None behind.
AgentSucceeds(t) ==
  /\ At(t, "agent")
  /\ \E output \in BOOLEAN :
       task' = [task EXCEPT ![t].pc = "commit", ![t].result = "completed",
                            ![t].output = output]
  /\ UNCHANGED <<row, steps, sess, lock, entry, req, crashes>>

\* It raised: back off and try again, or give up.  Only an error that is not
\* retryable fails the execution; one that ran out of attempts does not.
AgentFails(t, cls) ==
  /\ At(t, "agent")
  /\ IF cls = "transient" /\ task[t].attempt < MaxRetries
     THEN task' = [task EXCEPT ![t].attempt = @ + 1]
     ELSE task' = [task EXCEPT ![t].result = cls,
                               ![t].pc = IF cls = "transient" THEN "commit" ELSE "failing"]
  /\ UNCHANGED <<row, steps, sess, lock, entry, req, crashes>>

\* Mutants: the loop ends one agent early; the step is recorded under the
\* index of the next one.
CommitStepEndsEarly(t) ==
  /\ Sent(t, "commit")
  /\ row' = [row EXCEPT ![Exec(t)].state = "working", ![Exec(t)].ckpt = task[t].idx]
  /\ steps' = [steps EXCEPT ![Exec(t)] = @ \cup {<<task[t].idx, task[t].result>>}]
  /\ Unlock(t)
  /\ task' = [task EXCEPT ![t].pc = IF task[t].idx + 2 >= Steps THEN "finish" ELSE "top",
                          ![t].idx = @ + 1, ![t].attempt = 0, ![t].result = "none"]
  /\ UNCHANGED <<sess, entry, req, crashes>>

CommitStepRecordsNext(t) ==
  /\ Sent(t, "commit")
  /\ row' = [row EXCEPT ![Exec(t)].state = "working", ![Exec(t)].ckpt = task[t].idx]
  /\ steps' = [steps EXCEPT ![Exec(t)] = @ \cup {<<task[t].idx + 1, task[t].result>>}]
  /\ Unlock(t)
  /\ task' = [task EXCEPT ![t].pc = IF task[t].idx + 1 = Steps THEN "finish" ELSE "top",
                          ![t].idx = @ + 1, ![t].attempt = 0, ![t].result = "none"]
  /\ UNCHANGED <<sess, entry, req, crashes>>

\* The commit at the end of a step makes its checkpoint, its step row and the
\* state of its agent durable, and releases the row.
CommitStep(t) ==
  /\ Sent(t, "commit")
  /\ row' = [row EXCEPT ![Exec(t)].state = "working", ![Exec(t)].ckpt = task[t].idx]
  /\ steps' = [steps EXCEPT ![Exec(t)] = @ \cup {<<task[t].idx, task[t].result>>}]
  /\ Unlock(t)
  /\ task' = [task EXCEPT ![t].pc = IF task[t].idx + 1 = Steps THEN "finish" ELSE "top",
                          ![t].idx = @ + 1, ![t].attempt = 0, ![t].result = "none"]
  /\ UNCHANGED <<sess, entry, req, crashes>>

\* Mutant: the failed step leaves error_details unset.
CommitStepFailureUnexplained(t) ==
  /\ Sent(t, "failing")
  /\ row' = [row EXCEPT ![Exec(t)].state = "failed", ![Exec(t)].ckpt = task[t].idx]
  /\ steps' = [steps EXCEPT ![Exec(t)] = @ \cup {<<task[t].idx, task[t].result>>}]
  /\ Unlock(t)
  /\ Return(t)
  /\ UNCHANGED <<sess, req, crashes>>

\* A permanent failure of a step: FAILED; the session is left as it is.
CommitStepFailure(t) ==
  /\ Sent(t, "failing")
  /\ row' = [row EXCEPT ![Exec(t)].state = "failed", ![Exec(t)].ckpt = task[t].idx,
                        ![Exec(t)].err = "step_failed"]
  /\ steps' = [steps EXCEPT ![Exec(t)] = @ \cup {<<task[t].idx, task[t].result>>}]
  /\ Unlock(t)
  /\ Return(t)
  /\ UNCHANGED <<sess, req, crashes>>

\* Mutant: a missing result is taken for an empty one.
FinishWithoutOutput(t) ==
  /\ At(t, "finish") /\ ~Gone(Exec(t)) /\ CanLock(t)
  /\ lock' = [lock EXCEPT ![Exec(t)] = t]
  /\ GoTo(t, "finishing")
  /\ UNCHANGED <<row, steps, sess, entry, req, crashes>>

\* After the last agent: COMPLETED, without another look at is_cancelled, but
\* workflow_state["result"].get raises if no agent left a result.
Finish(t) ==
  /\ At(t, "finish")
  /\ IF ~task[t].output \/ Gone(Exec(t))
     THEN Raise(t, "unknown")
     ELSE /\ CanLock(t)
          /\ lock' = [lock EXCEPT ![Exec(t)] = t]
          /\ GoTo(t, "finishing")
  /\ UNCHANGED <<row, steps, sess, entry, req, crashes>>

CommitCompleted(t) ==
  /\ Sent(t, "finishing")
  /\ row' = [row EXCEPT ![Exec(t)].state = "completed"]
  /\ sess' = "completed"
  /\ Unlock(t)
  /\ Return(t)
  /\ UNCHANGED <<steps, req, crashes>>

\* _handle_cancellation from the loop.  The UPDATE names the columns that
\* differ from the task's copy: state is left out if it was read "cancelled".
CommitCancelled(t) ==
  /\ Sent(t, "cancelling")
  /\ IF Gone(Exec(t))
     THEN /\ At(t, "cancelling")
          /\ Raise(t, "unknown")
          /\ UNCHANGED <<row, sess, entry>>
     ELSE /\ CanLock(t)
          /\ row' = [row EXCEPT ![Exec(t)].cancelled = TRUE,
                                ![Exec(t)].state = IF task[t].seen = "cancelled" THEN @
                                                   ELSE "cancelled"]
          /\ sess' = "cancelled"
          /\ Unlock(t)
          /\ Return(t)
  /\ UNCHANGED <<steps, req, crashes>>

\* A database call raises an exception of class cls: the broad except arm, or,
\* in _handle_error itself, the end of the task with nothing persisted.
DatabaseFault(t, cls) ==
  /\ Faults
  /\ ~task[t].cancelReq
  /\ \/ task[t].pc \in InTry /\ Raise(t, cls) /\ UNCHANGED entry
     \/ task[t].pc \in {"error", "erroring"} /\ Return(t) /\ UNCHANGED lock
  /\ UNCHANGED <<row, steps, sess, req, crashes>>

\* _handle_error loads the row again in a session of its own ...
LoadError(t) ==
  /\ At(t, "error")
  /\ IF Gone(Exec(t))
     THEN Return(t)
     ELSE /\ task' = [task EXCEPT ![t].pc = "erroring", ![t].seen = row[Exec(t)].state]
          /\ UNCHANGED entry
  /\ UNCHANGED <<row, steps, sess, lock, req, crashes>>

\* ... and commits FAILED over whatever was committed in between.
CommitError(t) ==
  /\ Sent(t, "erroring")
  /\ IF Gone(Exec(t))
     THEN UNCHANGED <<row, sess>>
     ELSE /\ lock[Exec(t)] = NoTask
          /\ row' = [row EXCEPT ![Exec(t)].err = task[t].result,
                                ![Exec(t)].state = IF task[t].seen = "failed" THEN @ ELSE "failed"]
          /\ sess' = "error"
  /\ Return(t)
  /\ UNCHANGED <<steps, lock, req, crashes>>

\* Mutant: the CancelledError arm does not roll back.
UnwindWithoutRollback(t) ==
  /\ task[t].cancelReq
  /\ \/ /\ task[t].pc \in InTry
        /\ task' = [task EXCEPT ![t] = NewTask(@.exec, "unwind", @.callback)]
        /\ UNCHANGED entry
     \/ /\ task[t].pc \in {"error", "erroring", "unwind"}
        /\ Return(t)
  /\ UNCHANGED <<row, steps, sess, lock, req, crashes>>

\* CancelledError reaches the await the task is suspended in.  In the try
\* block: rollback, then _handle_cancellation_by_id; in a handler: the end.
Unwind(t) ==
  /\ task[t].cancelReq
  /\ \/ /\ task[t].pc \in InTry
        /\ task' = [task EXCEPT ![t] = NewTask(@.exec, "unwind", @.callback)]
        /\ Unlock(t)
        /\ UNCHANGED entry
     \/ /\ task[t].pc \in {"error", "erroring", "unwind"}
        /\ Return(t)
        /\ UNCHANGED lock
  /\ UNCHANGED <<row, steps, sess, req, crashes>>

\* _handle_cancellation_by_id passes no session, so _handle_cancellation fails
\* on session.status before it commits: nothing of it is ever persisted.
HandleCancellationById(t) ==
  /\ At(t, "unwind")
  /\ Return(t)
  /\ UNCHANGED <<row, steps, sess, lock, req, crashes>>

\* The done-callback of execute pops the entry, whichever task it now holds.
DoneCallback(t) ==
  /\ task[t].pc = "done"
  /\ entry' = [entry EXCEPT ![Exec(t)] = NoTask]
  /\ task' = [task EXCEPT ![t] = FreeTask]
  /\ UNCHANGED <<row, steps, sess, lock, req, crashes>>

(***************************************************************************)
(* Requests                                                                *)
(***************************************************************************)
AskFor(c, op, e, pc) ==
  req' = [req EXCEPT ![c] = [op |-> op, exec |-> e, pc |-> pc,
                             ckpt |-> IF op = "recover" THEN row[e].ckpt ELSE -1,
                             retries |-> IF op = "retry" THEN row[e].retries ELSE 0]]
Proceed(c, pc) == req' = [req EXCEPT ![c].pc = pc]
Answer(c)      == req' = [req EXCEPT ![c] = Idle]

Asks(c, op) == req[c].pc = "idle" /\ op \in MaySend[c]

\* The checks each request makes on the row it loaded; one that fails them is
\* answered at once and changes nothing.
Accepts(op, e) ==
  \/ op \in {"cancel", "stop"} /\ row[e].state \in Present \ Terminal
  \/ op \in {"pause", "recover"} /\ row[e].state \in Running
  \/ op = "resume" /\ row[e].state = "paused"
  \/ op = "retry" /\ CanRetry(row[e])

\* execute: add the row, mark the session running, commit; then start the task.
Execute(c, e) ==
  /\ Asks(c, "execute")
  /\ row[e].state = "absent" /\ sess # "deleted"
  /\ row' = [row EXCEPT ![e] = NewRow("queued")]
  /\ sess' = "running"
  /\ req' = [req EXCEPT ![c] = [Idle EXCEPT !.exec = e, !.pc = "spawn"]]
  /\ UNCHANGED <<steps, lock, task, entry, crashes>>

\* cancel, stop with an execution_id, pause, resume, retry, recover_unfinished:
\* the SELECT.  From here on the handler works on its copy.
Load(c, op, e) ==
  /\ Asks(c, op)
  /\ Accepts(op, e)
  /\ AskFor(c, op, e, IF op \in {"resume", "retry"} THEN "commit" ELSE "loaded")
  /\ UNCHANGED <<row, steps, sess, lock, task, entry, crashes>>

\* cancel and pause: cancel the asyncio task that _running_tasks names.
CancelTask(c) ==
  /\ req[c].pc = "loaded" /\ req[c].op # "recover"
  /\ Proceed(c, "commit")
  /\ task' = [t \in Task |->
                IF entry[req[c].exec] = t /\ task[t].pc \notin {"done", "free"}
                THEN [task[t] EXCEPT !.cancelReq = TRUE] ELSE task[t]]
  /\ UNCHANGED <<row, steps, sess, lock, entry, crashes>>

\* recover_unfinished: skip an execution that _running_tasks knows; with a
\* checkpoint, start _run_execution_resume, which does nothing, before the
\* commit; without one, the commit comes first.
Recover(c) ==
  LET e == req[c].exec IN
  /\ req[c].pc = "loaded" /\ req[c].op = "recover"
  /\ IF entry[e] # NoTask THEN Answer(c) ELSE Proceed(c, "commit")
  /\ entry' = IF entry[e] = NoTask /\ req[c].ckpt # -1
              THEN [entry EXCEPT ![e] = Stale] ELSE entry
  /\ UNCHANGED <<row, steps, sess, lock, task, crashes>>

\* The commit of a request waits for the row lock and writes its columns over
\* whatever the row has become.
CommitRequest(c) ==
  LET e == req[c].exec
      op == req[c].op
  IN
  /\ req[c].pc = "commit"
  /\ lock[e] = NoTask
  /\ \/ /\ Gone(e)                                  \* StaleDataError
        /\ Answer(c)
        /\ UNCHANGED row
     \/ /\ ~Gone(e)
        /\ op \in {"cancel", "stop"}
        /\ row' = [row EXCEPT ![e].cancelled = TRUE, ![e].state = "cancelled"]
        /\ IF op = "stop" THEN Proceed(c, "session") ELSE Answer(c)
     \/ /\ ~Gone(e)
        /\ op = "pause"
        /\ row' = [row EXCEPT ![e].state = "paused"]
        /\ Answer(c)
     \/ /\ ~Gone(e)
        /\ op = "resume"
        /\ row' = [row EXCEPT ![e].state = "resuming"]
        /\ Proceed(c, "spawn")
     \/ /\ ~Gone(e)
        /\ op = "retry"
        /\ row' = [row EXCEPT ![e].state = "queued", ![e].err = "none",
                              ![e].retries = req[c].retries + 1]
        /\ Proceed(c, "spawn")
     \/ /\ ~Gone(e)
        /\ op = "recover"
        /\ IF req[c].ckpt # -1
           THEN row' = [row EXCEPT ![e].state = "resuming"] /\ Answer(c)
           ELSE row' = [row EXCEPT ![e].state = "queued"] /\ Proceed(c, "spawn")
  /\ UNCHANGED <<steps, sess, lock, task, entry, crashes>>

\* The request starts its background task and is answered.  Only execute adds
\* a done-callback; what resume starts (_run_execution_resume) does nothing.
Spawn(c) ==
  /\ req[c].pc = "spawn"
  /\ IF req[c].op = "resume"
     THEN /\ entry' = [entry EXCEPT ![req[c].exec] = Stale]
          /\ UNCHANGED task
     ELSE \E t \in Task :
          /\ task[t].pc = "free"
          /\ task' = [task EXCEPT ![t] = NewTask(req[c].exec, "load", req[c].op = "execute")]
          /\ entry' = [entry EXCEPT ![req[c].exec] = t]
  /\ Answer(c)
  /\ UNCHANGED <<row, steps, sess, lock, crashes>>

\* stop: whatever cancel answered, or without an execution_id, the status of
\* the session, and only that, becomes CANCELLED.
AskStop(c) ==
  /\ Asks(c, "stop") /\ sess # "deleted"
  /\ req' = [req EXCEPT ![c] = [Idle EXCEPT !.op = "stop", !.pc = "session"]]
  /\ UNCHANGED <<row, steps, sess, lock, task, entry, crashes>>

StopSession(c) ==
  /\ req[c].pc = "session"
  /\ sess' = IF sess = "deleted" THEN sess ELSE "cancelled"
  /\ Answer(c)
  /\ UNCHANGED <<row, steps, lock, task, entry, crashes>>

\* delete_session: the rows of its executions go with it, once no transaction
\* holds one; no background task is told.
DeleteSession(c) ==
  /\ Asks(c, "delete") /\ sess # "deleted"
  /\ \A e \in Execution : lock[e] = NoTask
  /\ row' = [e \in Execution |-> IF row[e].state \in Present THEN NewRow("deleted") ELSE row[e]]
  /\ steps' = [e \in Execution |-> {}]
  /\ sess' = "deleted"
  /\ UNCHANGED <<lock, task, entry, req, crashes>>

\* The process dies: what is in memory and what is not committed is lost.
Crash ==
  /\ crashes < MaxCrashes
  /\ crashes' = crashes + 1
  /\ lock' = [e \in Execution |-> NoTask]
  /\ task' = [t \in Task |-> FreeTask]
  /\ entry' = [e \in Execution |-> NoTask]
  /\ req' = [c \in Caller |-> Idle]
  /\ UNCHANGED <<row, steps, sess>>

TaskStep(t) ==
  \/ Begin(t) \/ Start(t) \/ Refresh(t) \/ BeginStep(t)
  \/ AgentSucceeds(t) \/ (\E cls \in ErrorClass : AgentFails(t, cls))
  \/ CommitStep(t) \/ CommitStepFailure(t) \/ Finish(t) \/ CommitCompleted(t)
  \/ CommitCancelled(t) \/ LoadError(t) \/ CommitError(t)
  \/ Unwind(t) \/ HandleCancellationById(t) \/ DoneCallback(t)

RequestStep(c) ==
  CancelTask(c) \/ Recover(c) \/ CommitRequest(c) \/ Spawn(c) \/ StopSession(c)

NewRequest(c) ==
  \/ \E e \in Execution : Execute(c, e)
  \/ \E e \in Execution, op \in Op : Load(c, op, e)
  \/ AskStop(c) \/ DeleteSession(c)

Next ==
  \/ \E t \in Task : TaskStep(t)
  \/ \E t \in Task : \E cls \in {"unknown", "permanent"} : DatabaseFault(t, cls)
  \/ \E c \in Caller : RequestStep(c) \/ NewRequest(c)
  \/ Crash

\* The event loop serves every ready task and every request it has accepted,
\* an agent returns or raises, and the database answers.  Nothing obliges a
\* client to send a request, a database call to fail or the process to die.
Fairness ==
  /\ \A t \in Task : WF_vars(TaskStep(t))
  /\ \A c \in Caller : WF_vars(RequestStep(c))

Spec == Init /\ [][Next]_vars
FairSpec == Spec /\ Fairness
-----------------------------------------------------------------------------
TypeOK ==
  /\ row \in [Execution -> Row]
  /\ steps \in [Execution -> SUBSET (StepIndex \X ({"completed"} \cup ErrorClass))]
  /\ sess \in {"created", "running", "completed", "error", "cancelled", "deleted"}
  /\ lock \in [Execution -> Task \cup {NoTask}]
  /\ task \in [Task -> TaskRecord]
  /\ entry \in [Execution -> Task \cup {NoTask, Stale}]
  /\ req \in [Caller -> Request]
  /\ crashes \in 0 .. MaxCrashes

\* The tasks that may still write the row of e.
Writers(e) == {t \in Task : task[t].exec = e /\ task[t].pc \notin {"free", "unwind", "done"}}

Recorded(e) == {i \in StepIndex : \E o \in {"completed"} \cup ErrorClass : <<i, o>> \in steps[e]}

\* An execution is run by one background task at a time: a second one (from
\* retry) is started only when the first can no longer write the row.  So it is
\* as long as two retries of the execution do not overlap; if they do, see OneStepAtATime.
OneRunner == \A e \in Execution : \A t, u \in Writers(e) : t = u

\* COMPLETED is committed only when every agent's step is, even by a run that
\* raced with other runs, was retried after a rollback, or lost its entry.
CompletedRanEveryStep ==
  \A e \in Execution : row[e].state = "completed" => Recorded(e) = StepIndex

\* COMPLETED is committed only when some agent succeeded: a run whose agents all
\* exhausted their retries ends FAILED.
CompletedSawSuccess ==
  \A e \in Execution : row[e].state = "completed" => \E i \in StepIndex : <<i, "completed">> \in steps[e]

\* A checkpoint never counts a step as completed that was rolled back: resuming
\* from it (completed_agents = run_agents[:step_index]) would skip no work.
CheckpointSound ==
  \A e \in Execution : \A i \in StepIndex : i <= row[e].ckpt => i \in Recorded(e)

\* A row that is FAILED carries an error: can_retry is then decided by the
\* retry count and the class of the error, whoever wrote the columns last.
FailedIsExplained ==
  \A e \in Execution : row[e].state = "failed" => row[e].err # "none"

\* Every exit of a background task (return, error, cancellation) rolls back or
\* commits: a row that is locked is locked by a task that is still at work on it.
LockHasWriter ==
  \A e \in Execution : lock[e] # NoTask =>
    lock[e] \in Writers(e) /\ task[lock[e]].pc \in {"top", "ready", "agent", "commit",
                                                  "finishing", "cancelling", "failing"}

\* Two tasks may run one execution (two clients retried it), but the row lock that the
\* first flush of a step takes keeps their steps apart: one agent works at a time, and
\* no completion is committed while another task's agent works.
OneStepAtATime ==
  \A e \in Execution : \A t, u \in Writers(e) :
    {task[t].pc, task[u].pc} \subseteq {"agent", "commit", "failing", "finishing"} => t = u

\* A row in a running state has a checkpoint, for STARTING is flushed and only committed
\* together with the first step.  So recover_unfinished never takes its branch for rows
\* without one, which alone would start a task beside the one that retry started; and a
\* run that died before its first commit is QUEUED, where nothing looks for it.
RunningHasCheckpoint == \A e \in Execution : row[e].state \in Running => row[e].ckpt # -1

\* The safety properties that hold also when any database call of a task may raise, the
\* process may die, and two tasks run one execution: a completed execution ran every
\* step and saw a success, checkpoints count only committed steps, failures are
\* explained, a row is locked only by a task that is at work on it, the steps of two
\* tasks do not overlap, and what runs can be recovered from a checkpoint.
SoundAfterCrash ==
  /\ CompletedRanEveryStep /\ CompletedSawSuccess /\ CheckpointSound
  /\ FailedIsExplained /\ LockHasWriter /\ OneStepAtATime /\ RunningHasCheckpoint

\* The steps and completions of the executor are those of the pipeline.
Pipe == INSTANCE Pipeline WITH
          done <- [e \in Execution |-> Recorded(e)],
          completed <- {e \in Execution : row[e].state = "completed"}

ImplementsPipeline == Pipe!Spec

\* Every accepted request is answered: it waits for the row lock of a running
\* step at most as long as the step runs, and never for ever.
RequestsAreAnswered == \A c \in Caller : req[c].pc # "idle" ~> req[c].pc = "idle"

\* A task that will look at is_cancelled again before it may write COMPLETED.
StillLooks(t) ==
  \/ task[t].pc \in {"load", "starting", "top"}
  \/ task[t].pc \in {"ready", "agent", "commit"} /\ task[t].idx + 1 < Steps

CancelledInTime(e) ==
  row[e].cancelled /\ Writers(e) # {} /\ \A t \in Writers(e) : StillLooks(t)

\* A cancellation that was committed takes effect, though its task may have been out of
\* reach of task.cancel() (its entry popped by the callback of an older task): no task
\* goes on working, and an execution whose tasks were all before the end of the last
\* agent is never COMPLETED, not by a retry either.  One that was behind it is: see
\* CancelledIsNotCompleted of ExecutorClaims.
CancellationSettles ==
  \A e \in Execution :
    /\ row[e].cancelled ~> Writers(e) = {} /\ row[e].state \in Terminal \cup {"deleted"}
    /\ [](CancelledInTime(e) => [](row[e].state # "completed"))
=============================================================================
