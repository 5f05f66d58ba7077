----------------------------- MODULE Supervisor -----------------------------
(***************************************************************************)
(* The supervisor: agent tasks with dependencies, dispatched to registered *)
(* agents of limited capacity by callers that wait for an execution or     *)
(* scan it once, while executions are cancelled and cleaned up and agents  *)
(* are registered anew.                                                    *)
(*                                                                         *)
(* A coroutine runs until it is suspended.  The checks of dispatch_task    *)
(* and the bookkeeping of the registry (whose lock is never contended, for *)
(* nothing is awaited under it) run without suspension, so that the scan   *)
(* of dispatch_next_ready up to the next task it starts is one step.  That *)
(* scan is the only caller dispatch_task has; the function itself does not *)
(* look at the status of the task, only the scan does.                     *)
(***************************************************************************)
EXTENDS Integers, FiniteSets, Sequences

CONSTANTS
  Execution, Task, Agent,
  Waiter,           \* callers of wait_for_completion
  Client,           \* callers of dispatch_next_ready alone
  ExecOf,           \* the execution each task is added to
  AgentOf,          \* the agent type of each task
  Deps,             \* its dependencies, tasks of the same execution
  MaxConcurrent,    \* AgentMetadata.max_concurrent
  MaxChanges,       \* bound: agents registered anew or unregistered
  Interrupts,       \* may a caller be cancelled while it waits?
  NoTask, NoExecution

Actor == Waiter \cup Client

ASSUME SupervisorAssumption ==
  /\ ExecOf \in [Task -> Execution]
  /\ AgentOf \in [Task -> Agent]
  /\ Deps \in [Task -> SUBSET Task]
  /\ \A t \in Task : \A d \in Deps[t] : ExecOf[d] = ExecOf[t]
  /\ MaxConcurrent \in Nat \ {0}
  /\ MaxChanges \in Nat
  /\ Interrupts \in BOOLEAN
  /\ IsFiniteSet(Actor)
  /\ Waiter \cap Client = {}
  /\ NoTask \notin Task
  /\ NoExecution \notin Execution

VARIABLES
  active,       \* whether _active_executions holds the execution
  token,        \* whether its cancellation token is set
  ctxStatus,    \* ExecutionContext.status
  order,        \* the keys of ExecutionContext.tasks, in insertion order
  status,       \* AgentTask.status
  completed,    \* ExecutionContext.completed_tasks, of all executions
  failed,       \* ExecutionContext.failed_tasks
  registered,   \* whether an agent is registered
  load,         \* AgentMetadata.current_load
  actor,        \* the callers
  changes       \* registrations changed so far

registry == <<registered, load, changes>>
vars == <<active, token, ctxStatus, order, status, completed, failed, registered, load,
          actor, changes>>

TaskStatus == {"absent", "pending", "waiting", "running", "completed", "failed", "cancelled"}
Over == {"completed", "failed", "cancelled"}

\* Where a caller is: in the loop of wait_for_completion, or in dispatch_task,
\* awaiting the broadcast of the start, the agent, or the last broadcast.
Dispatching == {"start", "agent", "announce", "announce_failure"}
ActorRecord == [pc: Dispatching \cup {"idle", "loop", "returned", "raised"},
                exec: Execution \cup {NoExecution},
                task: Task \cup {NoTask},
                pos: Nat,      \* index of task in order
                size: Nat]     \* Len(order) when the scan began

Resting(pc, x) == [pc |-> pc, exec |-> x, task |-> NoTask, pos |-> 0, size |-> 0]

Init ==
  /\ active = [x \in Execution |-> "none"]
  /\ token = [x \in Execution |-> FALSE]
  /\ ctxStatus = [x \in Execution |-> "idle"]
  /\ order = [x \in Execution |-> <<>>]
  /\ status = [t \in Task |-> "absent"]
  /\ completed = {}
  /\ failed = {}
  /\ registered = [a \in Agent |-> TRUE]
  /\ load = [a \in Agent |-> 0]
  /\ actor = [p \in Actor |-> Resting("idle", NoExecution)]
  /\ changes = 0

(***************************************************************************)
(* The agent registry                                                      *)
(***************************************************************************)

\* Mutants: one more than the capacity; use is not recorded; completion is not.
CanExecuteOneMore(a, ld) == registered[a] /\ ld[a] <= MaxConcurrent
RecordUseForgets(a, ld) == ld
RecordCompletionForgets(a, ld) == ld
\* Mutant: the load of an agent that was registered anew goes below zero.
RecordCompletionBelowZero(a, ld) ==
  [ld EXCEPT ![a] = IF registered[a] THEN @ - 1 ELSE @]

CanExecute(a, ld) == registered[a] /\ ld[a] < MaxConcurrent

RecordUse(a, ld) ==
  [ld EXCEPT ![a] = IF @ < MaxConcurrent THEN @ + 1 ELSE MaxConcurrent]

RecordCompletion(a, ld) ==
  [ld EXCEPT ![a] = IF registered[a] /\ @ > 0 THEN @ - 1 ELSE @]

\* register also replaces the metadata of an agent that is registered already,
\* and with it the load of its dispatches under way.
Register(a) ==
  /\ changes < MaxChanges
  /\ changes' = changes + 1
  /\ registered' = [registered EXCEPT ![a] = TRUE]
  /\ load' = [load EXCEPT ![a] = 0]
  /\ UNCHANGED <<active, token, ctxStatus, order, status, completed, failed, actor>>

Unregister(a) ==
  /\ changes < MaxChanges
  /\ registered[a]
  /\ changes' = changes + 1
  /\ registered' = [registered EXCEPT ![a] = FALSE]
  /\ load' = [load EXCEPT ![a] = 0]
  /\ UNCHANGED <<active, token, ctxStatus, order, status, completed, failed, actor>>

(***************************************************************************)
(* dispatch_task up to its first suspension, and dispatch_next_ready       *)
(***************************************************************************)

\* Mutant: a dependency that is over counts as met.
DependenciesOver(t) == Deps[t] \subseteq completed \cup failed

\* The scan and dispatch_task both ask for it.
DependenciesMet(t) == Deps[t] \subseteq completed

\* Mutant: tasks that run already are dispatched once more.
ReadyAgain(t) == status[t] \in {"pending", "running"} /\ DependenciesMet(t)

Ready(t) == status[t] = "pending" /\ DependenciesMet(t)

\* Mutant: the token is looked at only before the scan.
StartsUnasked(t, ld) == DependenciesMet(t) /\ CanExecute(AgentOf[t], ld)

Starts(t, ld) ==
  ~token[ExecOf[t]] /\ DependenciesMet(t) /\ CanExecute(AgentOf[t], ld)

\* The status dispatch_task leaves a task with that it does not start.
Refusal(t) ==
  IF token[ExecOf[t]] THEN "cancelled"
  ELSE IF ~DependenciesMet(t) THEN "waiting"
  ELSE IF ~registered[AgentOf[t]] THEN "failed" ELSE "waiting"

\* The tasks `refused` are refused and task t, unless it is NoTask, is started.
Dispatch(refused, t, ld) ==
  /\ status' = [u \in Task |-> IF u = t THEN "running"
                               ELSE IF u \in refused THEN Refusal(u) ELSE status[u]]
  /\ failed' = failed \cup {u \in refused : Refusal(u) = "failed"}
  /\ load' = IF t = NoTask THEN ld ELSE RecordUse(AgentOf[t], ld)

After(p, x) == Resting(IF p \in Waiter THEN "loop" ELSE "idle", x)

\* p goes on with the scan of x at index `from`, and is suspended by the first
\* task that starts.  The dictionary may have grown in the meantime, or the
\* execution may have been cleaned up: both raise.
Scan(p, x, from, size, ld) ==
  LET ready  == {i \in from .. Len(order[x]) : Ready(order[x][i])}
      begins == {i \in ready : Starts(order[x][i], ld)}
      Before(i) == {order[x][j] : j \in {k \in ready : k < i}}
  IN
  \/ /\ size # Len(order[x]) \/ (active[x] # "active" /\ ready # {})
     /\ actor' = [actor EXCEPT ![p] = Resting("raised", x)]
     /\ load' = ld
     /\ UNCHANGED <<status, failed>>
  \/ /\ size = Len(order[x]) /\ (active[x] = "active" \/ ready = {})
     /\ \/ /\ begins = {}
           /\ Dispatch(Before(size + 1), NoTask, ld)
           /\ actor' = [actor EXCEPT ![p] = After(p, x)]
        \/ \E i \in begins :
             /\ \A j \in begins : i <= j
             /\ Dispatch(Before(i), order[x][i], ld)
             /\ actor' = [actor EXCEPT ![p] = [pc |-> "start", exec |-> x, task |-> order[x][i],
                                               pos |-> i, size |-> size]]

(***************************************************************************)
(* The callers                                                             *)
(***************************************************************************)
Submit(x) ==
  /\ active[x] = "none"
  /\ active' = [active EXCEPT ![x] = "active"]
  /\ UNCHANGED <<token, ctxStatus, order, status, completed, failed, actor>>
  /\ UNCHANGED registry

\* A dependency is named by the id that adding it returned.
AddTask(t) ==
  LET x == ExecOf[t] IN
  /\ active[x] = "active"
  /\ status[t] = "absent"
  /\ \A d \in Deps[t] : status[d] # "absent"
  /\ status' = [status EXCEPT ![t] = "pending"]
  /\ order' = [order EXCEPT ![x] = Append(@, t)]
  /\ UNCHANGED <<active, token, ctxStatus, completed, failed, actor>>
  /\ UNCHANGED registry

Wait(p, x) ==
  /\ p \in Waiter
  /\ actor[p].pc = "idle"
  /\ active[x] = "active"
  /\ actor' = [actor EXCEPT ![p] = Resting("loop", x)]
  /\ UNCHANGED <<active, token, ctxStatus, order, status, completed, failed>>
  /\ UNCHANGED registry

Added(x) == {order[x][i] : i \in 1 .. Len(order[x])}

\* Mutant: failed tasks are not looked for.
VerdictOptimist(x) == "completed"

Verdict(x) == IF failed \cap Added(x) # {} THEN "failed" ELSE "completed"

\* Mutant: the token is not looked at.
LoopDeaf(p) ==
  LET x == actor[p].exec IN
  /\ actor[p].pc = "loop"
  /\ \/ /\ \A t \in Added(x) : status[t] \in Over
        /\ ctxStatus' = [ctxStatus EXCEPT ![x] = Verdict(x)]
        /\ actor' = [actor EXCEPT ![p] = Resting("returned", x)]
        /\ UNCHANGED <<status, failed, load>>
     \/ /\ \E t \in Added(x) : status[t] \notin Over
        /\ active[x] = "active"
        /\ Scan(p, x, 1, Len(order[x]), load)
        /\ UNCHANGED ctxStatus
  /\ UNCHANGED <<active, token, order, completed, registered, changes>>

\* The loop of wait_for_completion, woken from its sleep: return, or scan.  An
\* execution that was cleaned up has no token and nothing is dispatched.
Loop(p) ==
  LET x == actor[p].exec
      cancelled == active[x] = "active" /\ token[x]
      allDone == \A t \in Added(x) : status[t] \in Over
  IN
  /\ actor[p].pc = "loop"
  /\ \/ /\ cancelled \/ allDone
        /\ ctxStatus' = [ctxStatus EXCEPT ![x] = IF cancelled THEN "cancelled" ELSE Verdict(x)]
        /\ actor' = [actor EXCEPT ![p] = Resting("returned", x)]
        /\ UNCHANGED <<status, failed, load>>
     \/ /\ ~cancelled /\ ~allDone
        /\ active[x] = "active"
        /\ Scan(p, x, 1, Len(order[x]), load)
        /\ UNCHANGED ctxStatus
  /\ UNCHANGED <<active, token, order, completed, registered, changes>>

\* dispatch_next_ready, called by a client.
DispatchReady(p, x) ==
  /\ p \in Client
  /\ actor[p].pc = "idle"
  /\ active[x] = "active"
  /\ Scan(p, x, 1, Len(order[x]), load)
  /\ UNCHANGED <<active, token, ctxStatus, order, completed, registered, changes>>

\* The start was broadcast: the agent is created and runs.
Started(p) ==
  /\ actor[p].pc = "start"
  /\ actor' = [actor EXCEPT ![p].pc = "agent"]
  /\ UNCHANGED <<active, token, ctxStatus, order, status, completed, failed>>
  /\ UNCHANGED registry

\* The agent returned: COMPLETED, whatever cancel has made of the status.
AgentReturns(p) ==
  LET t == actor[p].task IN
  /\ actor[p].pc = "agent"
  /\ status' = [status EXCEPT ![t] = "completed"]
  /\ completed' = completed \cup {t}
  /\ actor' = [actor EXCEPT ![p].pc = "announce"]
  /\ UNCHANGED <<active, token, ctxStatus, order, failed>>
  /\ UNCHANGED registry

\* Mutant: the task counted as completed before its result was looked at.
AgentRaisesLate(p) ==
  LET t == actor[p].task IN
  /\ actor[p].pc = "agent"
  /\ status' = [status EXCEPT ![t] = "failed"]
  /\ failed' = failed \cup {t}
  /\ completed' = completed \cup {t}
  /\ actor' = [actor EXCEPT ![p].pc = "announce_failure"]
  /\ UNCHANGED <<active, token, ctxStatus, order>>
  /\ UNCHANGED registry

\* Creating or running the agent raised.
AgentRaises(p) ==
  LET t == actor[p].task IN
  /\ actor[p].pc = "agent"
  /\ status' = [status EXCEPT ![t] = "failed"]
  /\ failed' = failed \cup {t}
  /\ actor' = [actor EXCEPT ![p].pc = "announce_failure"]
  /\ UNCHANGED <<active, token, ctxStatus, order, completed>>
  /\ UNCHANGED registry

\* The outcome was broadcast: finally, record_completion; then the scan goes on
\* behind this task.
EndDispatch(p) ==
  /\ actor[p].pc \in {"announce", "announce_failure"}
  /\ Scan(p, actor[p].exec, actor[p].pos + 1, actor[p].size,
          RecordCompletion(AgentOf[actor[p].task], load))
  /\ UNCHANGED <<active, token, ctxStatus, order, completed, registered, changes>>

\* The caller's asyncio task is cancelled.  In the try block of dispatch_task
\* the task is cancelled and counts as failed, even one that was completed.
Interrupt(p) ==
  LET t == actor[p].task
      inTry == actor[p].pc \in {"start", "agent", "announce"}
  IN
  /\ Interrupts
  /\ actor[p].pc \in Dispatching \cup {"loop"}
  /\ status' = IF inTry THEN [status EXCEPT ![t] = "cancelled"] ELSE status
  /\ failed' = IF inTry THEN failed \cup {t} ELSE failed
  /\ load' = IF actor[p].pc = "loop" THEN load ELSE RecordCompletion(AgentOf[t], load)
  /\ actor' = [actor EXCEPT ![p] = Resting("raised", actor[p].exec)]
  /\ UNCHANGED <<active, token, ctxStatus, order, completed, registered, changes>>

\* cancel: set the token and mark what runs; the agents are not interrupted.
Cancel(x) ==
  /\ active[x] = "active"
  /\ token' = [token EXCEPT ![x] = TRUE]
  /\ ctxStatus' = [ctxStatus EXCEPT ![x] = "cancelled"]
  /\ status' = [t \in Task |-> IF t \in Added(x) /\ status[t] = "running"
                               THEN "cancelled" ELSE status[t]]
  /\ UNCHANGED <<active, order, completed, failed, actor>>
  /\ UNCHANGED registry

Cleanup(x) ==
  /\ active[x] = "active"
  /\ active' = [active EXCEPT ![x] = "cleaned"]
  /\ UNCHANGED <<token, ctxStatus, order, status, completed, failed, actor>>
  /\ UNCHANGED registry

Proceed(p) ==
  Loop(p) \/ Started(p) \/ AgentReturns(p) \/ AgentRaises(p) \/ EndDispatch(p)

Next ==
  \/ \E p \in Actor : Proceed(p) \/ Interrupt(p)
  \/ \E p \in Actor, x \in Execution : Wait(p, x) \/ DispatchReady(p, x)
  \/ \E x \in Execution : Submit(x) \/ Cancel(x) \/ Cleanup(x)
  \/ \E t \in Task : AddTask(t)
  \/ \E a \in Agent : Register(a) \/ Unregister(a)

\* The event loop resumes every caller; an agent returns or raises.
Spec == Init /\ [][Next]_vars
FairSpec == Spec /\ \A p \in Actor : WF_vars(Proceed(p))
-----------------------------------------------------------------------------
TypeOK ==
  /\ active \in [Execution -> {"none", "active", "cleaned"}]
  /\ token \in [Execution -> BOOLEAN]
  /\ ctxStatus \in [Execution -> {"idle", "completed", "failed", "cancelled"}]
  /\ order \in [Execution -> Seq(Task)]
  /\ status \in [Task -> TaskStatus]
  /\ completed \subseteq Task /\ failed \subseteq Task
  /\ registered \in [Agent -> BOOLEAN]
  /\ load \in [Agent -> 0 .. MaxConcurrent]
  /\ actor \in [Actor -> ActorRecord]
  /\ changes \in 0 .. MaxChanges

InFlight(a) == {p \in Actor : actor[p].pc \in Dispatching /\ AgentOf[actor[p].task] = a}

\* The load of an agent is the number of dispatches to it under way, on every
\* path out of dispatch_task (return, failure, interruption), so that capacity
\* is neither exceeded nor leaked; unless agents are registered anew, which
\* resets the load: it then never counts more than is under way.
LoadAccounted ==
  \A a \in Agent :
    /\ load[a] <= Cardinality(InFlight(a))
    /\ changes = 0 => load[a] = Cardinality(InFlight(a))

\* An agent works on a task only after the dependencies of the task completed.
DependenciesFirst ==
  \A p \in Actor : actor[p].pc \in Dispatching => Deps[actor[p].task] \subseteq completed

\* Two callers that scan one execution never run one task at a time, not even
\* when one wakes up while the other one is inside dispatch_task.
OneDispatchPerTask ==
  \A p, q \in Actor :
    actor[p].pc \in Dispatching /\ actor[q].pc \in Dispatching /\ actor[p].task = actor[q].task
      => p = q

\* A task that was both completed and failed was interrupted between its
\* completion and the end of the dispatch.
BothOutcomesMeanInterrupted ==
  \A t \in completed \cap failed : status[t] = "cancelled" /\ Interrupts

\* Once an execution is cancelled no agent starts on a task of it, by a scan
\* that is half way either.
NothingStartsAfterCancel ==
  [][\A t \in Task : token[ExecOf[t]] => ~(status[t] # "running" /\ status'[t] = "running")]_vars

\* wait_for_completion reports COMPLETED only if every task was completed, or
\* the execution was cancelled and then cleaned up: its token is gone.
CompletedMeansAll ==
  [][\A x \in Execution : ctxStatus'[x] = "completed" /\ ctxStatus[x] # "completed" =>
        \/ \A t \in Added(x) : status[t] = "completed"
        \/ token[x] /\ active[x] = "cleaned"]_vars

\* A cancelled execution that is not cleaned up lets its waiters go.
CancelEndsWaiting ==
  \A p \in Waiter : \A x \in Execution :
    (actor[p].exec = x /\ actor[p].pc \notin {"idle", "returned", "raised"} /\ token[x])
      ~> (actor[p].pc \in {"returned", "raised"} \/ active[x] = "cleaned")

\* Waiting ends if nothing fails, waits for capacity, or is taken away.
NoTrouble ==
  /\ failed = {}
  /\ \A t \in Task : status[t] # "waiting"
  /\ \A x \in Execution : active[x] # "cleaned"

WaitingEnds ==
  [](NoTrouble) => \A p \in Waiter : actor[p].pc = "loop" ~> actor[p].pc \in {"returned", "raised"}

\* A caller leaves wait_for_completion when its execution is cancelled, and when nothing
\* is in the way of the tasks.  No more can be said: a task whose dependency failed, or
\* that met an agent at capacity, is never dispatched again, and the timeout that the
\* caller gave is not looked at.
WaitersLeave == CancelEndsWaiting /\ WaitingEnds
=============================================================================
