--------------------------- MODULE Executor_proofs ---------------------------
(***************************************************************************)
(* Proofs about Executor, for any executions, callers, agents and retries, *)
(* with the argument error of the agent states or without it.              *)
(***************************************************************************)
EXTENDS Executor, TLAPS

(***************************************************************************)
(* Types.  A task counts its steps up to the last one, a retry was         *)
(* accepted below the limit, and whatever is not idle has an execution.    *)
(***************************************************************************)
GoodTask(r) ==
  /\ r \in TaskRecord
  /\ r.pc # "free" => r.exec \in Execution
  /\ r.idx = Steps <=> r.pc \in {"finish", "finishing"}
  /\ r.pc \in {"error", "erroring"} => r.result \in ErrorClass
  /\ r.pc \in {"commit", "failing"} => r.result # "none"

GoodRequest(r) ==
  /\ r \in Request
  /\ r.pc \in {"loaded", "commit", "spawn"} => r.exec \in Execution
  /\ r.op = "retry" => r.pc # "loaded"
  /\ r.op = "retry" /\ r.pc = "commit" => r.retries < MaxRetries

TasksOK == task \in [Task -> TaskRecord] /\ \A t \in Task : GoodTask(task[t])
RequestsOK == req \in [Caller -> Request] /\ \A c \in Caller : GoodRequest(req[c])

TInv == TypeOK /\ TasksOK /\ RequestsOK

\* A record of NewTask is a good one.
LEMMA FreshTask ==
  ASSUME NEW e \in Execution, NEW pc \in PC \ {"finish", "finishing", "error", "erroring",
                                               "commit", "failing"},
         NEW b \in BOOLEAN
  PROVE  GoodTask(NewTask(e, pc, b))
  BY ParametersAssumption DEF GoodTask, NewTask, TaskRecord, State

\* So is that of a free handle.
LEMMA FreeTaskOK == GoodTask(FreeTask)
  BY ParametersAssumption DEF GoodTask, FreeTask, NewTask, TaskRecord, State, PC

\* One task changes.
LEMMA SetTask ==
  ASSUME TasksOK, NEW t \in Task, NEW r, GoodTask(r), task' = [task EXCEPT ![t] = r]
  PROVE  TasksOK'
  BY DEF TasksOK, GoodTask

\* The coroutine returns.
LEMMA ReturnOK ==
  ASSUME TInv, NEW t \in Task, task[t].pc # "free", Return(t)
  PROVE  TasksOK' /\ entry' \in [Execution -> Task \cup {NoTask, Stale}]
  <1> DEFINE r == IF task[t].callback THEN NewTask(task[t].exec, "done", TRUE) ELSE FreeTask
  <1>1. task[t].exec \in Execution
    BY DEF TInv, TasksOK, GoodTask
  <1>2. GoodTask(r)
    BY <1>1, FreshTask, FreeTaskOK DEF PC
  <1>3. task' = [task EXCEPT ![t] = r]
    BY DEF Return
  <1>4. TasksOK'
    BY <1>2, <1>3, SetTask DEF TInv
  <1> QED
    BY <1>4 DEF Return, TInv, TypeOK

\* The locks of a task are released.
LEMMA UnlockOK ==
  ASSUME TInv, NEW t \in Task, Unlock(t)
  PROVE  lock' \in [Execution -> Task \cup {NoTask}]
  BY DEF Unlock, TInv, TypeOK

\* A task raises.
LEMMA RaiseOK ==
  ASSUME TInv, NEW t \in Task, task[t].pc # "free", NEW cls \in ErrorClass, Raise(t, cls)
  PROVE  TasksOK' /\ lock' \in [Execution -> Task \cup {NoTask}]
  <1> DEFINE n == NewTask(task[t].exec, "error", task[t].callback)
             r == [n EXCEPT !.result = cls]
  <1>1. task[t].exec \in Execution /\ task[t].callback \in BOOLEAN
    BY DEF TInv, TasksOK, GoodTask, TaskRecord
  <1>a. n \in TaskRecord /\ n.idx = 0 /\ n.pc = "error" /\ n.exec = task[t].exec
    BY <1>1, ParametersAssumption DEF NewTask, TaskRecord, State, PC
  <1>b. r \in TaskRecord
    BY <1>a DEF TaskRecord
  <1>2. GoodTask(r)
    BY <1>1, <1>a, <1>b, ParametersAssumption DEF GoodTask, TaskRecord
  <1>3. task' = [task EXCEPT ![t] = r]
    BY DEF Raise
  <1>4. TasksOK'
    BY <1>2, <1>3, SetTask DEF TInv
  <1> QED
    BY <1>4, UnlockOK DEF Raise

\* A task that only moves its program counter.
LEMMA GoToOK ==
  ASSUME TInv, NEW t \in Task, task[t].pc # "free",
         NEW pc \in PC \ {"error", "erroring", "commit", "failing"},
         pc \in {"finish", "finishing"} <=> task[t].pc \in {"finish", "finishing"},
         GoTo(t, pc)
  PROVE  TasksOK'
  <1> DEFINE r == [task[t] EXCEPT !.pc = pc]
  <1>1. GoodTask(task[t])
    BY DEF TInv, TasksOK
  <1>2. GoodTask(r)
    BY <1>1 DEF GoodTask, TaskRecord, PC
  <1> QED
    BY <1>2, SetTask DEF GoTo, TInv

\* Columns of a row, set to values of their types.
LEMMA SetRow ==
  ASSUME TInv, NEW e \in Execution, NEW r \in Row, row' = [row EXCEPT ![e] = r]
  PROVE  row' \in [Execution -> Row]
  BY DEF TInv, TypeOK

\* Several columns of a row at once.
LEMMA EditRow ==
  ASSUME NEW r \in Row, NEW s \in State, NEW k \in -1 .. Steps - 1,
         NEW x \in {"none", "step_failed"} \cup ErrorClass
  PROVE  /\ [r EXCEPT !.state = s, !.ckpt = k] \in Row
         /\ [r EXCEPT !.state = s, !.ckpt = k, !.err = x] \in Row
  BY DEF Row

\* The initial state.
LEMMA InitTInv == Init => TInv
  <1> SUFFICES ASSUME Init PROVE TInv
    OBVIOUS
  <1>1. TasksOK
    BY FreeTaskOK DEF Init, TasksOK, GoodTask
  <1>2. Idle \in Request /\ GoodRequest(Idle)
    BY ParametersAssumption DEF Idle, Request, Op, GoodRequest
  <1>3. RequestsOK
    BY <1>2 DEF Init, RequestsOK
  <1>4. row \in [Execution -> Row]
    BY ParametersAssumption DEF Init, NewRow, Row, State
  <1> QED
    BY <1>1, <1>3, <1>4, ParametersAssumption DEF Init, TInv, TypeOK, TasksOK, RequestsOK

\* A step of a background task.
LEMMA TaskTInv ==
  ASSUME TInv, NEW t \in Task,
         TaskStep(t) \/ \E cls \in {"unknown", "permanent"} : DatabaseFault(t, cls)
  PROVE  TInv'
  <1> DEFINE e == task[t].exec
  <1>0. /\ GoodTask(task[t])
        /\ task[t].pc # "free" => e \in Execution /\ row[e] \in Row
        /\ "unknown" \in ErrorClass /\ "permanent" \in ErrorClass
    BY DEF TInv, TypeOK, TasksOK, GoodTask, ErrorClass
  <1> USE DEF At, Sent, Exec
  <1>1. CASE Begin(t)
    <2>1. TasksOK' /\ entry' \in [Execution -> Task \cup {NoTask, Stale}]
      <3>1. CASE Gone(e)
        BY <1>1, <3>1, ReturnOK DEF Begin
      <3>2. CASE ~Gone(e)
        BY <1>1, <3>2, GoToOK DEF Begin, PC, InTry, TInv, TypeOK
      <3> QED
        BY <3>1, <3>2
    <2> QED
      BY <1>1, <2>1 DEF Begin, TInv, TypeOK, TasksOK, RequestsOK
  <1>2. CASE Start(t)
    <2>1. TasksOK' /\ lock' \in [Execution -> Task \cup {NoTask}]
      <3>1. CASE Gone(e)
        BY <1>2, <3>1, <1>0, RaiseOK DEF Start
      <3>2. CASE ~Gone(e)
        BY <1>2, <3>2, GoToOK DEF Start, PC, InTry, TInv, TypeOK
      <3> QED
        BY <3>1, <3>2
    <2> QED
      BY <1>2, <2>1 DEF Start, TInv, TypeOK, TasksOK, RequestsOK
  <1>3. CASE Refresh(t)
    <2>1. TasksOK' /\ lock' \in [Execution -> Task \cup {NoTask}]
      <3>1. CASE Gone(e)
        BY <1>3, <3>1, <1>0, RaiseOK DEF Refresh
      <3>2. CASE ~Gone(e) /\ row[e].cancelled
        <4> DEFINE st == IF lock[e] = t THEN "starting" ELSE row[e].state
                   r == [task[t] EXCEPT !.pc = "cancelling", !.seen = st]
        <4>1. st \in State /\ task[t] \in TaskRecord
          BY <1>0, <1>3 DEF Refresh, Row, State, GoodTask
        <4>2. GoodTask(r)
          BY <1>0, <1>3, <4>1 DEF Refresh, GoodTask, TaskRecord, PC, InTry
        <4>3. task' = [task EXCEPT ![t] = r]
          BY <1>3, <3>2 DEF Refresh
        <4> QED
          BY <1>3, <3>2, <4>2, <4>3, SetTask DEF Refresh, TInv, TypeOK
      <3>3. CASE ~Gone(e) /\ ~row[e].cancelled
        BY <1>3, <3>3, GoToOK DEF Refresh, PC, InTry, TInv, TypeOK
      <3> QED
        BY <3>1, <3>2, <3>3
    <2> QED
      BY <1>3, <2>1 DEF Refresh, TInv, TypeOK, TasksOK, RequestsOK
  <1>4. CASE BeginStep(t)
    <2>1. TasksOK' /\ lock' \in [Execution -> Task \cup {NoTask}]
      <3>1. CASE Raise(t, "unknown")
        BY <1>4, <3>1, <1>0, RaiseOK DEF BeginStep
      <3>2. CASE ~Raise(t, "unknown")
        <4> DEFINE r == [task[t] EXCEPT !.pc = "agent", !.attempt = 0]
        <4>1. GoodTask(r)
          <5>1. 0 \in 0 .. MaxRetries /\ "agent" \in PC
            BY ParametersAssumption DEF PC, InTry
          <5>2. r \in TaskRecord /\ r.pc = "agent" /\ r.exec = e /\ r.idx = task[t].idx
            BY <1>0, <5>1 DEF GoodTask, TaskRecord
          <5> QED
            BY <1>0, <1>4, <5>2 DEF BeginStep, GoodTask
        <4>2. task' = [task EXCEPT ![t] = r]
          BY <1>4, <3>2 DEF BeginStep
        <4>3. TasksOK'
          BY <4>1, <4>2, SetTask DEF TInv
        <4> QED
          BY <1>4, <3>2, <4>3 DEF BeginStep, TInv, TypeOK
      <3> QED
        BY <3>1, <3>2
    <2> QED
      BY <1>4, <2>1 DEF BeginStep, TInv, TypeOK, TasksOK, RequestsOK
  <1>5. CASE AgentSucceeds(t)
    <2>1. PICK b \in BOOLEAN : task' = [task EXCEPT ![t].pc = "commit", ![t].result = "completed",
                                                  ![t].output = b]
      BY <1>5 DEF AgentSucceeds
    <2> DEFINE r == [task[t] EXCEPT !.pc = "commit", !.result = "completed", !.output = b]
    <2>2. GoodTask(r)
      BY <1>0, <1>5 DEF AgentSucceeds, GoodTask, TaskRecord, PC, InTry
    <2>3. TasksOK'
      BY <2>1, <2>2, SetTask DEF TInv
    <2> QED
      BY <1>5, <2>3 DEF AgentSucceeds, TInv, TypeOK, TasksOK, RequestsOK
  <1>6. ASSUME NEW cls \in ErrorClass, AgentFails(t, cls) PROVE TInv'
    <2>1. TasksOK'
      <3>1. CASE cls = "transient" /\ task[t].attempt < MaxRetries
        <4> DEFINE r == [task[t] EXCEPT !.attempt = @ + 1]
        <4>1. GoodTask(r)
          BY <1>0, <1>6, <3>1, ParametersAssumption DEF AgentFails, GoodTask, TaskRecord
        <4> QED
          BY <1>6, <3>1, <4>1, SetTask DEF AgentFails, TInv
      <3>2. CASE ~(cls = "transient" /\ task[t].attempt < MaxRetries)
        <4> DEFINE p == IF cls = "transient" THEN "commit" ELSE "failing"
                   r == [task[t] EXCEPT !.result = cls, !.pc = p]
        <4>1. GoodTask(r)
          BY <1>0, <1>6 DEF AgentFails, GoodTask, TaskRecord, PC, InTry, ErrorClass
        <4>2. task' = [task EXCEPT ![t] = r]
          BY <1>6, <3>2 DEF AgentFails
        <4> QED
          BY <4>1, <4>2, SetTask DEF TInv
      <3> QED
        BY <3>1, <3>2
    <2> QED
      BY <1>6, <2>1 DEF AgentFails, TInv, TypeOK, TasksOK, RequestsOK
  <1>7. CASE CommitStep(t)
    <2> DEFINE k == task[t].idx
               p == IF k + 1 = Steps THEN "finish" ELSE "top"
               r == [task[t] EXCEPT !.pc = p, !.idx = k + 1, !.attempt = 0, !.result = "none"]
               w == [row[e] EXCEPT !.state = "working", !.ckpt = k]
    <2>0. k \in StepIndex /\ task[t].result \in {"completed"} \cup ErrorClass
          /\ e \in Execution /\ row[e] \in Row
      BY <1>0, <1>7, ParametersAssumption DEF CommitStep, GoodTask, TaskRecord, StepIndex
    <2>1. GoodTask(r)
      <3>1. p \in PC /\ k + 1 \in 0 .. Steps /\ 0 \in 0 .. MaxRetries /\ task[t] \in TaskRecord
        BY <1>0, <2>0, ParametersAssumption DEF GoodTask, PC, InTry, StepIndex
      <3> HIDE DEF p, k
      <3>2. /\ r \in TaskRecord
            /\ r.pc = p /\ r.idx = k + 1 /\ r.attempt = 0 /\ r.result = "none" /\ r.exec = e
        BY <3>1 DEF TaskRecord
      <3> QED
        BY <2>0, <3>2 DEF GoodTask, p, k
    <2>2. task' = [task EXCEPT ![t] = r]
      BY <1>7 DEF CommitStep
    <2>3. TasksOK'
      BY <2>1, <2>2, SetTask DEF TInv
    <2>4. w \in Row
      <3>1. "working" \in State /\ k \in -1 .. Steps - 1
        BY <2>0, ParametersAssumption DEF State, StepIndex
      <3> QED
        BY <2>0, <3>1, EditRow
    <2>a. row' = [row EXCEPT ![e] = w]
      BY <1>7 DEF CommitStep
    <2>5. row' \in [Execution -> Row]
      BY <2>0, <2>4, <2>a, SetRow
    <2>6. steps' \in [Execution -> SUBSET (StepIndex \X ({"completed"} \cup ErrorClass))]
      BY <1>7, <2>0 DEF CommitStep, TInv, TypeOK
    <2> QED
      BY <1>7, <2>3, <2>5, <2>6, UnlockOK DEF CommitStep, TInv, TypeOK, TasksOK, RequestsOK
  <1>8. CASE CommitStepFailure(t)
    <2> DEFINE k == task[t].idx
               w == [row[e] EXCEPT !.state = "failed", !.ckpt = k, !.err = "step_failed"]
    <2>0. k \in StepIndex /\ task[t].result \in {"completed"} \cup ErrorClass
          /\ e \in Execution /\ row[e] \in Row
      BY <1>0, <1>8, ParametersAssumption DEF CommitStepFailure, GoodTask, TaskRecord, StepIndex
    <2>1. w \in Row
      <3>1. "failed" \in State /\ k \in -1 .. Steps - 1
        BY <2>0, ParametersAssumption DEF State, StepIndex
      <3> QED
        BY <2>0, <3>1, EditRow
    <2>a. row' = [row EXCEPT ![e] = w]
      BY <1>8 DEF CommitStepFailure
    <2>2. row' \in [Execution -> Row]
      BY <2>0, <2>1, <2>a, SetRow
    <2>3. steps' \in [Execution -> SUBSET (StepIndex \X ({"completed"} \cup ErrorClass))]
      BY <1>8, <2>0 DEF CommitStepFailure, TInv, TypeOK
    <2> QED
      BY <1>8, <2>2, <2>3, UnlockOK, ReturnOK
      DEF CommitStepFailure, TInv, TypeOK, TasksOK, RequestsOK
  <1>9. CASE Finish(t)
    <2>1. TasksOK' /\ lock' \in [Execution -> Task \cup {NoTask}]
      <3>1. CASE ~task[t].output \/ Gone(e)
        BY <1>9, <3>1, <1>0, RaiseOK DEF Finish
      <3>2. CASE task[t].output /\ ~Gone(e)
        BY <1>9, <3>2, GoToOK DEF Finish, PC, InTry, TInv, TypeOK
      <3> QED
        BY <3>1, <3>2
    <2> QED
      BY <1>9, <2>1 DEF Finish, TInv, TypeOK, TasksOK, RequestsOK
  <1>10. CASE CommitCompleted(t)
    <2> DEFINE w == [row[e] EXCEPT !.state = "completed"]
    <2>1. w \in Row
      BY <1>0, <1>10 DEF CommitCompleted, Row, State
    <2>2. row' \in [Execution -> Row]
      BY <1>0, <1>10, <2>1, SetRow DEF CommitCompleted
    <2> QED
      BY <1>10, <2>2, UnlockOK, ReturnOK DEF CommitCompleted, TInv, TypeOK, TasksOK, RequestsOK
  <1>11. CASE CommitCancelled(t)
    <2>1. CASE Gone(e)
      BY <1>11, <2>1, <1>0, RaiseOK DEF CommitCancelled, TInv, TypeOK, TasksOK, RequestsOK
    <2>2. CASE ~Gone(e)
      <3> DEFINE st == IF task[t].seen = "cancelled" THEN row[e].state ELSE "cancelled"
                 w == [row[e] EXCEPT !.cancelled = TRUE, !.state = st]
      <3>1. w \in Row
        BY <1>0, <1>11 DEF CommitCancelled, Row, State
      <3>2. row' = [row EXCEPT ![e] = w]
        BY <1>11, <2>2 DEF CommitCancelled
      <3>3. row' \in [Execution -> Row]
        BY <1>0, <1>11, <3>1, <3>2, SetRow DEF CommitCancelled
      <3> QED
        BY <1>11, <2>2, <3>3, UnlockOK, ReturnOK
        DEF CommitCancelled, TInv, TypeOK, TasksOK, RequestsOK
    <2> QED
      BY <2>1, <2>2
  <1>12. CASE LoadError(t)
    <2>1. TasksOK' /\ entry' \in [Execution -> Task \cup {NoTask, Stale}]
      <3>1. CASE Gone(e)
        BY <1>12, <3>1, ReturnOK DEF LoadError
      <3>2. CASE ~Gone(e)
        <4> DEFINE r == [task[t] EXCEPT !.pc = "erroring", !.seen = row[e].state]
        <4>1. row[e].state \in State
          BY <1>0, <1>12 DEF LoadError, Row
        <4>2. GoodTask(r)
          BY <1>0, <1>12, <4>1 DEF LoadError, GoodTask, TaskRecord, PC
        <4>3. task' = [task EXCEPT ![t] = r]
          BY <1>12, <3>2 DEF LoadError
        <4> QED
          BY <1>12, <3>2, <4>2, <4>3, SetTask DEF LoadError, TInv, TypeOK
      <3> QED
        BY <3>1, <3>2
    <2> QED
      BY <1>12, <2>1 DEF LoadError, TInv, TypeOK, TasksOK, RequestsOK
  <1>13. CASE CommitError(t)
    <2>1. CASE Gone(e)
      BY <1>13, <2>1, ReturnOK DEF CommitError, TInv, TypeOK, TasksOK, RequestsOK
    <2>2. CASE ~Gone(e)
      <3> DEFINE st == IF task[t].seen = "failed" THEN row[e].state ELSE "failed"
                 w == [row[e] EXCEPT !.err = task[t].result, !.state = st]
      <3>1. w \in Row
        BY <1>0, <1>13 DEF CommitError, Row, State, GoodTask
      <3>2. row' = [row EXCEPT ![e] = w]
        BY <1>13, <2>2 DEF CommitError
      <3>3. row' \in [Execution -> Row]
        BY <1>0, <1>13, <3>1, <3>2, SetRow DEF CommitError
      <3> QED
        BY <1>13, <2>2, <3>3, ReturnOK DEF CommitError, TInv, TypeOK, TasksOK, RequestsOK
    <2> QED
      BY <2>1, <2>2
  <1>14. CASE Unwind(t)
    <2>1. CASE task[t].pc \in InTry
      <3>1. task[t].callback \in BOOLEAN /\ e \in Execution
        BY <1>0, <2>1 DEF GoodTask, TaskRecord, InTry
      <3>2. GoodTask(NewTask(e, "unwind", task[t].callback))
        BY <3>1, FreshTask DEF PC
      <3>3. TasksOK'
        BY <1>14, <2>1, <3>2, SetTask DEF Unwind, TInv, InTry
      <3> QED
        BY <1>14, <2>1, <3>3, UnlockOK DEF Unwind, InTry, TInv, TypeOK, TasksOK, RequestsOK
    <2>2. CASE task[t].pc \notin InTry
      BY <1>14, <2>2, ReturnOK DEF Unwind, TInv, TypeOK, TasksOK, RequestsOK
    <2> QED
      BY <2>1, <2>2
  <1>15. CASE HandleCancellationById(t)
    BY <1>15, ReturnOK DEF HandleCancellationById, TInv, TypeOK, TasksOK, RequestsOK
  <1>16. CASE DoneCallback(t)
    <2>1. TasksOK'
      BY <1>16, FreeTaskOK, SetTask DEF DoneCallback, TInv
    <2> QED
      BY <1>16, <2>1 DEF DoneCallback, TInv, TypeOK, TasksOK, RequestsOK
  <1>17. ASSUME NEW cls \in {"unknown", "permanent"}, DatabaseFault(t, cls) PROVE TInv'
    <2>1. CASE task[t].pc \in InTry
      BY <1>0, <1>17, <2>1, RaiseOK
      DEF DatabaseFault, InTry, TInv, TypeOK, TasksOK, RequestsOK
    <2>2. CASE task[t].pc \notin InTry
      BY <1>17, <2>2, ReturnOK DEF DatabaseFault, TInv, TypeOK, TasksOK, RequestsOK
    <2> QED
      BY <2>1, <2>2
  <1> QED
    BY <1>1, <1>2, <1>3, <1>4, <1>5, <1>6, <1>7, <1>8, <1>9, <1>10, <1>11, <1>12, <1>13,
       <1>14, <1>15, <1>16, <1>17 DEF TaskStep

\* A request changes its own record.
LEMMA SetRequest ==
  ASSUME RequestsOK, NEW c \in Caller, NEW r, GoodRequest(r), req' = [req EXCEPT ![c] = r]
  PROVE  RequestsOK'
  BY DEF RequestsOK, GoodRequest

\* An idle request is a good one.
LEMMA IdleOK == GoodRequest(Idle)
  BY ParametersAssumption DEF Idle, Request, Op, GoodRequest

\* A request is answered.
LEMMA AnswerOK ==
  ASSUME TInv, NEW c \in Caller, Answer(c)
  PROVE  RequestsOK'
  BY IdleOK, SetRequest DEF Answer, TInv

\* A request goes on.
LEMMA ProceedOK ==
  ASSUME TInv, NEW c \in Caller, req[c].exec \in Execution,
         NEW pc \in {"commit", "spawn", "session"},
         pc = "commit" => req[c].op # "retry", Proceed(c, pc)
  PROVE  RequestsOK'
  <1> DEFINE r == [req[c] EXCEPT !.pc = pc]
  <1>1. r \in Request /\ r.pc = pc /\ r.exec = req[c].exec /\ r.op = req[c].op
    BY DEF TInv, RequestsOK, Request
  <1>2. GoodRequest(r)
    BY <1>1 DEF GoodRequest
  <1> QED
    BY <1>2, SetRequest DEF Proceed, TInv

\* Every step of a request.
LEMMA RequestTInv ==
  ASSUME TInv, NEW c \in Caller, RequestStep(c) \/ NewRequest(c)
  PROVE  TInv'
  <1>0. /\ GoodRequest(req[c]) /\ req[c] \in Request
        /\ \A e \in Execution : row[e] \in Row
    BY DEF TInv, TypeOK, RequestsOK
  <1>1. CASE CancelTask(c)
    <2> DEFINE hit == {t \in Task : entry[req[c].exec] = t /\ task[t].pc \notin {"done", "free"}}
    <2>1. RequestsOK'
      BY <1>0, <1>1, ProceedOK DEF CancelTask, GoodRequest, RequestsOK
    <2>2. ASSUME NEW t \in Task
          PROVE  GoodTask(task'[t])
      <3>1. GoodTask(task[t])
        BY DEF TInv, TasksOK
      <3>2. GoodTask([task[t] EXCEPT !.cancelReq = TRUE])
        BY <3>1 DEF GoodTask, TaskRecord
      <3> QED
        BY <1>1, <3>1, <3>2 DEF CancelTask
    <2>3. TasksOK'
      BY <1>1, <2>2 DEF CancelTask, TasksOK, GoodTask
    <2> QED
      BY <1>1, <2>1, <2>3 DEF CancelTask, TInv, TypeOK, TasksOK, RequestsOK
  <1>2. CASE Recover(c)
    <2>1. RequestsOK'
      BY <1>0, <1>2, AnswerOK, ProceedOK DEF Recover, GoodRequest
    <2> QED
      BY <1>2, <2>1 DEF Recover, TInv, TypeOK, TasksOK, RequestsOK
  <1>3. CASE CommitRequest(c)
    <2> DEFINE e == req[c].exec
    <2>0. e \in Execution /\ row[e] \in Row
      BY <1>0, <1>3 DEF CommitRequest, GoodRequest
    <2>1. RequestsOK'
      BY <1>3, <2>0, AnswerOK, ProceedOK DEF CommitRequest
    <2>2. row' \in [Execution -> Row]
      <3>1. CASE UNCHANGED row
        BY <3>1 DEF TInv, TypeOK
      <3>2. CASE row' = [row EXCEPT ![e].cancelled = TRUE, ![e].state = "cancelled"]
        <4>1. [row[e] EXCEPT !.cancelled = TRUE, !.state = "cancelled"] \in Row
          BY <2>0 DEF Row, State
        <4>2. row' = [row EXCEPT ![e] = [row[e] EXCEPT !.cancelled = TRUE, !.state = "cancelled"]]
          BY <3>2
        <4> HIDE DEF e
        <4> QED
          BY <2>0, <4>1, <4>2, SetRow
      <3>3. ASSUME NEW s \in State, row' = [row EXCEPT ![e].state = s] PROVE row' \in [Execution -> Row]
        <4>1. [row[e] EXCEPT !.state = s] \in Row
          BY <2>0 DEF Row
        <4>2. row' = [row EXCEPT ![e] = [row[e] EXCEPT !.state = s]]
          BY <3>3
        <4> HIDE DEF e
        <4> QED
          BY <2>0, <4>1, <4>2, SetRow
      <3>4. CASE req[c].op = "retry" /\ row' = [row EXCEPT ![e].state = "queued", ![e].err = "none",
                                                   ![e].retries = req[c].retries + 1]
        <4> DEFINE k == req[c].retries + 1
        <4>1. k \in 0 .. MaxRetries /\ "queued" \in State
          BY <1>0, <1>3, <3>4, ParametersAssumption DEF CommitRequest, GoodRequest, Request, State
        <4>a. row' = [row EXCEPT ![e] = [row[e] EXCEPT !.state = "queued", !.err = "none",
                                                       !.retries = k]]
          BY <3>4
        <4> HIDE DEF k, e
        <4>2. [row[e] EXCEPT !.state = "queued", !.err = "none", !.retries = k] \in Row
          BY <2>0, <4>1 DEF Row
        <4> QED
          BY <2>0, <4>a, <4>2, SetRow
      <3> QED
        BY <1>3, <3>1, <3>2, <3>3, <3>4 DEF CommitRequest, State
    <2> QED
      BY <1>3, <2>1, <2>2 DEF CommitRequest, TInv, TypeOK, TasksOK, RequestsOK
  <1>4. CASE Spawn(c)
    <2>1. RequestsOK'
      BY <1>4, AnswerOK DEF Spawn
    <2>2. TasksOK' /\ entry' \in [Execution -> Task \cup {NoTask, Stale}]
      <3>1. CASE req[c].op = "resume"
        BY <1>4, <3>1 DEF Spawn, TInv, TypeOK, TasksOK
      <3>2. CASE req[c].op # "resume"
        <4>1. PICK t \in Task :
                /\ task' = [task EXCEPT ![t] = NewTask(req[c].exec, "load", req[c].op = "execute")]
                /\ entry' = [entry EXCEPT ![req[c].exec] = t]
          BY <1>4, <3>2 DEF Spawn
        <4>2. GoodTask(NewTask(req[c].exec, "load", req[c].op = "execute"))
          BY <1>0, <1>4, FreshTask DEF Spawn, GoodRequest, PC, InTry
        <4>3. TasksOK'
          BY <4>1, <4>2, SetTask DEF TInv
        <4> QED
          BY <4>1, <4>3 DEF TInv, TypeOK
      <3> QED
        BY <3>1, <3>2
    <2> QED
      BY <1>4, <2>1, <2>2 DEF Spawn, TInv, TypeOK, TasksOK, RequestsOK
  <1>5. CASE StopSession(c)
    BY <1>5, AnswerOK DEF StopSession, TInv, TypeOK, TasksOK, RequestsOK
  <1>6. ASSUME NEW e \in Execution, Execute(c, e) PROVE TInv'
    <2> DEFINE r == [Idle EXCEPT !.exec = e, !.pc = "spawn"]
    <2>1. GoodRequest(r)
      BY IdleOK DEF GoodRequest, Idle, Request
    <2>2. RequestsOK'
      BY <1>6, <2>1, SetRequest DEF Execute, TInv
    <2>3. NewRow("queued") \in Row
      BY ParametersAssumption DEF NewRow, Row, State
    <2>4. row' \in [Execution -> Row]
      BY <1>6, <2>3, SetRow DEF Execute
    <2> QED
      BY <1>6, <2>2, <2>4 DEF Execute, TInv, TypeOK, TasksOK, RequestsOK
  <1>7. ASSUME NEW op \in Op, NEW e \in Execution, Load(c, op, e) PROVE TInv'
    <2> DEFINE pc == IF op \in {"resume", "retry"} THEN "commit" ELSE "loaded"
               k == IF op = "recover" THEN row[e].ckpt ELSE -1
               n == IF op = "retry" THEN row[e].retries ELSE 0
               r == [op |-> op, exec |-> e, pc |-> pc, ckpt |-> k, retries |-> n]
    <2>1. /\ pc \in {"loaded", "commit"}
          /\ k \in -1 .. Steps - 1 /\ n \in 0 .. MaxRetries
          /\ op = "retry" => n < MaxRetries /\ pc = "commit"
      BY <1>0, <1>7, ParametersAssumption DEF Load, Accepts, CanRetry, Row
    <2>a. req' = [req EXCEPT ![c] = r]
      BY <1>7 DEF Load, AskFor
    <2> HIDE DEF pc, k, n
    <2>2. GoodRequest(r)
      BY <2>1 DEF GoodRequest, Request
    <2>3. RequestsOK'
      BY <2>a, <2>2, SetRequest DEF TInv
    <2> QED
      BY <1>7, <2>3 DEF Load, TInv, TypeOK, TasksOK, RequestsOK
  <1>8. CASE AskStop(c)
    <2> DEFINE r == [Idle EXCEPT !.op = "stop", !.pc = "session"]
    <2>1. GoodRequest(r)
      BY IdleOK DEF GoodRequest, Idle, Request, Op
    <2>2. RequestsOK'
      BY <1>8, <2>1, SetRequest DEF AskStop, TInv
    <2> QED
      BY <1>8, <2>2 DEF AskStop, TInv, TypeOK, TasksOK, RequestsOK
  <1>9. CASE DeleteSession(c)
    <2>1. NewRow("deleted") \in Row
      BY ParametersAssumption DEF NewRow, Row, State
    <2>2. row' \in [Execution -> Row]
      BY <1>0, <1>9, <2>1 DEF DeleteSession
    <2> QED
      BY <1>9, <2>2 DEF DeleteSession, TInv, TypeOK, TasksOK, RequestsOK
  <1> QED
    BY <1>1, <1>2, <1>3, <1>4, <1>5, <1>6, <1>7, <1>8, <1>9 DEF RequestStep, NewRequest

\* A crash.
LEMMA CrashTInv ==
  ASSUME TInv, Crash
  PROVE  TInv'
  <1>1. TasksOK'
    BY FreeTaskOK DEF Crash, TasksOK, GoodTask
  <1>2. RequestsOK'
    BY IdleOK DEF Crash, RequestsOK, GoodRequest
  <1>3. crashes' \in 0 .. MaxCrashes
    BY ParametersAssumption DEF Crash, TInv, TypeOK
  <1> QED
    BY <1>1, <1>2, <1>3 DEF Crash, TInv, TypeOK, TasksOK, RequestsOK

\* Every step of the system.
LEMMA NextTInv ==
  ASSUME TInv, [Next]_vars
  PROVE  TInv'
  <1>1. CASE Next
    BY <1>1, TaskTInv, RequestTInv, CrashTInv DEF Next
  <1>2. CASE UNCHANGED vars
    BY <1>2 DEF vars, TInv, TypeOK, TasksOK, RequestsOK
  <1> QED
    BY <1>1, <1>2

\* The inductive invariant behind TypeCorrect.
THEOREM Typed == Spec => []TInv
  BY InitTInv, NextTInv, PTL DEF Spec

\* Every variable keeps its type whatever requests, faults and crashes occur:
\* retries stay within max_retries, the loop within run_agents.
THEOREM TypeCorrect == Spec => []TypeOK
  <1>1. TInv => TypeOK
    BY DEF TInv
  <1> QED
    BY <1>1, Typed, PTL
=============================================================================
