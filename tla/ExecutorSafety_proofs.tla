------------------------ MODULE ExecutorSafety_proofs ------------------------
(***************************************************************************)
(* The safety invariants of Executor, and that it implements Pipeline, for *)
(* any executions, callers, agents, retries, faults and crashes.           *)
(*                                                                         *)
(* None of the invariants is inductive.  What makes them so is the row     *)
(* lock: a task that is about to commit a step holds it, so the row is not *)
(* deleted under it, and the steps before its loop index are recorded.     *)
(***************************************************************************)
EXTENDS Executor_proofs

\* Where a task may hold the row lock, and where it does hold it.
LockPC  == {"top", "ready", "agent", "commit", "finishing", "cancelling", "failing"}
OwnerPC == {"agent", "commit", "finishing", "failing"}

Succeeded(e) == \E i \in StepIndex : <<i, "completed">> \in steps[e]

Locking ==
  \A e \in Execution : lock[e] # NoTask =>
    /\ lock[e] \in Task
    /\ task[lock[e]].exec = e
    /\ task[lock[e]].pc \in LockPC
    /\ ~Gone(e)

\* What a task knows of the committed rows.
TaskSound(t) ==
  task[t].pc # "free" =>
    /\ row[Exec(t)].state # "absent"
    /\ task[t].pc \in OwnerPC => lock[Exec(t)] = t
    /\ ~Gone(Exec(t)) => \A i \in StepIndex : i < task[t].idx => i \in Recorded(Exec(t))
    /\ task[t].output /\ ~Gone(Exec(t)) =>
         \/ Succeeded(Exec(t))
         \/ task[t].pc = "commit" /\ task[t].result = "completed"
    /\ task[t].pc = "finishing" => task[t].output

RowSound(e) ==
  /\ row[e].state = "completed" => Recorded(e) = StepIndex /\ Succeeded(e)
  /\ \A i \in StepIndex : i <= row[e].ckpt => i \in Recorded(e)
  /\ row[e].state = "failed" => row[e].err # "none"
  /\ row[e].state \in {"absent", "deleted"} => row[e].ckpt = -1

RequestSound(c) ==
  req[c].pc \in {"loaded", "commit", "spawn"} => row[req[c].exec].state # "absent"

SInv ==
  /\ Locking
  /\ \A t \in Task : TaskSound(t)
  /\ \A e \in Execution : RowSound(e)
  /\ \A c \in Caller : RequestSound(c)

\* The steps of e grow, and its row neither appears nor disappears.
Grows(e) ==
  /\ steps[e] \subseteq steps'[e]
  /\ Gone(e)' <=> Gone(e)
  /\ row'[e].state = "absent" <=> row[e].state = "absent"

\* More committed steps: more recorded indexes, and a success stays one.
LEMMA RecordedGrows ==
  ASSUME NEW e \in Execution, steps[e] \subseteq steps'[e]
  PROVE  Recorded(e) \subseteq Recorded(e)' /\ (Succeeded(e) => Succeeded(e)')
  BY DEF Recorded, Succeeded

\* A row that is not written stays sound.
LEMMA RowKept ==
  ASSUME NEW e \in Execution, RowSound(e), row'[e] = row[e], steps[e] \subseteq steps'[e]
  PROVE  RowSound(e)'
  <1>1. Recorded(e) \subseteq Recorded(e)' /\ Recorded(e)' \subseteq StepIndex
    BY RecordedGrows DEF Recorded
  <1> QED
    BY <1>1, RecordedGrows DEF RowSound

\* A task that is not the one that moves keeps what it knows.
LEMMA OtherTask ==
  ASSUME TInv, NEW u \in Task, TaskSound(u), task'[u] = task[u],
         \A e \in Execution : Grows(e),
         \A e \in Execution : lock[e] = u => lock'[e] = u
  PROVE  TaskSound(u)'
  <1> SUFFICES ASSUME task[u].pc # "free" PROVE TaskSound(u)'
    BY DEF TaskSound
  <1>1. Exec(u) \in Execution /\ Exec(u)' = Exec(u)
    BY DEF TInv, TasksOK, GoodTask, Exec
  <1>2. Recorded(Exec(u)) \subseteq Recorded(Exec(u))' /\ (Succeeded(Exec(u)) => Succeeded(Exec(u))')
    BY <1>1, RecordedGrows DEF Grows
  <1>3. Grows(Exec(u))
    BY <1>1
  <1>4. Gone(Exec(u))' <=> Gone(Exec(u))
    BY <1>1, <1>3 DEF Grows
  <1> QED
    BY <1>1, <1>2, <1>3, <1>4 DEF TaskSound, Grows

\* Task t moves, takes the row lock or leaves it, and still knows what it must.
LEMMA TaskMoves ==
  ASSUME TInv, SInv, NEW t \in Task,
         \A u \in Task \ {t} : task'[u] = task[u],
         \A e \in Execution : Grows(e),
         \A e \in Execution : lock'[e] = lock[e] \/ (lock[e] \in {t, NoTask} /\ lock'[e] \in {t, NoTask}),
         \A e \in Execution : lock'[e] = t =>
            Exec(t)' = e /\ task'[t].pc \in LockPC /\ ~Gone(e),
         TaskSound(t)'
  PROVE  Locking' /\ \A u \in Task : TaskSound(u)'
  <1>1. ASSUME NEW u \in Task PROVE TaskSound(u)'
    <2>1. CASE u # t
      <3>1. \A e \in Execution : lock[e] = u => lock'[e] = u
        BY <2>1, ParametersAssumption
      <3> QED
        BY <2>1, <3>1, OtherTask DEF SInv
    <2> QED
      BY <2>1
  <1>2. ASSUME NEW e \in Execution, lock'[e] # NoTask
        PROVE  lock'[e] \in Task /\ task'[lock'[e]].exec = e /\ task'[lock'[e]].pc \in LockPC /\ ~Gone(e)'
    <2>1. CASE lock'[e] = t
      BY <2>1 DEF Exec, Grows
    <2>2. CASE lock'[e] # t
      <3>1. lock'[e] = lock[e] /\ lock[e] \in Task \ {t}
        BY <1>2, <2>2 DEF TInv, TypeOK
      <3> QED
        BY <1>2, <3>1 DEF SInv, Locking, Grows
    <2> QED
      BY <2>1, <2>2
  <1> QED
    BY <1>1, <1>2 DEF Locking

\* No lock is held by a task outside LockPC.
LEMMA Released ==
  ASSUME TInv, SInv, NEW t \in Task, task[t].pc \notin LockPC, UNCHANGED lock
  PROVE  Unlock(t)
  <1>1. \A e \in Execution : lock[e] # t
    BY ParametersAssumption DEF SInv, Locking
  <1>2. lock' = [e \in Execution |-> lock[e]]
    BY DEF TInv, TypeOK
  <1> QED
    BY <1>1, <1>2 DEF Unlock

\* Task t ends or enters a handler: it holds nothing and starts from nothing.
LEMMA TaskEnds ==
  ASSUME TInv, SInv, NEW t \in Task, task[t].pc # "free", NEW r,
         task' = [task EXCEPT ![t] = r], Unlock(t),
         r.pc \notin LockPC \cup {"finishing"}, r.idx = 0, ~r.output,
         r.pc # "free" => r.exec = task[t].exec,
         \A e \in Execution : Grows(e)
  PROVE  Locking' /\ \A u \in Task : TaskSound(u)'
  <1>1. task'[t] = r /\ \A u \in Task \ {t} : task'[u] = task[u]
    BY DEF TInv, TypeOK
  <1>2. \A e \in Execution : lock'[e] # t /\ (lock'[e] = lock[e] \/ (lock[e] = t /\ lock'[e] = NoTask))
    BY ParametersAssumption DEF Unlock
  <1>3. TaskSound(t)'
    <2> SUFFICES ASSUME r.pc # "free" PROVE TaskSound(t)'
      BY <1>1 DEF TaskSound
    <2>1. Exec(t)' = Exec(t) /\ Exec(t) \in Execution /\ row[Exec(t)].state # "absent"
      BY <1>1 DEF Exec, TInv, TasksOK, GoodTask, SInv, TaskSound
    <2>2. row'[Exec(t)].state # "absent"
      BY <2>1 DEF Grows
    <2>3. \A i \in StepIndex : ~(i < 0)
      BY ParametersAssumption DEF StepIndex
    <2> QED
      BY <1>1, <2>1, <2>2, <2>3 DEF TaskSound, LockPC, OwnerPC
  <1> QED
    BY <1>1, <1>2, <1>3, TaskMoves

\* The coroutine of t returns.
LEMMA ReturnEnds ==
  ASSUME TInv, SInv, NEW t \in Task, task[t].pc # "free", Return(t), Unlock(t),
         \A e \in Execution : Grows(e)
  PROVE  Locking' /\ \A u \in Task : TaskSound(u)'
  <1> DEFINE r == IF task[t].callback THEN NewTask(task[t].exec, "done", TRUE) ELSE FreeTask
  <1>1. task' = [task EXCEPT ![t] = r]
    BY DEF Return
  <1>2. /\ r.pc \notin LockPC \cup {"finishing"} /\ r.idx = 0 /\ ~r.output
        /\ r.pc # "free" => r.exec = task[t].exec
    BY DEF NewTask, FreeTask, LockPC
  <1> HIDE DEF r
  <1> QED
    BY <1>1, <1>2, TaskEnds

\* Rows, steps and requests that are left alone.
LEMMA Quiet ==
  ASSUME TInv, SInv, UNCHANGED <<row, steps, req>>
  PROVE  /\ \A e \in Execution : Grows(e)
         /\ \A e \in Execution : RowSound(e)'
         /\ \A c \in Caller : RequestSound(c)'
  <1>1. \A e \in Execution : Grows(e)
    BY DEF Grows, Gone
  <1>2. \A e \in Execution : RowSound(e)'
    BY RowKept DEF SInv
  <1> QED
    BY <1>1, <1>2 DEF SInv, RequestSound

\* Rows that neither appear nor disappear keep the requests sound.
LEMMA RequestsKept ==
  ASSUME TInv, SInv, UNCHANGED req, \A e \in Execution : Grows(e)
  PROVE  \A c \in Caller : RequestSound(c)'
  BY DEF SInv, RequestSound, Grows, TInv, RequestsOK, GoodRequest

\* A task that holds no lock returns.
LEMMA StopsSafe ==
  ASSUME TInv, SInv, NEW t \in Task, task[t].pc # "free", UNCHANGED <<row, steps, req>>,
         Return(t), UNCHANGED lock, task[t].pc \notin LockPC
  PROVE  SInv'
  BY Released, Quiet, ReturnEnds DEF SInv

\* A task raises: what it held is released.
LEMMA RaiseSafe ==
  ASSUME TInv, SInv, NEW t \in Task, task[t].pc # "free", UNCHANGED <<row, steps, req>>,
         NEW cls, Raise(t, cls)
  PROVE  SInv'
  <1> DEFINE r == [NewTask(task[t].exec, "error", task[t].callback) EXCEPT !.result = cls]
  <1>1. task' = [task EXCEPT ![t] = r]
    BY DEF Raise
  <1>2. /\ r.pc \notin LockPC \cup {"finishing"} /\ r.idx = 0 /\ ~r.output
        /\ r.exec = task[t].exec
    BY DEF NewTask, LockPC
  <1> HIDE DEF r
  <1> QED
    BY <1>1, <1>2, TaskEnds, Quiet DEF Raise, SInv

\* Task t goes on inside _run_execution; no row is written.
LEMMA GoesSafe ==
  ASSUME TInv, SInv, NEW t \in Task, task[t].pc # "free", UNCHANGED <<row, steps, req>>,
         NEW r, task' = [task EXCEPT ![t] = r],
         r.exec = task[t].exec, r.idx = task[t].idx, r.pc # "free", task[t].pc # "commit",
         r.output => task[t].output \/ (r.pc = "commit" /\ r.result = "completed"),
         r.pc = "finishing" => r.output,
         r.pc \in OwnerPC => lock'[Exec(t)] = t,
         \/ lock' = lock
         \/ CanLock(t) /\ ~Gone(Exec(t)) /\ lock' = [lock EXCEPT ![Exec(t)] = t],
         lock'[Exec(t)] = t => r.pc \in LockPC
  PROVE  SInv'
  <1>1. task'[t] = r /\ \A u \in Task \ {t} : task'[u] = task[u]
    BY DEF TInv, TypeOK
  <1>2. Exec(t) \in Execution /\ Exec(t)' = Exec(t)
    BY <1>1 DEF Exec, TInv, TasksOK, GoodTask
  <1>3. /\ \A e \in Execution : lock'[e] = lock[e] \/ (lock[e] \in {t, NoTask} /\ lock'[e] \in {t, NoTask})
        /\ \A e \in Execution : lock'[e] = t => Exec(t)' = e /\ task'[t].pc \in LockPC /\ ~Gone(e)
    <2>1. CASE lock' = lock
      BY <1>1, <1>2, <2>1, ParametersAssumption DEF SInv, Locking, Exec
    <2>2. CASE CanLock(t) /\ ~Gone(Exec(t)) /\ lock' = [lock EXCEPT ![Exec(t)] = t]
      <3>1. ASSUME NEW e \in Execution, e # Exec(t) PROVE lock'[e] = lock[e] /\ lock[e] # t
        BY <2>2, <3>1, ParametersAssumption DEF TInv, TypeOK, SInv, Locking, Exec
      <3>2. lock'[Exec(t)] = t /\ lock[Exec(t)] \in {t, NoTask}
        BY <1>2, <2>2 DEF CanLock, TInv, TypeOK
      <3> QED
        BY <1>1, <1>2, <2>2, <3>1, <3>2
    <2> QED
      BY <2>1, <2>2
  <1>4. TaskSound(t)'
    <2>1. TaskSound(t)
      BY DEF SInv
    <2>2. UNCHANGED <<Recorded(Exec(t)), Succeeded(Exec(t)), Gone(Exec(t)), row[Exec(t)]>>
      BY <1>2 DEF Recorded, Succeeded, Gone
    <2> QED
      BY <1>1, <1>2, <2>1, <2>2 DEF TaskSound
  <1> QED
    BY <1>1, <1>3, <1>4, Quiet, TaskMoves DEF SInv

\* The owner of the row lock: the row exists, and is not deleted.
LEMMA Owner ==
  ASSUME TInv, SInv, NEW t \in Task, task[t].pc # "free"
  PROVE  /\ Exec(t) \in Execution /\ row[Exec(t)].state # "absent"
         /\ task[t].pc \in OwnerPC => ~Gone(Exec(t))
         /\ lock[Exec(t)] = t => ~Gone(Exec(t))
  BY ParametersAssumption DEF SInv, Locking, TaskSound, TInv, TasksOK, GoodTask, Exec

\* Writing columns of a row leaves the other rows sound.
LEMMA WritesRow ==
  ASSUME TInv, SInv, NEW e \in Execution, NEW r, row' = [row EXCEPT ![e] = r],
         steps' = steps \/ \E x : steps' = [steps EXCEPT ![e] = @ \cup {x}],
         ~Gone(e), row[e].state # "absent", r.state \notin {"absent", "deleted"}, RowSound(e)'
  PROVE  /\ \A f \in Execution : Grows(f)
         /\ \A f \in Execution : RowSound(f)'
  <1>1. row'[e] = r /\ \A f \in Execution \ {e} : row'[f] = row[f]
    BY DEF TInv, TypeOK
  <1>2. \A f \in Execution : steps[f] \subseteq steps'[f]
    BY DEF TInv, TypeOK
  <1>3. \A f \in Execution : Grows(f)
    BY <1>1, <1>2 DEF Grows, Gone
  <1>4. ASSUME NEW f \in Execution, f # e PROVE RowSound(f)'
    BY <1>1, <1>2, <1>4, RowKept DEF SInv
  <1> QED
    BY <1>3, <1>4

\* The commit of a step: the row is its own, and the step follows the recorded ones.
LEMMA CommitStepSafe ==
  ASSUME TInv, SInv, NEW t \in Task, CommitStep(t)
  PROVE  SInv'
  <1>e. PICK e \in Execution : e = Exec(t)
    BY Owner DEF CommitStep, Sent
  <1> DEFINE k == task[t].idx
             p == IF k + 1 = Steps THEN "finish" ELSE "top"
             r == [task[t] EXCEPT !.pc = p, !.idx = k + 1, !.attempt = 0, !.result = "none"]
             w == [row[e] EXCEPT !.state = "working", !.ckpt = k]
  <1>0. /\ task[t].pc = "commit" /\ k \in StepIndex /\ task[t].result # "none"
        /\ task[t] \in TaskRecord /\ TaskSound(t) /\ row[e] \in Row
    <2>1. /\ task[t].pc = "commit" /\ GoodTask(task[t]) /\ TaskSound(t)
          /\ row \in [Execution -> Row]
      BY DEF CommitStep, Sent, TInv, TypeOK, TasksOK, SInv
    <2>2. k \in 0 .. Steps /\ k # Steps
      BY <2>1 DEF GoodTask, TaskRecord
    <2> QED
      BY <1>e, <2>1, <2>2, ParametersAssumption DEF GoodTask, StepIndex
  <1>1. e \in Execution /\ row[e].state # "absent" /\ ~Gone(e)
    BY <1>e, <1>0, Owner DEF OwnerPC
  <1>2. task' = [task EXCEPT ![t] = r] /\ row' = [row EXCEPT ![e] = w]
    BY <1>e DEF CommitStep
  <1>3. /\ r.exec = task[t].exec /\ r.idx = k + 1 /\ r.output = task[t].output
        /\ r.pc \in {"finish", "top"}
    BY <1>e, <1>0 DEF TaskRecord
  <1>4. w.state = "working" /\ w.ckpt = k
    BY <1>e, <1>0 DEF Row
  <1>5. steps'[e] = steps[e] \cup {<<k, task[t].result>>}
    BY <1>e, <1>1 DEF CommitStep, TInv, TypeOK
  <1>6. /\ \A i \in StepIndex : i <= k => i \in Recorded(e)'
        /\ Succeeded(e) \/ task[t].result = "completed" => Succeeded(e)'
    <2>1. task[t].result \in {"completed"} \cup ErrorClass
      BY <1>e, <1>0 DEF TaskRecord
    <2>2. k \in Recorded(e)'
      BY <1>e, <1>0, <1>5, <2>1 DEF Recorded
    <2>3. Recorded(e) \subseteq Recorded(e)'
      BY <1>e, <1>1, <1>5, RecordedGrows
    <2>4. \A i \in StepIndex : i <= k => i = k \/ i < k
      BY <1>e, <1>0 DEF StepIndex
    <2>5. \A i \in StepIndex : i < k => i \in Recorded(e)
      BY <1>e, <1>0, <1>1 DEF TaskSound
    <2> QED
      BY <1>e, <1>0, <1>5, <2>2, <2>3, <2>4, <2>5 DEF Succeeded
  <1> HIDE DEF r, w
  <1>7. row'[e] = w /\ task'[t] = r /\ \A u \in Task \ {t} : task'[u] = task[u]
    BY <1>e, <1>1, <1>2 DEF TInv, TypeOK
  <1>8. RowSound(e)'
    BY <1>e, <1>4, <1>6, <1>7 DEF RowSound
  <1>9. /\ \A f \in Execution : Grows(f)
        /\ \A f \in Execution : RowSound(f)'
    <2>1. \E x : steps' = [steps EXCEPT ![e] = @ \cup {x}]
      BY <1>e DEF CommitStep
    <2> QED
      BY <1>e, <1>1, <1>2, <1>4, <1>8, <2>1, WritesRow
  <1>10. TaskSound(t)'
    <2>1. Exec(t)' = e
      BY <1>e, <1>3, <1>7 DEF Exec
    <2>2. \A i \in StepIndex : i < k + 1 => i <= k
      BY <1>e, <1>0 DEF StepIndex
    <2>3. row'[e].state # "absent"
      BY <1>e, <1>4, <1>7
    <2>4. r.output /\ ~Gone(e) => Succeeded(e)'
      BY <1>e, <1>0, <1>1, <1>3, <1>6 DEF TaskSound
    <2> QED
      BY <1>e, <1>1, <1>3, <1>6, <1>7, <2>1, <2>2, <2>3, <2>4 DEF TaskSound, OwnerPC
  <1>11. \A f \in Execution : lock'[f] # t /\ (lock'[f] = lock[f] \/ (lock[f] = t /\ lock'[f] = NoTask))
    BY ParametersAssumption DEF CommitStep, Unlock
  <1>12. Locking' /\ \A u \in Task : TaskSound(u)'
    BY <1>e, <1>7, <1>9, <1>10, <1>11, TaskMoves
  <1>13. \A c \in Caller : RequestSound(c)'
    BY <1>e, <1>9, RequestsKept DEF CommitStep
  <1> QED
    BY <1>e, <1>9, <1>12, <1>13 DEF SInv

\* The commit of a step that failed for good.
LEMMA CommitStepFailureSafe ==
  ASSUME TInv, SInv, NEW t \in Task, CommitStepFailure(t)
  PROVE  SInv'
  <1>e. PICK e \in Execution : e = Exec(t)
    BY Owner DEF CommitStepFailure, Sent
  <1> DEFINE k == task[t].idx
             w == [row[e] EXCEPT !.state = "failed", !.ckpt = k, !.err = "step_failed"]
  <1>0. /\ task[t].pc = "failing" /\ k \in StepIndex /\ task[t].result # "none"
        /\ task[t] \in TaskRecord /\ TaskSound(t) /\ row[e] \in Row
    <2>1. /\ task[t].pc = "failing" /\ GoodTask(task[t]) /\ TaskSound(t)
          /\ row \in [Execution -> Row]
      BY DEF CommitStepFailure, Sent, TInv, TypeOK, TasksOK, SInv
    <2>2. k \in 0 .. Steps /\ k # Steps
      BY <2>1 DEF GoodTask, TaskRecord
    <2> QED
      BY <1>e, <2>1, <2>2, ParametersAssumption DEF GoodTask, StepIndex
  <1>1. e \in Execution /\ row[e].state # "absent" /\ ~Gone(e)
    BY <1>e, <1>0, Owner DEF OwnerPC
  <1>2. row' = [row EXCEPT ![e] = w]
    BY <1>e DEF CommitStepFailure
  <1>4. w.state = "failed" /\ w.ckpt = k /\ w.err = "step_failed"
    BY <1>e, <1>0 DEF Row
  <1>5. steps'[e] = steps[e] \cup {<<k, task[t].result>>}
    BY <1>e, <1>1 DEF CommitStepFailure, TInv, TypeOK
  <1>6. \A i \in StepIndex : i <= k => i \in Recorded(e)'
    <2>1. task[t].result \in {"completed"} \cup ErrorClass
      BY <1>e, <1>0 DEF TaskRecord
    <2>2. k \in Recorded(e)'
      BY <1>e, <1>0, <1>5, <2>1 DEF Recorded
    <2>3. Recorded(e) \subseteq Recorded(e)'
      BY <1>e, <1>1, <1>5, RecordedGrows
    <2>4. \A i \in StepIndex : i <= k => i = k \/ i < k
      BY <1>e, <1>0 DEF StepIndex
    <2>5. \A i \in StepIndex : i < k => i \in Recorded(e)
      BY <1>e, <1>0, <1>1 DEF TaskSound
    <2> QED
      BY <1>e, <2>2, <2>3, <2>4, <2>5
  <1> HIDE DEF w
  <1>7. row'[e] = w
    BY <1>e, <1>1, <1>2 DEF TInv, TypeOK
  <1>8. RowSound(e)'
    BY <1>e, <1>4, <1>6, <1>7 DEF RowSound
  <1>9. /\ \A f \in Execution : Grows(f)
        /\ \A f \in Execution : RowSound(f)'
    <2>1. \E x : steps' = [steps EXCEPT ![e] = @ \cup {x}]
      BY <1>e DEF CommitStepFailure
    <2> QED
      BY <1>e, <1>1, <1>2, <1>4, <1>8, <2>1, WritesRow
  <1> QED
    BY <1>e, <1>0, <1>9, ReturnEnds, RequestsKept DEF CommitStepFailure, SInv

\* COMPLETED is committed after the last step, of a row that exists.
LEMMA CommitCompletedSafe ==
  ASSUME TInv, SInv, NEW t \in Task, CommitCompleted(t)
  PROVE  SInv' /\ Recorded(Exec(t)) = StepIndex /\ ~Gone(Exec(t)) /\ Exec(t) \in Execution
  <1>e. PICK e \in Execution : e = Exec(t)
    BY Owner DEF CommitCompleted, Sent
  <1> DEFINE w == [row[e] EXCEPT !.state = "completed"]
  <1>0. /\ task[t].pc = "finishing" /\ task[t].idx = Steps
        /\ TaskSound(t) /\ row[e] \in Row /\ RowSound(e)
    BY <1>e, Owner DEF CommitCompleted, Sent, TInv, TypeOK, TasksOK, GoodTask, SInv
  <1>1. e \in Execution /\ row[e].state # "absent" /\ ~Gone(e)
    BY <1>e, <1>0, Owner DEF OwnerPC
  <1>2. row' = [row EXCEPT ![e] = w] /\ steps' = steps
    BY <1>e DEF CommitCompleted
  <1>3. w.state = "completed" /\ w.ckpt = row[e].ckpt
    BY <1>e, <1>0 DEF Row
  <1>4. Recorded(e) = StepIndex /\ Succeeded(e)
    <2>1. \A i \in StepIndex : i < Steps
      BY ParametersAssumption DEF StepIndex
    <2> QED
      BY <1>e, <1>0, <1>1, <2>1 DEF TaskSound, Recorded
  <1> HIDE DEF w
  <1>5. row'[e] = w
    BY <1>e, <1>1, <1>2 DEF TInv, TypeOK
  <1>6. RowSound(e)'
    BY <1>e, <1>0, <1>2, <1>3, <1>4, <1>5 DEF RowSound, Recorded, Succeeded
  <1>7. /\ \A f \in Execution : Grows(f)
        /\ \A f \in Execution : RowSound(f)'
    BY <1>e, <1>1, <1>2, <1>3, <1>6, WritesRow
  <1>8. SInv'
    BY <1>e, <1>0, <1>7, ReturnEnds, RequestsKept DEF CommitCompleted, SInv
  <1> QED
    BY <1>e, <1>1, <1>4, <1>8

\* CANCELLED is committed by the loop, which has looked at is_cancelled.
LEMMA CommitCancelledSafe ==
  ASSUME TInv, SInv, NEW t \in Task, CommitCancelled(t)
  PROVE  SInv'
  <1>e. PICK e \in Execution : e = Exec(t)
    BY Owner DEF CommitCancelled, Sent
  <1> DEFINE st == IF task[t].seen = "cancelled" THEN row[e].state ELSE "cancelled"
             w == [row[e] EXCEPT !.cancelled = TRUE, !.state = st]
  <1>0. /\ task[t].pc = "cancelling" /\ e \in Execution /\ row[e].state # "absent"
        /\ row[e] \in Row /\ RowSound(e)
    BY <1>e, Owner DEF CommitCancelled, Sent, TInv, TypeOK, SInv
  <1>1. CASE Gone(e)
    BY <1>e, <1>0, <1>1, RaiseSafe DEF CommitCancelled
  <1>2. CASE ~Gone(e)
    <2>1. row' = [row EXCEPT ![e] = w] /\ steps' = steps
      BY <1>e, <1>2 DEF CommitCancelled
    <2>2. /\ w.state = st /\ w.ckpt = row[e].ckpt /\ w.err = row[e].err
          /\ st \in {row[e].state, "cancelled"}
      BY <1>e, <1>0 DEF Row
    <2> HIDE DEF w, st
    <2>3. row'[e] = w
      BY <1>e, <1>0, <2>1 DEF TInv, TypeOK
    <2>4. RowSound(e)'
      BY <1>e, <1>0, <2>1, <2>2, <2>3 DEF RowSound, Recorded, Succeeded
    <2>5. /\ \A f \in Execution : Grows(f)
          /\ \A f \in Execution : RowSound(f)'
      BY <1>e, <1>0, <1>2, <2>1, <2>2, <2>4, WritesRow DEF Gone
    <2> QED
      BY <1>e, <1>0, <1>2, <2>5, ReturnEnds, RequestsKept DEF CommitCancelled, SInv
  <1> QED
    BY <1>e, <1>1, <1>2

\* _handle_error commits FAILED over whatever the row has become.
LEMMA CommitErrorSafe ==
  ASSUME TInv, SInv, NEW t \in Task, CommitError(t)
  PROVE  SInv'
  <1>e. PICK e \in Execution : e = Exec(t)
    BY Owner DEF CommitError, Sent
  <1> DEFINE st == IF task[t].seen = "failed" THEN row[e].state ELSE "failed"
             w == [row[e] EXCEPT !.err = task[t].result, !.state = st]
  <1>0. /\ task[t].pc = "erroring" /\ e \in Execution /\ row[e].state # "absent"
        /\ row[e] \in Row /\ RowSound(e) /\ task[t].result \in ErrorClass
    BY <1>e, Owner DEF CommitError, Sent, TInv, TypeOK, TasksOK, GoodTask, SInv
  <1>1. CASE Gone(e)
    BY <1>e, <1>0, <1>1, StopsSafe DEF CommitError, LockPC
  <1>2. CASE ~Gone(e)
    <2>1. row' = [row EXCEPT ![e] = w] /\ steps' = steps
      BY <1>e, <1>2 DEF CommitError
    <2>2. /\ w.state = st /\ w.ckpt = row[e].ckpt /\ w.err # "none"
          /\ st \in {row[e].state, "failed"}
      BY <1>e, <1>0 DEF Row, ErrorClass
    <2> HIDE DEF w, st
    <2>3. row'[e] = w
      BY <1>e, <1>0, <2>1 DEF TInv, TypeOK
    <2>4. RowSound(e)'
      BY <1>e, <1>0, <2>1, <2>2, <2>3 DEF RowSound, Recorded, Succeeded
    <2>5. /\ \A f \in Execution : Grows(f)
          /\ \A f \in Execution : RowSound(f)'
      BY <1>e, <1>0, <1>2, <2>1, <2>2, <2>4, WritesRow DEF Gone
    <2>6. Unlock(t)
      BY <1>e, <1>0, Released DEF CommitError, LockPC
    <2> QED
      BY <1>e, <1>0, <1>2, <2>5, <2>6, ReturnEnds, RequestsKept DEF CommitError, SInv
  <1> QED
    BY <1>e, <1>1, <1>2

\* Every step of a background task.
LEMMA TaskSInv ==
  ASSUME TInv, SInv, NEW t \in Task,
         TaskStep(t) \/ \E cls \in {"unknown", "permanent"} : DatabaseFault(t, cls)
  PROVE  SInv'
  <1> DEFINE pc == task[t].pc
  <1>0. /\ task[t] \in TaskRecord
        /\ pc # "free" => Exec(t) \in Execution /\ lock[Exec(t)] \in Task \cup {NoTask}
        /\ pc # "free" => [lock EXCEPT ![Exec(t)] = t][Exec(t)] = t
        /\ lock[Exec(t)] = t /\ pc # "free" => pc \in LockPC
    BY ParametersAssumption DEF TInv, TypeOK, TasksOK, GoodTask, Exec, SInv, Locking
  <1> USE DEF At, Sent
  <1>1. CASE Begin(t)
    <2>1. CASE Gone(Exec(t))
      BY <1>1, <2>1, StopsSafe DEF Begin, LockPC
    <2>2. CASE ~Gone(Exec(t))
      <3> DEFINE r == [task[t] EXCEPT !.pc = "starting"]
      <3>1. r.exec = task[t].exec /\ r.idx = task[t].idx /\ r.pc = "starting" /\ r.output = task[t].output
        BY <1>0 DEF TaskRecord
      <3>2. task' = [task EXCEPT ![t] = r]
        BY <1>1, <2>2 DEF Begin, GoTo
      <3> HIDE DEF r
      <3> QED
        BY <1>0, <1>1, <2>2, <3>1, <3>2, GoesSafe DEF Begin, LockPC, OwnerPC
    <2> QED
      BY <2>1, <2>2
  <1>2. CASE Start(t)
    <2>1. CASE Gone(Exec(t))
      BY <1>2, <2>1, RaiseSafe DEF Start
    <2>2. CASE ~Gone(Exec(t))
      <3> DEFINE r == [task[t] EXCEPT !.pc = "top"]
      <3>1. r.exec = task[t].exec /\ r.idx = task[t].idx /\ r.pc = "top" /\ r.output = task[t].output
        BY <1>0 DEF TaskRecord
      <3>2. task' = [task EXCEPT ![t] = r]
        BY <1>2, <2>2 DEF Start, GoTo
      <3> HIDE DEF r
      <3> QED
        BY <1>0, <1>2, <2>2, <3>1, <3>2, GoesSafe DEF Start, LockPC, OwnerPC
    <2> QED
      BY <2>1, <2>2
  <1>3. CASE Refresh(t)
    <2>1. CASE Gone(Exec(t))
      BY <1>3, <2>1, RaiseSafe DEF Refresh
    <2>2. CASE ~Gone(Exec(t)) /\ row[Exec(t)].cancelled
      <3> DEFINE st == IF lock[Exec(t)] = t THEN "starting" ELSE row[Exec(t)].state
                 r == [task[t] EXCEPT !.pc = "cancelling", !.seen = st]
      <3>1. r.exec = task[t].exec /\ r.idx = task[t].idx /\ r.pc = "cancelling" /\ r.output = task[t].output
        BY <1>0 DEF TaskRecord
      <3>2. task' = [task EXCEPT ![t] = r]
        BY <1>3, <2>2 DEF Refresh
      <3> HIDE DEF r
      <3> QED
        BY <1>0, <1>3, <2>2, <3>1, <3>2, GoesSafe DEF Refresh, LockPC, OwnerPC
    <2>3. CASE ~Gone(Exec(t)) /\ ~row[Exec(t)].cancelled
      <3> DEFINE r == [task[t] EXCEPT !.pc = "ready"]
      <3>1. r.exec = task[t].exec /\ r.idx = task[t].idx /\ r.pc = "ready" /\ r.output = task[t].output
        BY <1>0 DEF TaskRecord
      <3>2. task' = [task EXCEPT ![t] = r]
        BY <1>3, <2>3 DEF Refresh, GoTo
      <3> HIDE DEF r
      <3> QED
        BY <1>0, <1>3, <2>3, <3>1, <3>2, GoesSafe DEF Refresh, LockPC, OwnerPC
    <2> QED
      BY <2>1, <2>2, <2>3
  <1>4. CASE BeginStep(t)
    <2>1. CASE Raise(t, "unknown")
      BY <1>4, <2>1, RaiseSafe DEF BeginStep
    <2>2. CASE ~Raise(t, "unknown")
      <3> DEFINE r == [task[t] EXCEPT !.pc = "agent", !.attempt = 0]
      <3>1. r.exec = task[t].exec /\ r.idx = task[t].idx /\ r.pc = "agent" /\ r.output = task[t].output
        BY <1>0 DEF TaskRecord
      <3>2. task' = [task EXCEPT ![t] = r]
        BY <1>4, <2>2 DEF BeginStep
      <3> HIDE DEF r
      <3> QED
        <4>1. /\ pc = "ready" /\ CanLock(t) /\ ~Gone(Exec(t))
              /\ lock' = [lock EXCEPT ![Exec(t)] = t] /\ UNCHANGED <<row, steps, req>>
          BY <1>4, <2>2 DEF BeginStep
        <4> QED
          BY <1>0, <3>1, <3>2, <4>1, GoesSafe DEF LockPC
    <2> QED
      BY <2>1, <2>2
  <1>5. CASE AgentSucceeds(t)
    <2>1. PICK b \in BOOLEAN : task' = [task EXCEPT ![t].pc = "commit", ![t].result = "completed",
                                                  ![t].output = b]
      BY <1>5 DEF AgentSucceeds
    <2> DEFINE r == [task[t] EXCEPT !.pc = "commit", !.result = "completed", !.output = b]
    <2>2. r.exec = task[t].exec /\ r.idx = task[t].idx /\ r.pc = "commit" /\ r.result = "completed"
      BY <1>0 DEF TaskRecord
    <2>3. task' = [task EXCEPT ![t] = r] /\ lock[Exec(t)] = t
      BY <1>5, <2>1 DEF AgentSucceeds, SInv, TaskSound, OwnerPC
    <2> HIDE DEF r
    <2> QED
      BY <1>0, <1>5, <2>2, <2>3, GoesSafe DEF AgentSucceeds, LockPC
  <1>6. ASSUME NEW cls \in ErrorClass, AgentFails(t, cls) PROVE SInv'
    <2> DEFINE again == cls = "transient" /\ task[t].attempt < MaxRetries
               p == IF cls = "transient" THEN "commit" ELSE "failing"
               r == IF again THEN [task[t] EXCEPT !.attempt = @ + 1]
                             ELSE [task[t] EXCEPT !.result = cls, !.pc = p]
    <2>1. /\ r.exec = task[t].exec /\ r.idx = task[t].idx /\ r.pc \in {"agent", "commit", "failing"}
          /\ r.output = task[t].output
      BY <1>0, <1>6 DEF AgentFails, TaskRecord
    <2>2. task' = [task EXCEPT ![t] = r] /\ lock[Exec(t)] = t
      BY <1>6 DEF AgentFails, SInv, TaskSound, OwnerPC
    <2> HIDE DEF r
    <2> QED
      BY <1>0, <1>6, <2>1, <2>2, GoesSafe DEF AgentFails, LockPC
  <1>9. CASE Finish(t)
    <2>1. CASE ~task[t].output \/ Gone(Exec(t))
      BY <1>9, <2>1, RaiseSafe DEF Finish
    <2>2. CASE task[t].output /\ ~Gone(Exec(t))
      <3> DEFINE r == [task[t] EXCEPT !.pc = "finishing"]
      <3>1. r.exec = task[t].exec /\ r.idx = task[t].idx /\ r.pc = "finishing" /\ r.output = task[t].output
        BY <1>0 DEF TaskRecord
      <3>2. task' = [task EXCEPT ![t] = r]
        BY <1>9, <2>2 DEF Finish, GoTo
      <3> HIDE DEF r
      <3> QED
        BY <1>0, <1>9, <2>2, <3>1, <3>2, GoesSafe DEF Finish, LockPC, OwnerPC
    <2> QED
      BY <2>1, <2>2
  <1>12. CASE LoadError(t)
    <2>1. CASE Gone(Exec(t))
      BY <1>12, <2>1, StopsSafe DEF LoadError, LockPC
    <2>2. CASE ~Gone(Exec(t))
      <3> DEFINE r == [task[t] EXCEPT !.pc = "erroring", !.seen = row[Exec(t)].state]
      <3>1. r.exec = task[t].exec /\ r.idx = task[t].idx /\ r.pc = "erroring" /\ r.output = task[t].output
        BY <1>0 DEF TaskRecord
      <3>2. task' = [task EXCEPT ![t] = r]
        BY <1>12, <2>2 DEF LoadError
      <3> HIDE DEF r
      <3> QED
        BY <1>0, <1>12, <2>2, <3>1, <3>2, GoesSafe DEF LoadError, LockPC, OwnerPC
    <2> QED
      BY <2>1, <2>2
  <1>14. CASE Unwind(t)
    <2>1. CASE pc \in InTry
      <3> DEFINE r == NewTask(task[t].exec, "unwind", task[t].callback)
      <3>1. r.exec = task[t].exec /\ r.idx = 0 /\ r.pc = "unwind" /\ ~r.output
        BY DEF NewTask
      <3>2. task' = [task EXCEPT ![t] = r]
        BY <1>14, <2>1 DEF Unwind, InTry
      <3> HIDE DEF r
      <3> QED
        BY <1>14, <2>1, <3>1, <3>2, TaskEnds, Quiet DEF Unwind, InTry, LockPC, SInv
    <2>2. CASE pc \notin InTry
      BY <1>14, <2>2, StopsSafe DEF Unwind, LockPC
    <2> QED
      BY <2>1, <2>2
  <1>15. CASE HandleCancellationById(t)
    BY <1>15, StopsSafe DEF HandleCancellationById, LockPC
  <1>16. CASE DoneCallback(t)
    <2>1. FreeTask.pc = "free" /\ FreeTask.idx = 0 /\ ~FreeTask.output
      BY DEF FreeTask, NewTask
    <2>2. Unlock(t)
      BY <1>16, Released DEF DoneCallback, LockPC
    <2> QED
      BY <1>16, <2>1, <2>2, TaskEnds, Quiet DEF DoneCallback, LockPC, SInv
  <1>17. ASSUME NEW cls \in {"unknown", "permanent"}, DatabaseFault(t, cls) PROVE SInv'
    <2>1. CASE pc \in InTry
      BY <1>17, <2>1, RaiseSafe DEF DatabaseFault, InTry
    <2>2. CASE pc \notin InTry
      BY <1>17, <2>2, StopsSafe DEF DatabaseFault, LockPC
    <2> QED
      BY <2>1, <2>2
  <1> QED
    BY <1>1, <1>2, <1>3, <1>4, <1>5, <1>6, <1>9, <1>12, <1>14, <1>15, <1>16, <1>17,
       CommitStepSafe, CommitStepFailureSafe, CommitCompletedSafe, CommitCancelledSafe,
       CommitErrorSafe DEF TaskStep

\* Requests that leave every task where it is.
LEMMA TasksKept ==
  ASSUME TInv, SInv, UNCHANGED <<task, lock>>, \A e \in Execution : Grows(e)
  PROVE  Locking' /\ \A t \in Task : TaskSound(t)'
  BY OtherTask DEF SInv, Locking, Grows

\* Every step of a request.
LEMMA RequestSInv ==
  ASSUME TInv, SInv, NEW c \in Caller, RequestStep(c) \/ NewRequest(c)
  PROVE  SInv'
  <1>0. /\ GoodRequest(req[c]) /\ req[c] \in Request
        /\ \A d \in Caller : GoodRequest(req[d]) /\ RequestSound(d)
        /\ \A e \in Execution : row[e] \in Row /\ RowSound(e)
    BY DEF TInv, TypeOK, RequestsOK, SInv
  <1>a. ASSUME UNCHANGED row, Answer(c) \/ \E pc : Proceed(c, pc) /\ req[c].pc \in {"loaded", "commit"}
        PROVE \A d \in Caller : RequestSound(d)'
    BY <1>0, <1>a DEF Answer, Proceed, RequestSound, Idle, TInv, RequestsOK, Request
  <1>1. CASE CancelTask(c)
    <2>1. \A e \in Execution : Grows(e) /\ RowSound(e)'
      BY <1>0, <1>1, RowKept DEF CancelTask, Grows, Gone
    <2>2. \A d \in Caller : RequestSound(d)'
      BY <1>1, <1>a DEF CancelTask
    <2>3. ASSUME NEW t \in Task
          PROVE /\ task'[t].exec = task[t].exec /\ task'[t].pc = task[t].pc /\ task'[t].idx = task[t].idx
                /\ task'[t].output = task[t].output /\ task'[t].result = task[t].result
      BY <1>1 DEF CancelTask, TInv, TasksOK, TaskRecord
    <2>4. Locking' /\ \A t \in Task : TaskSound(t)'
      <3>1. ASSUME NEW t \in Task PROVE TaskSound(t)'
        <4>1. TaskSound(t)
          BY DEF SInv
        <4>2. /\ Exec(t)' = Exec(t)
              /\ UNCHANGED <<Recorded(Exec(t)), Succeeded(Exec(t)), Gone(Exec(t)), row[Exec(t)], lock[Exec(t)]>>
          BY <1>1, <2>3 DEF CancelTask, Recorded, Succeeded, Gone, Exec
        <4> QED
          BY <2>3, <4>1, <4>2 DEF TaskSound
      <3>2. Locking'
        BY <1>1, <2>3 DEF CancelTask, SInv, Locking, Gone
      <3> QED
        BY <3>1, <3>2
    <2> QED
      BY <2>1, <2>2, <2>4 DEF SInv
  <1>2. CASE Recover(c)
    <2>1. \A e \in Execution : Grows(e) /\ RowSound(e)'
      BY <1>0, <1>2, RowKept DEF Recover, Grows, Gone
    <2>2. \A d \in Caller : RequestSound(d)'
      BY <1>2, <1>a DEF Recover
    <2> QED
      BY <1>2, <2>1, <2>2, TasksKept DEF Recover, SInv
  <1>3. CASE CommitRequest(c)
    <2> DEFINE e == req[c].exec
    <2>0. e \in Execution /\ row[e] \in Row /\ row[e].state # "absent" /\ UNCHANGED steps
      BY <1>0, <1>3 DEF CommitRequest, GoodRequest, RequestSound
    <2>1. \A f \in Execution : Grows(f) /\ RowSound(f)'
      <3>1. CASE UNCHANGED row
        BY <1>0, <2>0, <3>1, RowKept DEF Grows, Gone
      <3>2. CASE ~UNCHANGED row
        <4>0. PICK f \in Execution : f = e
          BY <2>0
        <4>1. PICK r : /\ row' = [row EXCEPT ![e] = r]
                       /\ r.state \in {"cancelled", "paused", "resuming", "queued"}
                       /\ r.ckpt = row[e].ckpt
          <5>1. CASE row' = [row EXCEPT ![e].cancelled = TRUE, ![e].state = "cancelled"]
            <6> DEFINE r == [row[e] EXCEPT !.cancelled = TRUE, !.state = "cancelled"]
            <6>1. row' = [row EXCEPT ![e] = r]
              BY <5>1
            <6>2. r.state = "cancelled" /\ r.ckpt = row[e].ckpt
              BY <2>0 DEF Row
            <6> QED
              BY <6>1, <6>2
          <5>2. ASSUME NEW s \in {"paused", "resuming", "queued"}, row' = [row EXCEPT ![e].state = s]
                PROVE \E r : /\ row' = [row EXCEPT ![e] = r]
                             /\ r.state \in {"cancelled", "paused", "resuming", "queued"}
                             /\ r.ckpt = row[e].ckpt
            <6> DEFINE r == [row[e] EXCEPT !.state = s]
            <6>1. row' = [row EXCEPT ![e] = r]
              BY <5>2
            <6>2. r.state = s /\ r.ckpt = row[e].ckpt
              BY <2>0 DEF Row
            <6> QED
              BY <6>1, <6>2
          <5>3. CASE row' = [row EXCEPT ![e].state = "queued", ![e].err = "none",
                                        ![e].retries = req[c].retries + 1]
            <6> DEFINE r == [row[e] EXCEPT !.state = "queued", !.err = "none",
                                           !.retries = req[c].retries + 1]
            <6>1. row' = [row EXCEPT ![e] = r]
              BY <5>3
            <6>2. r.state = "queued" /\ r.ckpt = row[e].ckpt
              BY <2>0 DEF Row
            <6> QED
              BY <6>1, <6>2
          <5> QED
            BY <1>3, <3>2, <5>1, <5>2, <5>3 DEF CommitRequest
        <4>2. ~Gone(e)
          BY <1>3, <3>2 DEF CommitRequest
        <4>3. row'[f] = r
          BY <4>0, <4>1 DEF TInv, TypeOK
        <4>4. RowSound(f)'
          BY <1>0, <2>0, <4>0, <4>1, <4>3 DEF RowSound, Recorded, Succeeded
        <4> QED
          BY <2>0, <4>0, <4>1, <4>2, <4>4, WritesRow
      <3> QED
        BY <3>1, <3>2
    <2>2. \A d \in Caller : RequestSound(d)'
      <3>1. ASSUME NEW d \in Caller, req'[d].pc \in {"loaded", "commit", "spawn"}
            PROVE  row'[req'[d].exec].state # "absent"
        <4>1. req'[d].exec = req[d].exec /\ req[d].pc \in {"loaded", "commit", "spawn"}
          <5>1. Idle.pc = "idle" /\ req[c] \in Request /\ req \in [Caller -> Request]
            BY <1>0 DEF Idle, TInv, RequestsOK
          <5>2. req[c].pc = "commit" /\ (Answer(c) \/ \E pc : Proceed(c, pc))
            BY <1>3 DEF CommitRequest
          <5>3. CASE Answer(c)
            BY <3>1, <5>1, <5>2, <5>3 DEF Answer
          <5>4. CASE \E pc : Proceed(c, pc)
            BY <3>1, <5>1, <5>2, <5>4 DEF Proceed, Request
          <5> QED
            BY <5>2, <5>3, <5>4
        <4> QED
          BY <1>0, <2>1, <4>1 DEF Grows, RequestSound, GoodRequest
      <3> QED
        BY <3>1 DEF RequestSound
    <2> QED
      BY <1>3, <2>1, <2>2, TasksKept DEF CommitRequest, SInv
  <1>4. CASE Spawn(c)
    <2> DEFINE e == req[c].exec
    <2>0. e \in Execution /\ row[e].state # "absent"
      BY <1>0, <1>4 DEF Spawn, GoodRequest, RequestSound
    <2>1. \A f \in Execution : Grows(f) /\ RowSound(f)'
      BY <1>0, <1>4, RowKept DEF Spawn, Grows, Gone
    <2>2. \A d \in Caller : RequestSound(d)'
      BY <1>4, <1>a DEF Spawn
    <2>3. Locking' /\ \A t \in Task : TaskSound(t)'
      <3>1. CASE UNCHANGED task
        BY <1>4, <2>1, <3>1, TasksKept DEF Spawn
      <3>2. CASE ~UNCHANGED task
        <4>1. PICK t \in Task : /\ task[t].pc = "free"
                                /\ task' = [task EXCEPT ![t] = NewTask(e, "load", req[c].op = "execute")]
          BY <1>4, <3>2 DEF Spawn
        <4>2. task'[t].exec = e /\ task'[t].pc = "load" /\ task'[t].idx = 0 /\ ~task'[t].output
          BY <4>1 DEF NewTask, TInv, TypeOK
        <4>3. TaskSound(t)'
          <5>1. \A i \in StepIndex : ~(i < 0)
            BY ParametersAssumption DEF StepIndex
          <5>2. Exec(t)' = e /\ row' = row
            BY <1>4, <4>2 DEF Spawn, Exec
          <5> QED
            BY <2>0, <4>2, <5>1, <5>2 DEF TaskSound, OwnerPC
        <4>4. \A u \in Task \ {t} : task'[u] = task[u]
          BY <4>1
        <4>5. \A f \in Execution : lock'[f] = lock[f] /\ lock[f] # t
          BY <1>4, <4>1, ParametersAssumption DEF Spawn, SInv, Locking, LockPC
        <4> QED
          BY <2>1, <4>3, <4>4, <4>5, TaskMoves
      <3> QED
        BY <3>1, <3>2
    <2> QED
      BY <2>1, <2>2, <2>3 DEF SInv
  <1>5. CASE StopSession(c)
    <2>1. \A e \in Execution : Grows(e) /\ RowSound(e)'
      BY <1>0, <1>5, RowKept DEF StopSession, Grows, Gone
    <2> QED
      BY <1>5, <1>a, <2>1, TasksKept DEF StopSession, SInv
  <1>6. ASSUME NEW e \in Execution, Execute(c, e) PROVE SInv'
    <2>1. row'[e] = NewRow("queued") /\ \A f \in Execution \ {e} : row'[f] = row[f]
      BY <1>6 DEF Execute, TInv, TypeOK
    <2>2. \A f \in Execution : RowSound(f)'
      <3>1. RowSound(e)'
        BY <2>1, ParametersAssumption DEF RowSound, NewRow, StepIndex
      <3>2. ASSUME NEW f \in Execution \ {e} PROVE RowSound(f)'
        BY <1>0, <1>6, <2>1, RowKept DEF Execute
      <3> QED
        BY <3>1, <3>2
    <2>3. \A t \in Task : task[t].pc # "free" => Exec(t) \in Execution \ {e}
      BY <1>6 DEF Execute, SInv, TaskSound, TInv, TasksOK, GoodTask, Exec
    <2>4. \A t \in Task : TaskSound(t)'
      <3> SUFFICES ASSUME NEW t \in Task, task[t].pc # "free" PROVE TaskSound(t)'
        BY <1>6 DEF Execute, TaskSound
      <3>1. /\ Exec(t)' = Exec(t) /\ task' = task
            /\ UNCHANGED <<Recorded(Exec(t)), Succeeded(Exec(t)), Gone(Exec(t)), row[Exec(t)], lock[Exec(t)]>>
        BY <1>6, <2>1, <2>3 DEF Execute, Recorded, Succeeded, Gone, Exec
      <3>2. TaskSound(t)
        BY DEF SInv
      <3> QED
        BY <3>1, <3>2 DEF TaskSound
    <2>5. Locking'
      BY <1>6, <2>1 DEF Execute, SInv, Locking, Gone, NewRow
    <2>6. \A d \in Caller : RequestSound(d)'
      <3>1. ASSUME NEW d \in Caller \ {c} PROVE RequestSound(d)'
        <4>1. req'[d] = req[d]
          BY <1>6 DEF Execute
        <4> QED
          BY <1>0, <1>6, <2>1, <4>1 DEF RequestSound, GoodRequest, NewRow
      <3>2. RequestSound(c)'
        BY <1>6, <2>1 DEF Execute, RequestSound, Idle, NewRow, TInv, RequestsOK
      <3> QED
        BY <3>1, <3>2
    <2> QED
      BY <2>2, <2>4, <2>5, <2>6 DEF SInv
  <1>7. ASSUME NEW op \in Op, NEW e \in Execution, Load(c, op, e) PROVE SInv'
    <2>1. \A f \in Execution : Grows(f) /\ RowSound(f)'
      BY <1>0, <1>7, RowKept DEF Load, Grows, Gone
    <2>2. row[e].state # "absent"
      BY <1>7 DEF Load, Accepts, CanRetry, Present, Running
    <2>3. \A d \in Caller : RequestSound(d)'
      BY <1>0, <1>7, <2>2 DEF Load, AskFor, RequestSound, TInv, RequestsOK
    <2> QED
      BY <1>7, <2>1, <2>3, TasksKept DEF Load, SInv
  <1>8. CASE AskStop(c)
    <2>1. \A e \in Execution : Grows(e) /\ RowSound(e)'
      BY <1>0, <1>8, RowKept DEF AskStop, Grows, Gone
    <2>2. \A d \in Caller : RequestSound(d)'
      BY <1>0, <1>8 DEF AskStop, RequestSound, Idle, TInv, RequestsOK
    <2> QED
      BY <1>8, <2>1, <2>2, TasksKept DEF AskStop, SInv
  <1>9. CASE DeleteSession(c)
    <2>1. \A e \in Execution : /\ row[e].state \in Present => row'[e] = NewRow("deleted")
                               /\ row[e].state \notin Present => row'[e] = row[e]
      BY <1>9 DEF DeleteSession
    <2>2. \A e \in Execution : row'[e].state = "absent" <=> row[e].state = "absent"
      BY <2>1 DEF NewRow, Present
    <2>3. ASSUME NEW e \in Execution PROVE row'[e].state \in {"absent", "deleted"} /\ row'[e].ckpt = -1
      <3>1. CASE row[e].state \in Present
        BY <2>1, <3>1 DEF NewRow
      <3>2. CASE row[e].state \notin Present
        BY <1>0, <2>1, <3>2 DEF Row, Present, RowSound
      <3> QED
        BY <3>1, <3>2
    <2>4. \A e \in Execution : RowSound(e)'
      BY <2>3, ParametersAssumption DEF RowSound, StepIndex
    <2>5. \A t \in Task : TaskSound(t)'
      <3> SUFFICES ASSUME NEW t \in Task, task[t].pc # "free" PROVE TaskSound(t)'
        BY <1>9 DEF DeleteSession, TaskSound
      <3>1. /\ Exec(t)' = Exec(t) /\ task' = task /\ Exec(t) \in Execution
            /\ row[Exec(t)].state # "absent" /\ TaskSound(t)
        BY <1>9 DEF DeleteSession, Exec, TInv, TasksOK, GoodTask, SInv, TaskSound
      <3>2. Gone(Exec(t))'
        BY <2>2, <2>3, <3>1 DEF Gone
      <3>3. task[t].pc \notin OwnerPC
        BY <1>9, <3>1, ParametersAssumption DEF DeleteSession, TaskSound
      <3> QED
        BY <2>2, <3>1, <3>2, <3>3 DEF TaskSound
    <2>6. Locking'
      BY <1>9 DEF DeleteSession, Locking
    <2>7. \A d \in Caller : RequestSound(d)'
      BY <1>0, <1>9, <2>2 DEF DeleteSession, RequestSound, GoodRequest
    <2> QED
      BY <2>4, <2>5, <2>6, <2>7 DEF SInv
  <1> QED
    BY <1>1, <1>2, <1>3, <1>4, <1>5, <1>6, <1>7, <1>8, <1>9 DEF RequestStep, NewRequest

\* A crash leaves what is committed.
LEMMA CrashSInv ==
  ASSUME TInv, SInv, Crash
  PROVE  SInv'
  <1>1. \A e \in Execution : RowSound(e)'
    BY RowKept DEF Crash, SInv
  <1>2. \A t \in Task : task'[t].pc = "free"
    BY DEF Crash, FreeTask, NewTask
  <1>3. \A c \in Caller : req'[c].pc = "idle"
    BY DEF Crash, Idle
  <1> QED
    BY <1>1, <1>2, <1>3 DEF Crash, SInv, Locking, TaskSound, RequestSound

\* No row, no task, no request.
LEMMA InitSInv == Init => SInv
  <1> SUFFICES ASSUME Init PROVE SInv
    OBVIOUS
  <1>1. \A t \in Task : task[t].pc = "free"
    BY DEF Init, FreeTask, NewTask
  <1>2. \A c \in Caller : req[c].pc = "idle"
    BY DEF Init, Idle
  <1>3. \A e \in Execution : row[e].state = "absent" /\ row[e].ckpt = -1
    BY DEF Init, NewRow
  <1>4. \A e \in Execution : RowSound(e)
    BY <1>3, ParametersAssumption DEF RowSound, StepIndex
  <1> QED
    BY <1>1, <1>2, <1>4 DEF Init, SInv, Locking, TaskSound, RequestSound

\* Every step of the system.
LEMMA NextSInv ==
  ASSUME TInv, SInv, [Next]_vars
  PROVE  SInv'
  <1>1. CASE Next
    BY <1>1, TaskSInv, RequestSInv, CrashSInv DEF Next
  <1>2. CASE UNCHANGED vars
    <2>1. \A e \in Execution : RowSound(e)' /\ Grows(e)
      BY <1>2, RowKept DEF vars, SInv, Grows, Gone
    <2> QED
      BY <1>2, <2>1, TasksKept DEF vars, SInv, RequestSound
  <1> QED
    BY <1>1, <1>2

\* The inductive invariant: types, row locks, and what tasks and rows say of the
\* recorded steps.
THEOREM Safe == Spec => [](TInv /\ SInv)
  <1>1. Init => TInv /\ SInv
    BY InitTInv, InitSInv
  <1>2. TInv /\ SInv /\ [Next]_vars => (TInv /\ SInv)'
    BY NextTInv, NextSInv
  <1> QED
    BY <1>1, <1>2, PTL DEF Spec

\* An execution is COMPLETED only when every agent's step is recorded.
THEOREM CompletedRuns == Spec => []CompletedRanEveryStep
  <1>1. SInv => CompletedRanEveryStep
    BY DEF SInv, RowSound, CompletedRanEveryStep
  <1> QED
    BY <1>1, Safe, PTL

\* An execution is COMPLETED only when some agent succeeded.
THEOREM CompletedSucceeds == Spec => []CompletedSawSuccess
  <1>1. SInv => CompletedSawSuccess
    BY DEF SInv, RowSound, Succeeded, CompletedSawSuccess
  <1> QED
    BY <1>1, Safe, PTL

\* A checkpoint never counts a step that was rolled back.
THEOREM CheckpointsSound == Spec => []CheckpointSound
  <1>1. SInv => CheckpointSound
    BY DEF SInv, RowSound, CheckpointSound
  <1> QED
    BY <1>1, Safe, PTL

\* A row that is FAILED says why.
THEOREM FailuresExplained == Spec => []FailedIsExplained
  <1>1. SInv => FailedIsExplained
    BY DEF SInv, RowSound, FailedIsExplained
  <1> QED
    BY <1>1, Safe, PTL

\* A locked row is locked by a task that is still at work on it.
THEOREM LocksHaveWriters == Spec => []LockHasWriter
  <1>1. TInv /\ SInv => LockHasWriter
    BY DEF TInv, TypeOK, SInv, Locking, LockHasWriter, Writers, LockPC
  <1> QED
    BY <1>1, Safe, PTL

-----------------------------------------------------------------------------
\* A running or paused row has a checkpoint: what recovery and resuming start from.  A
\* request that was let through on such a row still finds one when it commits.
Working == Running \cup {"paused"}

Restarts(c) ==
  /\ req[c].pc \in {"loaded", "commit"} /\ req[c].op \in {"pause", "resume", "recover"} =>
       Gone(req[c].exec) \/ row[req[c].exec].ckpt # -1
  /\ req[c].op = "recover" => req[c].pc \in {"idle", "loaded", "commit"}
  /\ req[c].op = "recover" /\ req[c].pc # "idle" => req[c].ckpt # -1

CInv ==
  /\ \A e \in Execution : row[e].state \in Working => row[e].ckpt # -1
  /\ \A c \in Caller : Restarts(c)

\* What a step may do to a row: it has a checkpoint afterwards, or is deleted, or keeps
\* the one it had or not and is not taken into a working state.
Moves(e) ==
  /\ Gone(e) => Gone(e)'
  /\ \/ row'[e].ckpt # -1
     \/ Gone(e)'
     \/ row'[e].ckpt = row[e].ckpt /\ (row'[e].state \in Working => row[e].state \in Working)

\* Such steps keep the invariant, as long as each request goes on with what it loaded.
LEMMA MovesKeep ==
  ASSUME TInv, CInv, \A e \in Execution : Moves(e),
         \A c \in Caller : \/ req'[c] = req[c]
                           \/ req'[c].pc \notin {"loaded", "commit"}
                              /\ (req'[c].op = "recover" => req'[c].pc = "idle")
                           \/ /\ req[c].pc \in {"loaded", "commit"} /\ req'[c].pc \in {"loaded", "commit"}
                              /\ req'[c].op = req[c].op /\ req'[c].exec = req[c].exec
                              /\ req'[c].ckpt = req[c].ckpt
                           \/ Restarts(c)'
  PROVE  CInv'
  <1>1. ASSUME NEW e \in Execution, row'[e].state \in Working PROVE row'[e].ckpt # -1
    <2>1. Moves(e) /\ ~Gone(e)'
      BY <1>1 DEF Gone, Working, Running
    <2> QED
      BY <1>1, <2>1 DEF Moves, CInv
  <1>2. ASSUME NEW c \in Caller PROVE Restarts(c)'
    <2>1. \A e \in Execution : (Gone(e) \/ row[e].ckpt # -1) => (Gone(e)' \/ row'[e].ckpt # -1)
      BY DEF Moves
    <2>2. req[c].pc \in {"loaded", "commit"} => req[c].exec \in Execution
      BY DEF TInv, RequestsOK, GoodRequest
    <2>3. Restarts(c)
      BY DEF CInv
    <2>4. Gone(req[c].exec)' <=> row'[req'[c].exec].state = "deleted"
      BY DEF Gone
    <2> QED
      BY <2>1, <2>2, <2>3, <2>4 DEF Restarts, Gone
  <1> QED
    BY <1>1, <1>2 DEF CInv

\* Every step of a background task: working rows are written with the commit of a step.
LEMMA TaskMovesRow ==
  ASSUME TInv, SInv, NEW t \in Task,
         TaskStep(t) \/ \E cls \in {"unknown", "permanent"} : DatabaseFault(t, cls)
  PROVE  \A e \in Execution : Moves(e)
  <1>0. /\ \A e \in Execution : row[e] \in Row
        /\ row \in [Execution -> Row]
    BY DEF TInv, TypeOK
  <1> DEFINE x == Exec(t)
  <1>1. ASSUME NEW r, row' = [row EXCEPT ![x] = r], task[t].pc # "free", ~Gone(x),
               r.ckpt # -1 \/ (r.ckpt = row[x].ckpt /\ (r.state \in Working => row[x].state \in Working))
        PROVE  \A e \in Execution : Moves(e)
    <2>1. x \in Execution
      BY <1>1, Owner
    <2>2. row'[x] = r /\ \A e \in Execution \ {x} : row'[e] = row[e]
      BY <1>0, <1>1, <2>1
    <2> HIDE DEF x
    <2>3. Moves(x)
      BY <1>1, <2>2 DEF Moves, Gone
    <2>4. \A e \in Execution \ {x} : Moves(e)
      BY <2>2 DEF Moves, Gone
    <2> QED
      BY <2>3, <2>4
  <1>2. CASE UNCHANGED row
    BY <1>2 DEF Moves, Gone
  <1>3. CASE CommitStep(t)
    <2> DEFINE r == [row[x] EXCEPT !.state = "working", !.ckpt = task[t].idx]
    <2>1. task[t].pc = "commit" /\ task[t].idx \in Nat /\ x \in Execution /\ ~Gone(x)
      BY <1>3, Owner, ParametersAssumption DEF CommitStep, Sent, OwnerPC, TInv, TasksOK, TaskRecord
    <2>2. r.ckpt = task[t].idx /\ row' = [row EXCEPT ![x] = r]
      BY <1>0, <1>3, <2>1 DEF CommitStep, Row
    <2>3. r.ckpt # -1 /\ task[t].pc # "free"
      BY <2>1, <2>2
    <2> HIDE DEF r, x
    <2> QED
      BY <1>1, <2>1, <2>2, <2>3 DEF x
  <1>4. CASE CommitStepFailure(t)
    <2> DEFINE r == [row[x] EXCEPT !.state = "failed", !.ckpt = task[t].idx, !.err = "step_failed"]
    <2>1. task[t].pc = "failing" /\ task[t].idx \in Nat /\ x \in Execution /\ ~Gone(x)
      BY <1>4, Owner, ParametersAssumption DEF CommitStepFailure, Sent, OwnerPC, TInv, TasksOK, TaskRecord
    <2>2. r.ckpt = task[t].idx /\ row' = [row EXCEPT ![x] = r]
      BY <1>0, <1>4, <2>1 DEF CommitStepFailure, Row
    <2>3. r.ckpt # -1 /\ task[t].pc # "free"
      BY <2>1, <2>2
    <2> HIDE DEF r, x
    <2> QED
      BY <1>1, <2>1, <2>2, <2>3 DEF x
  <1>5. CASE CommitCompleted(t)
    <2> DEFINE r == [row[x] EXCEPT !.state = "completed"]
    <2>1. task[t].pc = "finishing" /\ x \in Execution /\ ~Gone(x)
      BY <1>5, Owner DEF CommitCompleted, Sent, OwnerPC
    <2>2. r.ckpt = row[x].ckpt /\ r.state = "completed" /\ row' = [row EXCEPT ![x] = r]
      BY <1>0, <1>5, <2>1 DEF CommitCompleted, Row
    <2> HIDE DEF r, x
    <2> QED
      BY <1>1, <2>1, <2>2 DEF x, Working, Running
  <1>6. ASSUME NEW st, NEW r, r.ckpt = row[x].ckpt, r.state = st, st = row[x].state \/ st \in {"cancelled", "failed"},
               row' = [row EXCEPT ![x] = r], task[t].pc # "free", ~Gone(x)
        PROVE  \A e \in Execution : Moves(e)
    BY <1>1, <1>6 DEF Working, Running
  <1>7. CASE CommitCancelled(t) /\ ~UNCHANGED row
    <2> DEFINE st == IF task[t].seen = "cancelled" THEN row[x].state ELSE "cancelled"
               r == [row[x] EXCEPT !.cancelled = TRUE, !.state = st]
    <2>1. task[t].pc = "cancelling" /\ x \in Execution /\ ~Gone(x)
      BY <1>7, Owner DEF CommitCancelled, Sent
    <2>2. row' = [row EXCEPT ![x] = r]
      BY <1>7, <2>1 DEF CommitCancelled
    <2>3. r.ckpt = row[x].ckpt /\ r.state = st
      BY <1>0, <2>1 DEF Row
    <2>4. st = row[x].state \/ st \in {"cancelled", "failed"}
      OBVIOUS
    <2> HIDE DEF r, x, st
    <2> QED
      BY <1>6, <2>1, <2>2, <2>3, <2>4 DEF x
  <1>8. CASE CommitError(t) /\ ~UNCHANGED row
    <2> DEFINE st == IF task[t].seen = "failed" THEN row[x].state ELSE "failed"
               r == [row[x] EXCEPT !.err = task[t].result, !.state = st]
    <2>1. task[t].pc = "erroring" /\ x \in Execution /\ ~Gone(x)
      BY <1>8, Owner DEF CommitError, Sent
    <2>2. row' = [row EXCEPT ![x] = r]
      BY <1>8, <2>1 DEF CommitError
    <2>3. r.ckpt = row[x].ckpt /\ r.state = st
      BY <1>0, <2>1 DEF Row
    <2>4. st = row[x].state \/ st \in {"cancelled", "failed"}
      OBVIOUS
    <2> HIDE DEF r, x, st
    <2> QED
      BY <1>6, <2>1, <2>2, <2>3, <2>4 DEF x
  <1> QED
    BY <1>2, <1>3, <1>4, <1>5, <1>7, <1>8
    DEF TaskStep, DatabaseFault, Begin, Start, Refresh, BeginStep, AgentSucceeds, AgentFails,
        Finish, LoadError, Unwind, HandleCancellationById, DoneCallback

\* Every step of a request: pause, resume and recover take a row that has a checkpoint
\* into another state that has to have one.
LEMMA RequestCInv ==
  ASSUME TInv, SInv, CInv, NEW c \in Caller, RequestStep(c) \/ NewRequest(c)
  PROVE  CInv'
  <1>0. /\ \A e \in Execution : row[e] \in Row
        /\ row \in [Execution -> Row] /\ req \in [Caller -> Request]
        /\ GoodRequest(req[c]) /\ Restarts(c)
        /\ Idle.pc = "idle" /\ Idle.op = "execute"
    BY DEF TInv, TypeOK, RequestsOK, CInv, Idle
  <1>1. UNCHANGED row => \A e \in Execution : Moves(e)
    BY DEF Moves, Gone
  <1>2. ASSUME Answer(c) PROVE /\ \A d \in Caller \ {c} : req'[d] = req[d]
                               /\ req'[c] = Idle
    BY <1>0, <1>2 DEF Answer
  <1>3. ASSUME NEW pc, Proceed(c, pc)
        PROVE  /\ \A d \in Caller \ {c} : req'[d] = req[d]
               /\ req'[c].op = req[c].op /\ req'[c].exec = req[c].exec /\ req'[c].pc = pc
               /\ req'[c].ckpt = req[c].ckpt
    BY <1>0, <1>3 DEF Proceed, Request
  <1>4. CASE CancelTask(c)
    <2>1. Proceed(c, "commit") /\ req[c].pc = "loaded" /\ UNCHANGED row
      BY <1>4 DEF CancelTask
    <2> QED
      BY <1>1, <1>3, <2>1, MovesKeep
  <1>5. CASE Recover(c)
    <2>1. (Answer(c) \/ Proceed(c, "commit")) /\ req[c].pc = "loaded" /\ UNCHANGED row
      BY <1>5 DEF Recover
    <2> QED
      BY <1>0, <1>1, <1>2, <1>3, <2>1, MovesKeep
  <1>6. CASE CommitRequest(c)
    <2> DEFINE x == req[c].exec
    <2>0. x \in Execution /\ row[x] \in Row /\ req[c].pc = "commit"
      BY <1>0, <1>6 DEF CommitRequest, GoodRequest
    <2>1. \A e \in Execution : Moves(e)
      <3>1. CASE UNCHANGED row
        BY <1>1, <3>1
      <3>2. ASSUME NEW r, row' = [row EXCEPT ![x] = r], ~Gone(x), r.ckpt = row[x].ckpt,
                   r.ckpt # -1 \/ r.state \notin Working
            PROVE  \A e \in Execution : Moves(e)
        <4>1. row'[x] = r /\ \A e \in Execution \ {x} : row'[e] = row[e]
          BY <1>0, <2>0, <3>2
        <4> HIDE DEF x
        <4>2. Moves(x)
          BY <3>2, <4>1 DEF Moves, Gone
        <4>3. \A e \in Execution \ {x} : Moves(e)
          BY <4>1 DEF Moves, Gone
        <4> QED
          BY <4>2, <4>3
      <3>3. CASE row' = [row EXCEPT ![x].cancelled = TRUE, ![x].state = "cancelled"] /\ ~Gone(x)
        <4> DEFINE r == [row[x] EXCEPT !.cancelled = TRUE, !.state = "cancelled"]
        <4>1. row' = [row EXCEPT ![x] = r] /\ r.ckpt = row[x].ckpt /\ r.state = "cancelled"
          BY <2>0, <3>3 DEF Row
        <4> HIDE DEF r, x
        <4> QED
          BY <3>2, <3>3, <4>1 DEF x, Working, Running
      <3>4. ASSUME NEW s, row' = [row EXCEPT ![x].state = s], ~Gone(x), row[x].ckpt # -1 \/ s \notin Working
            PROVE  \A e \in Execution : Moves(e)
        <4> DEFINE r == [row[x] EXCEPT !.state = s]
        <4>1. row' = [row EXCEPT ![x] = r] /\ r.ckpt = row[x].ckpt /\ r.state = s
          BY <2>0, <3>4 DEF Row
        <4> HIDE DEF r, x
        <4> QED
          BY <3>2, <3>4, <4>1 DEF x
      <3>5. CASE row' = [row EXCEPT ![x].state = "queued", ![x].err = "none",
                                    ![x].retries = req[c].retries + 1] /\ ~Gone(x)
        <4> DEFINE r == [row[x] EXCEPT !.state = "queued", !.err = "none", !.retries = req[c].retries + 1]
        <4>1. row' = [row EXCEPT ![x] = r] /\ r.ckpt = row[x].ckpt /\ r.state = "queued"
          BY <2>0, <3>5 DEF Row
        <4> HIDE DEF r, x
        <4> QED
          BY <3>2, <3>5, <4>1 DEF x, Working, Running
      <3>6. req[c].op \in {"pause", "resume", "recover"} => Gone(x) \/ row[x].ckpt # -1
        BY <1>0, <2>0 DEF Restarts
      <3>7. "queued" \notin Working
        BY DEF Working, Running
      <3> HIDE DEF x
      <3> QED
        BY <1>6, <3>1, <3>3, <3>4, <3>5, <3>6, <3>7 DEF CommitRequest, x
    <2>2. Answer(c) \/ Proceed(c, "session") \/ (Proceed(c, "spawn") /\ req[c].op # "recover")
      BY <1>0, <1>6, <2>0 DEF CommitRequest, Restarts
    <2>3. Proceed(c, "session") => req[c].op # "recover"
      BY <1>6, <1>0, <1>2, <1>3, <2>0 DEF CommitRequest
    <2> QED
      BY <1>0, <1>2, <1>3, <2>0, <2>1, <2>2, <2>3, MovesKeep
  <1>7. CASE Spawn(c)
    BY <1>0, <1>1, <1>2, <1>7, MovesKeep DEF Spawn
  <1>8. CASE StopSession(c)
    BY <1>0, <1>1, <1>2, <1>8, MovesKeep DEF StopSession
  <1>9. ASSUME NEW e \in Execution, Execute(c, e) PROVE CInv'
    <2>1. row'[e].state = "queued" /\ ~Gone(e) /\ row'[e].ckpt = -1 /\ row[e].ckpt = -1
          /\ \A f \in Execution \ {e} : row'[f] = row[f]
      BY <1>0, <1>9 DEF Execute, NewRow, Gone, SInv, RowSound
    <2>2. \A f \in Execution : Moves(f)
      BY <2>1 DEF Moves, Gone, Working, Running
    <2>3. req'[c].pc = "spawn" /\ req'[c].op = "execute" /\ \A d \in Caller \ {c} : req'[d] = req[d]
      BY <1>0, <1>9 DEF Execute, Idle
    <2> QED
      BY <2>2, <2>3, MovesKeep
  <1>10. ASSUME NEW op \in Op, NEW e \in Execution, Load(c, op, e) PROVE CInv'
    <2>1. /\ UNCHANGED row /\ \A d \in Caller \ {c} : req'[d] = req[d]
          /\ req'[c].op = op /\ req'[c].exec = e /\ req'[c].pc \in {"loaded", "commit"}
          /\ op = "recover" => req'[c].ckpt = row[e].ckpt
      BY <1>0, <1>10 DEF Load, AskFor
    <2>2. op \in {"pause", "resume", "recover"} => row[e].ckpt # -1
      BY <1>10 DEF Load, Accepts, CInv, Working
    <2>3. Restarts(c)'
      BY <2>1, <2>2 DEF Restarts, Gone
    <2> QED
      BY <1>1, <2>1, <2>3, MovesKeep
  <1>11. CASE AskStop(c)
    <2>1. /\ UNCHANGED row /\ \A d \in Caller \ {c} : req'[d] = req[d]
          /\ req'[c].op = "stop" /\ req'[c].pc = "session"
      BY <1>0, <1>11 DEF AskStop, Idle
    <2> QED
      BY <1>1, <2>1, MovesKeep
  <1>12. CASE DeleteSession(c)
    <2>1. \A e \in Execution : row'[e] = NewRow("deleted") \/ (row'[e] = row[e] /\ row[e].state \notin Present)
      BY <1>12 DEF DeleteSession
    <2>2. NewRow("deleted").state = "deleted"
      BY DEF NewRow
    <2>3. \A e \in Execution : Moves(e)
      BY <2>1, <2>2 DEF Moves, Gone
    <2> QED
      BY <1>12, <2>3, MovesKeep DEF DeleteSession
  <1> QED
    BY <1>4, <1>5, <1>6, <1>7, <1>8, <1>9, <1>10, <1>11, <1>12 DEF RequestStep, NewRequest

\* Every step of the system.
LEMMA NextCInv ==
  ASSUME TInv, SInv, CInv, [Next]_vars
  PROVE  CInv'
  <1>1. ASSUME NEW t \in Task, TaskStep(t) \/ \E cls \in {"unknown", "permanent"} : DatabaseFault(t, cls)
        PROVE  CInv'
    <2>1. UNCHANGED req
      BY <1>1 DEF TaskStep, DatabaseFault, Begin, Start, Refresh, BeginStep, AgentSucceeds, AgentFails,
             CommitStep, CommitStepFailure, Finish, CommitCompleted, CommitCancelled, LoadError,
             CommitError, Unwind, HandleCancellationById, DoneCallback
    <2> QED
      BY <1>1, <2>1, TaskMovesRow, MovesKeep
  <1>2. CASE Crash
    <2>1. (\A e \in Execution : Moves(e)) /\ \A c \in Caller : req'[c].pc = "idle"
      BY <1>2 DEF Crash, Moves, Gone, Idle
    <2> QED
      BY <2>1, MovesKeep
  <1>3. CASE UNCHANGED vars
    <2>1. (\A e \in Execution : Moves(e)) /\ \A c \in Caller : req'[c] = req[c]
      BY <1>3 DEF vars, Moves, Gone
    <2> QED
      BY <2>1, MovesKeep
  <1> QED
    BY <1>1, <1>2, <1>3, RequestCInv DEF Next

\* The second inductive invariant, on top of the first.
THEOREM Checkpointed == Spec => []CInv
  <1>1. Init => CInv
    BY DEF Init, CInv, Restarts, NewRow, Idle, Working, Running
  <1>2. TInv /\ SInv /\ CInv /\ [Next]_vars => CInv'
    BY NextCInv
  <1> QED
    BY <1>1, <1>2, Safe, PTL DEF Spec

\* A running row has a checkpoint, so that recover_unfinished starts no second task.
THEOREM RunningCheckpointed == Spec => []RunningHasCheckpoint
  <1>1. CInv => RunningHasCheckpoint
    BY DEF CInv, Working, RunningHasCheckpoint
  <1> QED
    BY <1>1, Checkpointed, PTL

\* The steps of two tasks that run one execution never overlap, whoever retries or
\* recovers and however often.
THEOREM StepsApart == Spec => []OneStepAtATime
  <1>1. TInv /\ SInv => OneStepAtATime
    <2> SUFFICES ASSUME SInv, NEW e \in Execution, NEW t \in Writers(e), NEW u \in Writers(e),
                        task[t].pc \in OwnerPC, task[u].pc \in OwnerPC
                 PROVE  t = u
      BY DEF OneStepAtATime, OwnerPC
    <2>1. lock[e] = t /\ lock[e] = u
      BY DEF SInv, TaskSound, Writers, Exec, OwnerPC
    <2> QED
      BY <2>1
  <1> QED
    BY <1>1, Safe, PTL

\* All of them together, which is what is left when the process may die at any point and
\* two tasks may run one execution.
THEOREM SoundAfterAnyCrash == Spec => []SoundAfterCrash
  <1>1. CompletedRanEveryStep /\ CompletedSawSuccess /\ CheckpointSound /\ FailedIsExplained
        /\ LockHasWriter /\ OneStepAtATime /\ RunningHasCheckpoint => SoundAfterCrash
    BY DEF SoundAfterCrash
  <1> QED
    BY <1>1, CompletedRuns, CompletedSucceeds, CheckpointsSound, FailuresExplained, LocksHaveWriters,
       StepsApart, RunningCheckpointed, PTL

-----------------------------------------------------------------------------
\* Executor implements Pipeline: whatever requests, faults and crashes race with the
\* background tasks, a step of the executor records the next step of an execution,
\* completes one whose steps are all recorded, takes one out of COMPLETED, deletes a
\* session, or changes nothing of that.

Done      == [e \in Execution |-> Recorded(e)]
Completed == {e \in Execution : row[e].state = "completed"}

\* What the refinement mapping gives the variables of the pipeline.
LEMMA PipeVars == Pipe!vars = <<Done, Completed>> /\ Pipe!Index = StepIndex
  BY DEF Pipe!vars, Done, Completed, Pipe!Index, StepIndex

\* A step that writes no row and records nothing.
LEMMA StepStutters ==
  ASSUME UNCHANGED <<row, steps>>
  PROVE  UNCHANGED Pipe!vars
  <1>1. UNCHANGED <<Done, Completed>>
    BY DEF Done, Completed, Recorded
  <1> QED
    BY <1>1, PipeVars DEF Done, Completed, Pipe!vars

\* A step that writes one row, and leaves its COMPLETED or takes it away.
LEMMA StepReopens ==
  ASSUME TInv, NEW e \in Execution, NEW r, row' = [row EXCEPT ![e] = r], UNCHANGED steps,
         r.state = "completed" => row[e].state = "completed"
  PROVE  [Pipe!Next]_(Pipe!vars)
  <1>1. row'[e] = r /\ \A f \in Execution \ {e} : row'[f] = row[f]
    BY DEF TInv, TypeOK
  <1>2. Done' = Done
    BY DEF Done, Recorded
  <1>3. Completed' = Completed \/ Completed' = Completed \ {e}
    BY <1>1 DEF Completed
  <1> QED
    BY <1>2, <1>3 DEF Done, Completed, Pipe!Next, Pipe!Reopen, Pipe!vars

\* A commit at the end of a step: the next step, or one that is recorded already.
LEMMA StepRecords ==
  ASSUME TInv, SInv, NEW t \in Task, CommitStep(t) \/ CommitStepFailure(t)
  PROVE  [Pipe!Next]_(Pipe!vars)
  <1>0. task[t].pc \in {"commit", "failing"}
    BY DEF CommitStep, CommitStepFailure, Sent
  <1>1. PICK e \in Execution : e = Exec(t) /\ ~Gone(e)
    BY <1>0, Owner DEF OwnerPC
  <1>2. PICK k \in StepIndex : k = task[t].idx
    BY <1>0, ParametersAssumption DEF TInv, TasksOK, GoodTask, TaskRecord, StepIndex
  <1>3. PICK o \in {"completed"} \cup ErrorClass : o = task[t].result
    BY <1>0 DEF TInv, TasksOK, GoodTask, TaskRecord
  <1>4. steps' = [steps EXCEPT ![e] = @ \cup {<<k, o>>}]
    BY <1>1, <1>2, <1>3 DEF CommitStep, CommitStepFailure
  <1>5. \A i \in StepIndex : i < k => i \in Recorded(e)
    BY <1>0, <1>1, <1>2 DEF SInv, TaskSound
  <1>6. Recorded(e)' = Recorded(e) \cup {k} /\ \A f \in Execution \ {e} : Recorded(f)' = Recorded(f)
    <2>1. steps'[e] = steps[e] \cup {<<k, o>>} /\ \A f \in Execution \ {e} : steps'[f] = steps[f]
      BY <1>4 DEF TInv, TypeOK
    <2> QED
      BY <1>2, <1>3, <2>1 DEF Recorded
  <1>7. Done' = [Done EXCEPT ![e] = @ \cup {k}]
    BY <1>6 DEF Done
  <1>8. row'[e].state # "completed" /\ \A f \in Execution \ {e} : row'[f] = row[f]
    BY <1>1 DEF CommitStep, CommitStepFailure, TInv, TypeOK, Row
  <1>9. Completed' = Completed \ {e}
    BY <1>8 DEF Completed
  <1>10. CASE k \in Recorded(e)
    <2>1. Done' = Done
      BY <1>7, <1>10 DEF Done
    <2> QED
      BY <1>9, <2>1 DEF Done, Completed, Pipe!Next, Pipe!Reopen, Pipe!vars
  <1>11. CASE k \notin Recorded(e)
    <2>1. Pipe!Record(e, k)
      BY <1>5, <1>7, <1>11 DEF Pipe!Record, Done, Pipe!Index, StepIndex
    <2>2. Pipe!Step(e)
      BY <1>2, <1>9, <2>1 DEF Pipe!Step, Completed, Pipe!Index, StepIndex
    <2> QED
      BY <2>2 DEF Pipe!Next
  <1> QED
    BY <1>10, <1>11

\* COMPLETED is written after the last step.
LEMMA StepCompletes ==
  ASSUME TInv, SInv, NEW t \in Task, CommitCompleted(t)
  PROVE  Pipe!Next
  <1>1. PICK e \in Execution : e = Exec(t) /\ Recorded(e) = StepIndex
    BY CommitCompletedSafe
  <1>2. row'[e].state = "completed" /\ \A f \in Execution \ {e} : row'[f] = row[f]
    BY <1>1 DEF CommitCompleted, TInv, TypeOK, Row
  <1>3. Completed' = Completed \cup {e} /\ Done' = Done
    BY <1>2 DEF Completed, Done, Recorded, CommitCompleted
  <1>4. Pipe!Complete(e)
    BY <1>1, <1>3 DEF Pipe!Complete, Pipe!Index, StepIndex, Completed, Done
  <1> QED
    BY <1>4 DEF Pipe!Next

\* The session and its executions are deleted.
LEMMA StepForgets ==
  ASSUME TInv, NEW c \in Caller, DeleteSession(c)
  PROVE  Pipe!Next
  <1>1. Done' = [e \in Execution |-> {}]
    BY DEF DeleteSession, Done, Recorded
  <1>2. Completed' = {}
    <2>1. ASSUME NEW e \in Execution PROVE row'[e].state # "completed"
      <3>1. NewRow("deleted").state = "deleted"
        BY DEF NewRow
      <3>2. row'[e] = IF row[e].state \in Present THEN NewRow("deleted") ELSE row[e]
        BY DEF DeleteSession
      <3>3. "completed" \in Present
        BY DEF Present, State
      <3> QED
        BY <3>1, <3>2, <3>3
    <2> QED
      BY <2>1 DEF Completed
  <1> QED
    BY <1>1, <1>2 DEF Pipe!Next, Pipe!Forget, Done, Completed

\* Every step of the system is a step of the pipeline or a stutter.
LEMMA StepImplements ==
  ASSUME TInv, SInv, [Next]_vars
  PROVE  [Pipe!Next]_(Pipe!vars)
  <1>0. \A e \in Execution : row[e] \in Row
    BY DEF TInv, TypeOK
  <1>1. ASSUME NEW t \in Task,
               TaskStep(t) \/ \E cls \in {"unknown", "permanent"} : DatabaseFault(t, cls)
        PROVE [Pipe!Next]_(Pipe!vars)
    <2> DEFINE e == Exec(t)
    <2>1. CASE CommitStep(t) \/ CommitStepFailure(t)
      BY <2>1, StepRecords
    <2>2. CASE CommitCompleted(t)
      BY <2>2, StepCompletes
    <2>3. CASE CommitCancelled(t)
      <3>1. e \in Execution
        BY <2>3, Owner DEF CommitCancelled, Sent
      <3>2. CASE Gone(e)
        BY <2>3, <3>2, StepStutters DEF CommitCancelled
      <3>3. CASE ~Gone(e)
        <4> DEFINE st == IF task[t].seen = "cancelled" THEN row[e].state ELSE "cancelled"
                   r == [row[e] EXCEPT !.cancelled = TRUE, !.state = st]
        <4>1. row' = [row EXCEPT ![e] = r] /\ UNCHANGED steps
          BY <2>3, <3>3 DEF CommitCancelled
        <4>2. r.state = st
          BY <1>0, <3>1 DEF Row
        <4> HIDE DEF r
        <4> QED
          BY <3>1, <4>1, <4>2, StepReopens
      <3> QED
        BY <3>2, <3>3
    <2>4. CASE CommitError(t)
      <3>1. e \in Execution
        BY <2>4, Owner DEF CommitError, Sent
      <3>2. CASE Gone(e)
        BY <2>4, <3>2, StepStutters DEF CommitError
      <3>3. CASE ~Gone(e)
        <4> DEFINE st == IF task[t].seen = "failed" THEN row[e].state ELSE "failed"
                   r == [row[e] EXCEPT !.err = task[t].result, !.state = st]
        <4>1. row' = [row EXCEPT ![e] = r] /\ UNCHANGED steps
          BY <2>4, <3>3 DEF CommitError
        <4>2. r.state = st
          BY <1>0, <3>1 DEF Row
        <4> HIDE DEF r
        <4> QED
          BY <3>1, <4>1, <4>2, StepReopens
      <3> QED
        BY <3>2, <3>3
    <2>5. CASE UNCHANGED <<row, steps>>
      BY <2>5, StepStutters
    <2> QED
      BY <1>1, <2>1, <2>2, <2>3, <2>4, <2>5
      DEF TaskStep, DatabaseFault, Begin, Start, Refresh, BeginStep, AgentSucceeds, AgentFails,
          Finish, LoadError, Unwind, HandleCancellationById, DoneCallback
  <1>2. ASSUME NEW c \in Caller, RequestStep(c) \/ NewRequest(c)
        PROVE [Pipe!Next]_(Pipe!vars)
    <2>1. CASE CommitRequest(c)
      <3> DEFINE e == req[c].exec
      <3>1. e \in Execution
        BY <2>1 DEF CommitRequest, TInv, RequestsOK, GoodRequest
      <3>2. CASE UNCHANGED row
        BY <2>1, <3>2, StepStutters DEF CommitRequest
      <3>3. CASE row' = [row EXCEPT ![e].cancelled = TRUE, ![e].state = "cancelled"]
        <4> DEFINE r == [row[e] EXCEPT !.cancelled = TRUE, !.state = "cancelled"]
        <4>1. row' = [row EXCEPT ![e] = r] /\ r.state = "cancelled"
          BY <1>0, <3>1, <3>3 DEF Row
        <4> HIDE DEF r
        <4> QED
          BY <2>1, <3>1, <4>1, StepReopens DEF CommitRequest
      <3>4. ASSUME NEW s \in {"paused", "resuming", "queued"}, row' = [row EXCEPT ![e].state = s]
            PROVE [Pipe!Next]_(Pipe!vars)
        <4> DEFINE r == [row[e] EXCEPT !.state = s]
        <4>1. row' = [row EXCEPT ![e] = r] /\ r.state = s
          BY <1>0, <3>1, <3>4 DEF Row
        <4> HIDE DEF r
        <4> QED
          BY <2>1, <3>1, <4>1, StepReopens DEF CommitRequest
      <3>5. CASE row' = [row EXCEPT ![e].state = "queued", ![e].err = "none",
                                    ![e].retries = req[c].retries + 1]
        <4> DEFINE r == [row[e] EXCEPT !.state = "queued", !.err = "none",
                                       !.retries = req[c].retries + 1]
        <4>1. row' = [row EXCEPT ![e] = r] /\ r.state = "queued"
          BY <1>0, <3>1, <3>5 DEF Row
        <4> HIDE DEF r
        <4> QED
          BY <2>1, <3>1, <4>1, StepReopens DEF CommitRequest
      <3> QED
        BY <2>1, <3>2, <3>3, <3>4, <3>5 DEF CommitRequest
    <2>2. ASSUME NEW e \in Execution, Execute(c, e) PROVE [Pipe!Next]_(Pipe!vars)
      <3>1. NewRow("queued").state = "queued"
        BY DEF NewRow
      <3> QED
        BY <2>2, <3>1, StepReopens DEF Execute
    <2>3. CASE DeleteSession(c)
      BY <2>3, StepForgets
    <2>4. CASE UNCHANGED <<row, steps>>
      BY <2>4, StepStutters
    <2> QED
      BY <1>2, <2>1, <2>2, <2>3, <2>4
      DEF RequestStep, NewRequest, CancelTask, Recover, Spawn, StopSession, Load, AskStop
  <1>3. CASE Crash
    BY <1>3, StepStutters DEF Crash
  <1>4. CASE UNCHANGED vars
    BY <1>4, StepStutters DEF vars
  <1> QED
    BY <1>1, <1>2, <1>3, <1>4 DEF Next

\* Nothing is recorded at the start.
LEMMA InitImplements == Init => Pipe!Init
  <1> SUFFICES ASSUME Init PROVE Pipe!Init
    OBVIOUS
  <1>1. \A e \in Execution : Recorded(e) = {} /\ row[e].state # "completed"
    BY DEF Init, Recorded, NewRow
  <1> QED
    BY <1>1 DEF Pipe!Init

\* The steps and completions of the executor are those of the pipeline.
THEOREM Implements == Spec => ImplementsPipeline
  <1>1. TInv /\ SInv /\ [Next]_vars => [Pipe!Next]_(Pipe!vars)
    BY StepImplements
  <1> QED
    BY <1>1, Safe, InitImplements, PTL DEF Spec, ImplementsPipeline, Pipe!Spec
=============================================================================
