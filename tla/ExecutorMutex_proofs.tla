------------------------ MODULE ExecutorMutex_proofs ------------------------
(***************************************************************************)
(* One background task at a time: OneRunner, for any executions, clients,  *)
(* agents, faults and crashes, as long as no two retries of one execution  *)
(* are under way at the same time.  Nothing is assumed of who may ask for  *)
(* what: two tasks come from overlapping retries only, and no recovery,    *)
(* resumption, deletion or crash beside a single retry starts a second.    *)
(***************************************************************************)
EXTENDS ExecutorSafety_proofs

\* No two retries of one execution are under way: each is answered before the next one
\* loads the row.
RetriesApart ==
  \A c, d \in Caller :
    /\ req[c].op = "retry" /\ req[c].pc # "idle"
    /\ req[d].op = "retry" /\ req[d].pc # "idle"
    /\ req[c].exec = req[d].exec
      => c = d

\* The requests on their way to start a task for e.
Starting(e) ==
  {c \in Caller : /\ req[c].exec = e
                  /\ \/ req[c].op = "execute" /\ req[c].pc = "spawn"
                     \/ req[c].op = "retry" /\ req[c].pc \in {"commit", "spawn"}}

Asked(c) == req[c].pc = "spawn" => req[c].op \in {"execute", "resume", "retry"}

\* A request that will start a task has been alone since there was none, and a
\* row is FAILED only when its task is over.
Alone(e) ==
  /\ \A t, u \in Writers(e) : t = u
  /\ \A c, d \in Starting(e) : c = d
  /\ Starting(e) # {} => Writers(e) = {}
  /\ row[e].state = "failed" => /\ Writers(e) = {}
                                /\ \A c \in Starting(e) : req[c].op = "retry" /\ req[c].pc = "commit"

MInv == (\A e \in Execution : Alone(e)) /\ (\A c \in Caller : Asked(c))

\* A step after which e has no new task, no new request to start one, and is
\* not newly FAILED with a task at work.
LEMMA AloneKept ==
  ASSUME NEW e \in Execution, Alone(e),
         Writers(e)' \subseteq Writers(e),
         Starting(e)' \subseteq Starting(e),
         row'[e].state = "failed" => \A c \in Starting(e)' : req'[c] = req[c],
         row'[e].state = "failed" => row[e].state = "failed" \/ (Writers(e) # {} /\ Writers(e)' = {})
  PROVE  Alone(e)'
  BY DEF Alone

\* A step of a background task makes no task a writer.
LEMMA TaskWriters ==
  ASSUME TInv, NEW t \in Task,
         TaskStep(t) \/ \E cls \in {"unknown", "permanent"} : DatabaseFault(t, cls)
  PROVE  /\ \A u \in Task \ {t} : task'[u] = task[u]
         /\ task'[t].exec = task[t].exec \/ task'[t].pc = "free"
         /\ task[t].pc \in {"free", "unwind", "done"} => task'[t].pc \in {"free", "unwind", "done"}
  <1>0. task[t] \in TaskRecord /\ task \in [Task -> TaskRecord]
    BY DEF TInv, TasksOK
  <1> DEFINE r == IF task[t].callback THEN NewTask(task[t].exec, "done", TRUE) ELSE FreeTask
             G == /\ \A u \in Task \ {t} : task'[u] = task[u]
                  /\ task'[t].exec = task[t].exec \/ task'[t].pc = "free"
                  /\ task[t].pc \in {"free", "unwind", "done"} => task'[t].pc \in {"free", "unwind", "done"}
  <1> SUFFICES G
    OBVIOUS
  <1>1. Return(t) => G
    <2>1. r.pc = "free" \/ (r.pc = "done" /\ r.exec = task[t].exec)
      BY DEF NewTask, FreeTask
    <2> HIDE DEF r
    <2>2. Return(t) => task' = [task EXCEPT ![t] = r]
      BY DEF Return, r
    <2> QED
      BY <1>0, <2>1, <2>2
  <1>2. ASSUME NEW pc, task[t].pc \notin {"free", "unwind", "done"}, task' = [task EXCEPT ![t].pc = pc]
        PROVE  G
    BY <1>0, <1>2 DEF TaskRecord
  <1>3. ASSUME NEW cls, task[t].pc \notin {"free", "unwind", "done"}, Raise(t, cls) PROVE G
    <2> DEFINE n == [NewTask(task[t].exec, "error", task[t].callback) EXCEPT !.result = cls]
    <2>1. n.exec = task[t].exec
      BY DEF NewTask
    <2>2. task' = [task EXCEPT ![t] = n]
      BY <1>3 DEF Raise
    <2> HIDE DEF n
    <2> QED
      BY <1>0, <1>3, <2>1, <2>2
  <1>4. ASSUME NEW n, task[t].pc \notin {"free", "unwind", "done"}, task' = [task EXCEPT ![t] = n],
               n.exec = task[t].exec
        PROVE  G
    BY <1>0, <1>4
  <1> HIDE DEF G
  <1> USE DEF At, Sent
  <1>5. CASE Begin(t)
    BY <1>5, <1>1, <1>2 DEF Begin, GoTo
  <1>6. CASE Start(t)
    BY <1>6, <1>2, <1>3 DEF Start, GoTo
  <1>7. CASE Refresh(t)
    <2> DEFINE st == IF lock[Exec(t)] = t THEN "starting" ELSE row[Exec(t)].state
               n == [task[t] EXCEPT !.pc = "cancelling", !.seen = st]
    <2>1. n.exec = task[t].exec
      BY <1>0 DEF TaskRecord
    <2>2. task' = [task EXCEPT ![t] = n] => G
      BY <1>4, <1>7, <2>1 DEF Refresh
    <2> QED
      BY <1>7, <1>2, <1>3, <2>2 DEF Refresh, GoTo
  <1>8. CASE BeginStep(t)
    <2> DEFINE n == [task[t] EXCEPT !.pc = "agent", !.attempt = 0]
    <2>1. n.exec = task[t].exec
      BY <1>0 DEF TaskRecord
    <2>2. task' = [task EXCEPT ![t] = n] => G
      BY <1>4, <1>8, <2>1 DEF BeginStep
    <2> QED
      BY <1>8, <1>3, <2>2 DEF BeginStep
  <1>9. CASE AgentSucceeds(t)
    <2>1. PICK b \in BOOLEAN : task' = [task EXCEPT ![t].pc = "commit", ![t].result = "completed",
                                                  ![t].output = b]
      BY <1>9 DEF AgentSucceeds
    <2> DEFINE n == [task[t] EXCEPT !.pc = "commit", !.result = "completed", !.output = b]
    <2>2. n.exec = task[t].exec
      BY <1>0 DEF TaskRecord
    <2>3. task' = [task EXCEPT ![t] = n] /\ task[t].pc \notin {"free", "unwind", "done"}
      BY <1>9, <2>1 DEF AgentSucceeds
    <2> HIDE DEF n
    <2> QED
      BY <1>4, <2>2, <2>3
  <1>10. ASSUME NEW cls \in ErrorClass, AgentFails(t, cls) PROVE G
    <2> DEFINE p == IF cls = "transient" THEN "commit" ELSE "failing"
               n == [task[t] EXCEPT !.result = cls, !.pc = p]
               m == [task[t] EXCEPT !.attempt = @ + 1]
    <2>1. n.exec = task[t].exec /\ m.exec = task[t].exec
      BY <1>0 DEF TaskRecord
    <2>2. task' = [task EXCEPT ![t] = n] \/ task' = [task EXCEPT ![t] = m]
      BY <1>10 DEF AgentFails
    <2> HIDE DEF n, m
    <2> QED
      BY <1>4, <1>10, <2>1, <2>2 DEF AgentFails
  <1>11. CASE CommitStep(t)
    <2> DEFINE k == task[t].idx
               p == IF k + 1 = Steps THEN "finish" ELSE "top"
               n == [task[t] EXCEPT !.pc = p, !.idx = k + 1, !.attempt = 0, !.result = "none"]
    <2>1. n.exec = task[t].exec
      BY <1>0 DEF TaskRecord
    <2> QED
      BY <1>4, <1>11, <2>1 DEF CommitStep
  <1>12. CASE CommitStepFailure(t)
    BY <1>12, <1>1 DEF CommitStepFailure
  <1>13. CASE Finish(t)
    BY <1>13, <1>2, <1>3 DEF Finish, GoTo
  <1>14. CASE CommitCompleted(t)
    BY <1>14, <1>1 DEF CommitCompleted
  <1>15. CASE CommitCancelled(t)
    BY <1>15, <1>1, <1>3 DEF CommitCancelled
  <1>16. CASE LoadError(t)
    <2> DEFINE n == [task[t] EXCEPT !.pc = "erroring", !.seen = row[Exec(t)].state]
    <2>1. n.exec = task[t].exec
      BY <1>0 DEF TaskRecord
    <2>2. task' = [task EXCEPT ![t] = n] => G
      BY <1>4, <1>16, <2>1 DEF LoadError
    <2> QED
      BY <1>16, <1>1, <2>2 DEF LoadError
  <1>17. CASE CommitError(t)
    BY <1>17, <1>1 DEF CommitError
  <1>18. CASE Unwind(t)
    <2> DEFINE n == NewTask(task[t].exec, "unwind", task[t].callback)
    <2>1. n.exec = task[t].exec /\ n.pc = "unwind"
      BY DEF NewTask
    <2>2. task' = [task EXCEPT ![t] = n] => G
      BY <1>0, <2>1 DEF G
    <2> QED
      BY <1>18, <1>1, <2>2 DEF Unwind
  <1>19. CASE HandleCancellationById(t)
    BY <1>19, <1>1 DEF HandleCancellationById
  <1>20. CASE DoneCallback(t)
    BY <1>0, <1>20 DEF DoneCallback, FreeTask, NewTask, G
  <1>21. ASSUME NEW cls \in {"unknown", "permanent"}, DatabaseFault(t, cls) PROVE G
    BY <1>21, <1>1, <1>3 DEF DatabaseFault, InTry
  <1> QED
    BY <1>5, <1>6, <1>7, <1>8, <1>9, <1>10, <1>11, <1>12, <1>13, <1>14, <1>15, <1>16, <1>17,
       <1>18, <1>19, <1>20, <1>21 DEF TaskStep

\* A row becomes FAILED only by the last step of a task that works on it.
LEMMA TaskFails ==
  ASSUME TInv, SInv, NEW t \in Task, NEW e \in Execution,
         TaskStep(t) \/ \E cls \in {"unknown", "permanent"} : DatabaseFault(t, cls)
  PROVE  row'[e].state = "failed" => \/ row[e].state = "failed"
                                     \/ t \in Writers(e) /\ t \notin Writers(e)'
  <1> SUFFICES ASSUME row'[e].state = "failed", row[e].state # "failed"
               PROVE  t \in Writers(e) /\ t \notin Writers(e)'
    OBVIOUS
  <1>0. row \in [Execution -> Row] /\ task \in [Task -> TaskRecord]
    BY DEF TInv, TypeOK
  <1>1. (CommitStepFailure(t) \/ CommitError(t)) /\ e = Exec(t)
    <2>1. CASE CommitStep(t)
      BY <1>0, <2>1 DEF CommitStep, Row
    <2>2. CASE CommitCompleted(t)
      BY <1>0, <2>2 DEF CommitCompleted, Row
    <2>3. CASE CommitCancelled(t)
      <3>1. Exec(t) \in Execution
        BY <2>3, Owner DEF CommitCancelled, Sent
      <3> DEFINE st == IF task[t].seen = "cancelled" THEN row[Exec(t)].state ELSE "cancelled"
                 r == [row[Exec(t)] EXCEPT !.cancelled = TRUE, !.state = st]
      <3>2. row' = row \/ row' = [row EXCEPT ![Exec(t)] = r]
        BY <2>3 DEF CommitCancelled
      <3>3. r.state = st
        BY <1>0, <3>1 DEF Row
      <3>4. e = Exec(t) => row'[e].state # "failed"
        <4> HIDE DEF r
        <4>1. ASSUME e = Exec(t) PROVE st # "failed"
          BY <4>1
        <4> QED
          BY <1>0, <3>1, <3>2, <3>3, <4>1
      <3> QED
        BY <1>0, <3>2, <3>4
    <2>4. CASE CommitStepFailure(t)
      BY <1>0, <2>4 DEF CommitStepFailure
    <2>5. CASE CommitError(t)
      BY <1>0, <2>5 DEF CommitError
    <2> QED
      BY <2>1, <2>2, <2>3, <2>4, <2>5
      DEF TaskStep, DatabaseFault, Begin, Start, Refresh, BeginStep, AgentSucceeds, AgentFails,
          Finish, LoadError, Unwind, HandleCancellationById, DoneCallback
  <1>2. Return(t) /\ task[t].pc \in {"failing", "erroring"}
    BY <1>1 DEF CommitStepFailure, CommitError, Sent
  <1>3. t \in Writers(e)
    BY <1>1, <1>2 DEF Writers, Exec
  <1>4. task'[t].pc \in {"done", "free"}
    <2> DEFINE r == IF task[t].callback THEN NewTask(task[t].exec, "done", TRUE) ELSE FreeTask
    <2>1. r.pc \in {"done", "free"}
      BY DEF NewTask, FreeTask
    <2>2. task' = [task EXCEPT ![t] = r]
      BY <1>2 DEF Return
    <2> QED
      BY <1>0, <2>1, <2>2
  <1> QED
    BY <1>3, <1>4 DEF Writers

\* Every step of a background task.
LEMMA TaskMInv ==
  ASSUME TInv, SInv, MInv, NEW t \in Task,
         TaskStep(t) \/ \E cls \in {"unknown", "permanent"} : DatabaseFault(t, cls)
  PROVE  MInv'
  <1>1. UNCHANGED req
    BY DEF TaskStep, DatabaseFault, Begin, Start, Refresh, BeginStep, AgentSucceeds, AgentFails,
           CommitStep, CommitStepFailure, Finish, CommitCompleted, CommitCancelled, LoadError,
           CommitError, Unwind, HandleCancellationById, DoneCallback
  <1>2. ASSUME NEW e \in Execution PROVE Alone(e)'
    <2>1. Writers(e)' \subseteq Writers(e)
      <3> SUFFICES ASSUME NEW u \in Writers(e)' PROVE u \in Writers(e)
        OBVIOUS
      <3>1. u \in Task /\ task'[u].exec = e /\ task'[u].pc \notin {"free", "unwind", "done"}
        BY DEF Writers
      <3> QED
        BY <3>1, TaskWriters DEF Writers
    <2>2. Starting(e)' = Starting(e)
      BY <1>1 DEF Starting
    <2>3. Alone(e)
      BY DEF MInv
    <2>4. row'[e].state = "failed" => row[e].state = "failed" \/ (Writers(e) # {} /\ Writers(e)' = {})
      <3>1. t \in Writers(e) /\ t \notin Writers(e)' => Writers(e) # {} /\ Writers(e)' = {}
        BY <2>1, <2>3 DEF Alone
      <3> QED
        BY <3>1, TaskFails
    <2> QED
      BY <1>1, <2>1, <2>2, <2>3, <2>4, AloneKept
  <1>3. \A c \in Caller : Asked(c)'
    BY <1>1 DEF MInv, Asked
  <1> QED
    BY <1>2, <1>3 DEF MInv

\* Requests that start no task and accept none to start.
LEMMA OtherRequest ==
  ASSUME MInv, NEW c \in Caller, \A d \in Caller \ {c} : req'[d] = req[d],
         \A e \in Execution : Writers(e)' \subseteq Writers(e),
         \A e \in Execution : row'[e].state = "failed" => row[e].state = "failed",
         \A e \in Execution : c \in Starting(e)' =>
            c \in Starting(e) /\ (row'[e].state = "failed" => req'[c] = req[c]),
         Asked(c)'
  PROVE  MInv'
  <1>1. ASSUME NEW e \in Execution PROVE Alone(e)'
    <2>1. \A d \in Starting(e)' : d \in Starting(e) /\ (row'[e].state = "failed" => req'[d] = req[d])
      BY DEF Starting
    <2> QED
      BY <2>1, AloneKept DEF MInv
  <1>2. \A d \in Caller \ {c} : Asked(d)'
    BY DEF MInv, Asked
  <1> QED
    BY <1>1, <1>2 DEF MInv

\* Every step of a request.
LEMMA RequestMInv ==
  ASSUME TInv, SInv, CInv, MInv, RetriesApart', NEW c \in Caller, RequestStep(c) \/ NewRequest(c)
  PROVE  MInv'
  <1>0. /\ GoodRequest(req[c]) /\ req \in [Caller -> Request] /\ Asked(c) /\ Restarts(c)
        /\ \A e \in Execution : row[e] \in Row
        /\ Idle.pc = "idle" /\ Idle.op = "execute"
    BY DEF TInv, TypeOK, RequestsOK, MInv, Idle, CInv
  <1>a. ASSUME Answer(c) PROVE /\ \A d \in Caller \ {c} : req'[d] = req[d]
                               /\ \A e \in Execution : c \notin Starting(e)'
                               /\ Asked(c)'
    BY <1>0, <1>a DEF Answer, Starting, Asked
  <1>b. ASSUME NEW pc, Proceed(c, pc)
        PROVE  /\ \A d \in Caller \ {c} : req'[d] = req[d]
               /\ req'[c].op = req[c].op /\ req'[c].exec = req[c].exec /\ req'[c].pc = pc
    BY <1>0, <1>b DEF Proceed, Request
  <1>c. UNCHANGED task => \A e \in Execution : Writers(e)' = Writers(e)
    BY DEF Writers
  <1>1. CASE CancelTask(c)
    <2>1. Proceed(c, "commit") /\ req[c].op \notin {"retry", "recover"} /\ req[c].pc = "loaded" /\ UNCHANGED row
      BY <1>0, <1>1 DEF CancelTask, GoodRequest
    <2>2. \A e \in Execution : Writers(e)' \subseteq Writers(e)
      <3>1. \A u \in Task : task'[u].exec = task[u].exec /\ task'[u].pc = task[u].pc
        BY <1>1 DEF CancelTask, TInv, TasksOK, TaskRecord
      <3> QED
        BY <3>1 DEF Writers
    <2>3. Asked(c)' /\ \A e \in Execution : c \notin Starting(e)'
      BY <1>0, <1>b, <2>1 DEF Asked, Starting
    <2> QED
      BY <1>b, <2>1, <2>2, <2>3, OtherRequest
  <1>2. CASE Recover(c)
    <2>1. (Answer(c) \/ Proceed(c, "commit")) /\ req[c].op = "recover" /\ UNCHANGED <<row, task>>
      BY <1>2 DEF Recover
    <2>2. Asked(c)' /\ \A e \in Execution : c \notin Starting(e)'
      BY <1>a, <1>b, <2>1 DEF Asked, Starting
    <2> QED
      BY <1>a, <1>b, <1>c, <2>1, <2>2, OtherRequest
  <1>3. CASE CommitRequest(c)
    <2> DEFINE e == req[c].exec
    <2>0. /\ req[c].pc = "commit" /\ UNCHANGED task
          /\ req[c].op = "recover" => req[c].ckpt # -1
          /\ e \in Execution
      BY <1>0, <1>3 DEF CommitRequest, Restarts, GoodRequest
    <2>1. \A f \in Execution : row'[f].state = "failed" => row[f].state = "failed"
      BY <1>0, <1>3, <2>0 DEF CommitRequest, Row, TInv, TypeOK
    <2>2. /\ \A d \in Caller \ {c} : req'[d] = req[d]
          /\ Asked(c)'
          /\ \A f \in Execution : c \in Starting(f)' =>
               c \in Starting(f) /\ (row'[f].state = "failed" => req'[c] = req[c])
      <3>1. CASE Answer(c)
        BY <3>1, <1>a
      <3>2. CASE Proceed(c, "session") /\ req[c].op = "stop"
        BY <1>0, <1>b, <2>0, <3>2 DEF Asked, Starting
      <3>3. CASE Proceed(c, "spawn") /\ req[c].op \in {"resume", "retry"}
        <4>1. Asked(c)' /\ \A d \in Caller \ {c} : req'[d] = req[d]
          BY <1>0, <1>b, <2>0, <3>3 DEF Asked
        <4>2. ASSUME NEW f \in Execution, c \in Starting(f)'
              PROVE  c \in Starting(f) /\ row'[f].state # "failed"
          <5>1. f = e /\ req[c].op = "retry"
            BY <1>b, <3>3, <4>2 DEF Starting
          <5>2. row' = [row EXCEPT ![e].state = "queued", ![e].err = "none",
                                   ![e].retries = req[c].retries + 1]
            BY <1>3, <1>a, <4>2, <5>1 DEF CommitRequest
          <5>3. row'[f].state = "queued"
            <6> DEFINE r == [row[e] EXCEPT !.state = "queued", !.err = "none",
                                           !.retries = req[c].retries + 1]
            <6>1. row' = [row EXCEPT ![e] = r]
              BY <5>2
            <6>2. r.state = "queued"
              BY <1>0, <2>0 DEF Row
            <6> HIDE DEF r
            <6> QED
              BY <2>0, <5>1, <6>1, <6>2 DEF TInv, TypeOK
          <5> QED
            BY <2>0, <5>1, <5>3 DEF Starting
        <4> QED
          BY <4>1, <4>2
      <3> QED
        BY <1>3, <2>0, <3>1, <3>2, <3>3 DEF CommitRequest
    <2> QED
      BY <1>c, <2>0, <2>1, <2>2, OtherRequest
  <1>4. CASE Spawn(c)
    <2> DEFINE e == req[c].exec
    <2>0. /\ req[c].pc = "spawn" /\ req[c].op \in {"execute", "resume", "retry"} /\ Answer(c)
          /\ e \in Execution /\ UNCHANGED row
      BY <1>0, <1>4 DEF Spawn, Asked, GoodRequest
    <2>1. CASE req[c].op = "resume"
      BY <1>4, <1>a, <1>c, <2>0, <2>1, OtherRequest DEF Spawn
    <2>2. CASE req[c].op # "resume"
      <3>0. PICK f \in Execution : f = e
        BY <2>0
      <3>1. PICK t \in Task : /\ task[t].pc = "free"
                              /\ task' = [task EXCEPT ![t] = NewTask(e, "load", req[c].op = "execute")]
        BY <1>4, <2>2 DEF Spawn
      <3>2. task'[t].exec = f /\ \A u \in Task \ {t} : task'[u] = task[u]
        BY <3>0, <3>1 DEF NewTask, TInv, TypeOK
      <3>3. c \in Starting(f) /\ Alone(f)
        BY <2>0, <2>2, <3>0 DEF Starting, MInv
      <3>4. Writers(f) = {} /\ Starting(f) = {c}
        BY <3>3 DEF Alone
      <3>5. row[f].state # "failed"
        BY <2>0, <3>3 DEF Alone
      <3>6. Starting(f)' = {} /\ Writers(f)' \subseteq {t}
        BY <1>a, <2>0, <3>2, <3>4 DEF Starting, Writers
      <3>7. Alone(f)'
        BY <2>0, <3>5, <3>6 DEF Alone
      <3>8. ASSUME NEW g \in Execution, g # f PROVE Alone(g)'
        <4>1. Writers(g)' \subseteq Writers(g)
          BY <3>2, <3>8 DEF Writers
        <4>2. \A d \in Starting(g)' : d \in Starting(g) /\ req'[d] = req[d]
          BY <1>a, <2>0 DEF Starting
        <4> QED
          BY <2>0, <4>1, <4>2, AloneKept DEF MInv
      <3>9. \A d \in Caller : Asked(d)'
        BY <1>a, <2>0 DEF MInv, Asked
      <3> QED
        BY <3>7, <3>8, <3>9 DEF MInv
    <2> QED
      BY <2>1, <2>2
  <1>5. CASE StopSession(c)
    BY <1>5, <1>a, <1>c, OtherRequest DEF StopSession
  <1>6. ASSUME NEW e \in Execution, Execute(c, e) PROVE MInv'
    <2>1. row'[e].state = "queued" /\ \A f \in Execution \ {e} : row'[f] = row[f]
      BY <1>6 DEF Execute, NewRow, TInv, TypeOK
    <2>2. /\ \A d \in Caller \ {c} : req'[d] = req[d]
          /\ req'[c].op = "execute" /\ req'[c].exec = e /\ req'[c].pc = "spawn"
      BY <1>0, <1>6 DEF Execute, Idle
    <2>3. Writers(e) = {} /\ Starting(e) = {}
      <3>1. row[e].state = "absent"
        BY <1>6 DEF Execute
      <3>2. Writers(e) = {}
        BY <3>1 DEF SInv, TaskSound, Writers, Exec
      <3>3. Starting(e) = {}
        BY <3>1 DEF SInv, RequestSound, Starting
      <3> QED
        BY <3>2, <3>3
    <2>4. \A f \in Execution : Writers(f)' = Writers(f)
      BY <1>6, <1>c DEF Execute
    <2>5. Alone(e)'
      <3>1. Starting(e)' = {c}
        BY <2>2, <2>3 DEF Starting
      <3> QED
        BY <2>1, <2>3, <2>4, <3>1 DEF Alone
    <2>6. ASSUME NEW f \in Execution, f # e PROVE Alone(f)'
      <3>1. \A d \in Starting(f)' : d \in Starting(f) /\ req'[d] = req[d]
        BY <2>2, <2>6 DEF Starting
      <3> QED
        BY <2>1, <2>4, <2>6, <3>1, AloneKept DEF MInv
    <2>7. \A d \in Caller : Asked(d)'
      BY <2>2 DEF MInv, Asked
    <2> QED
      BY <2>5, <2>6, <2>7 DEF MInv
  <1>7. ASSUME NEW op \in Op, NEW e \in Execution, Load(c, op, e) PROVE MInv'
    <2>0. /\ req[c].pc = "idle" /\ UNCHANGED <<row, task>>
      BY <1>7 DEF Load, Asks
    <2>1. /\ \A d \in Caller \ {c} : req'[d] = req[d]
          /\ req'[c].op = op /\ req'[c].exec = e /\ req'[c].pc \in {"loaded", "commit"}
          /\ op = "retry" => req'[c].pc = "commit"
      BY <1>0, <1>7 DEF Load, AskFor
    <2>2. Asked(c)'
      BY <2>0, <2>1 DEF Asked
    <2>3. CASE op # "retry"
      <3>1. \A f \in Execution : c \notin Starting(f)'
        BY <2>1, <2>3 DEF Starting
      <3> QED
        BY <1>c, <2>0, <2>1, <2>2, <3>1, OtherRequest
    <2>4. CASE op = "retry"
      <3>1. row[e].state = "failed"
        BY <1>7, <2>4 DEF Load, Accepts, CanRetry
      <3>2. Writers(e) = {} /\ \A d \in Starting(e) : req[d].op = "retry" /\ req[d].pc = "commit"
        BY <3>1 DEF MInv, Alone
      <3>3. Starting(e) = {}
        <4> SUFFICES ASSUME NEW d \in Starting(e) PROVE FALSE
          OBVIOUS
        <4>1. d # c /\ req[d].op = "retry" /\ req[d].pc = "commit" /\ req[d].exec = e
          BY <2>0, <3>2 DEF Starting
        <4>2. req'[d] = req[d] /\ d \in Caller
          BY <2>1, <4>1 DEF Starting
        <4> QED
          BY <2>1, <2>4, <4>1, <4>2 DEF RetriesApart
      <3>4. Starting(e)' = {c} /\ Writers(e)' = {}
        BY <1>c, <2>0, <2>1, <2>4, <3>2, <3>3 DEF Starting
      <3>5. Alone(e)'
        BY <2>1, <2>4, <3>4 DEF Alone
      <3>6. ASSUME NEW f \in Execution, f # e PROVE Alone(f)'
        <4>1. \A d \in Starting(f)' : d \in Starting(f) /\ req'[d] = req[d]
          BY <2>1, <3>6 DEF Starting
        <4> QED
          BY <1>c, <2>0, <4>1, AloneKept DEF MInv
      <3>7. \A d \in Caller : Asked(d)'
        BY <2>1, <2>2 DEF MInv, Asked
      <3> QED
        BY <3>5, <3>6, <3>7 DEF MInv
    <2> QED
      BY <2>3, <2>4
  <1>8. CASE AskStop(c)
    <2>1. /\ \A d \in Caller \ {c} : req'[d] = req[d]
          /\ req'[c].op = "stop" /\ req'[c].pc = "session"
      BY <1>0, <1>8 DEF AskStop, Idle
    <2>2. Asked(c)' /\ \A f \in Execution : c \notin Starting(f)'
      BY <2>1 DEF Asked, Starting
    <2> QED
      BY <1>8, <1>c, <2>1, <2>2, OtherRequest DEF AskStop
  <1>9. CASE DeleteSession(c)
    <2>1. \A e \in Execution : row'[e].state = "failed" => row[e].state = "failed"
      BY <1>9 DEF DeleteSession, NewRow
    <2>2. UNCHANGED <<req, task>>
      BY <1>9 DEF DeleteSession
    <2>3. Asked(c)' /\ \A e \in Execution : Starting(e)' = Starting(e)
      BY <1>0, <2>2 DEF Asked, Starting
    <2> QED
      BY <1>c, <2>1, <2>2, <2>3, OtherRequest
  <1> QED
    BY <1>1, <1>2, <1>3, <1>4, <1>5, <1>6, <1>7, <1>8, <1>9 DEF RequestStep, NewRequest

\* No task, no request.
LEMMA InitMInv == Init => MInv
  BY DEF Init, MInv, Alone, Asked, Writers, Starting, Idle, FreeTask, NewTask, NewRow

\* After a crash there is none either.
LEMMA CrashMInv ==
  ASSUME Crash
  PROVE  MInv'
  <1>1. (\A t \in Task : task'[t].pc = "free") /\ (\A c \in Caller : req'[c].pc = "idle")
    BY DEF Crash, FreeTask, NewTask, Idle
  <1>2. \A e \in Execution : Writers(e)' = {} /\ Starting(e)' = {}
    BY <1>1 DEF Writers, Starting
  <1>3. \A c \in Caller : Asked(c)'
    BY <1>1 DEF Asked
  <1> QED
    BY <1>2, <1>3 DEF MInv, Alone

\* Two background tasks never work on one execution, whatever clients ask for and
\* whatever fails, in every behaviour in which no two retries of it overlap.
THEOREM OneAtATime == Spec /\ []RetriesApart => []OneRunner
  <1>1. Init => MInv
    BY InitMInv
  <1>2. TInv /\ SInv /\ CInv /\ MInv /\ RetriesApart' /\ [Next]_vars => MInv'
    <2> SUFFICES ASSUME TInv, SInv, CInv, MInv, RetriesApart', [Next]_vars PROVE MInv'
      OBVIOUS
    <2>1. CASE UNCHANGED vars
      <3>1. \A e \in Execution : Writers(e)' = Writers(e) /\ Starting(e)' = Starting(e)
        BY <2>1 DEF vars, Writers, Starting
      <3> QED
        BY <2>1, <3>1 DEF vars, MInv, Alone, Asked
    <2>2. CASE Next
      BY <2>2, TaskMInv, RequestMInv, CrashMInv DEF Next
    <2> QED
      BY <2>1, <2>2
  <1>3. MInv => OneRunner
    BY DEF MInv, Alone, OneRunner
  <1> QED
    BY <1>1, <1>2, <1>3, Safe, Checkpointed, PTL DEF Spec
=============================================================================
