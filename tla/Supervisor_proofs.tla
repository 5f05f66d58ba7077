-------------------------- MODULE Supervisor_proofs -------------------------
(***************************************************************************)
(* Proofs about Supervisor, for any executions, tasks, dependencies and    *)
(* agents, any capacity, and any finite number of callers, whether they    *)
(* are interrupted and agents registered anew or not.                      *)
(***************************************************************************)
EXTENDS Supervisor, FiniteSetTheorems, TLAPS

(***************************************************************************)
(* A turn of a caller: it leaves the task it was at, if it was at one,     *)
(* some tasks are refused, and one is started or none.                     *)
(***************************************************************************)
Startable == {t \in Task : status[t] \in {"pending", "waiting"}}

Turn(p, refused, t, ld, r) ==
  /\ refused \subseteq Startable
  /\ \/ t \in Startable /\ Starts(t, ld) /\ r.pc = "start" /\ r.task = t
     \/ t = NoTask /\ r.pc \notin Dispatching
  /\ r \in ActorRecord /\ (r.pc \in Dispatching \cup {"loop"} => r.exec \in Execution)
  /\ Dispatch(refused, t, ld)
  /\ actor' = [actor EXCEPT ![p] = r]

\* The loads that a turn begins with.
Left(p, ld) ==
  \/ actor[p].pc \notin Dispatching /\ ld = load
  \/ actor[p].pc \in {"announce", "announce_failure"} /\ ld = RecordCompletion(AgentOf[actor[p].task], load)

TurnOf(p) ==
  /\ \E refused, t, ld, r : Turn(p, refused, t, ld, r) /\ Left(p, ld)
  /\ ctxStatus' \in [Execution -> {"idle", "completed", "failed", "cancelled"}]
  /\ UNCHANGED <<active, token, order, completed, registered, changes>>

LEMMA RestingRecord ==
  ASSUME NEW pc \in {"idle", "loop", "returned", "raised"}, NEW x \in Execution \cup {NoExecution}
  PROVE  /\ Resting(pc, x) \in ActorRecord /\ Resting(pc, x).pc = pc /\ Resting(pc, x).exec = x
         /\ pc \notin Dispatching
  BY DEF Resting, ActorRecord, Dispatching

\* A caller that refuses and starts nothing.
LEMMA RestTurn ==
  ASSUME TypeOK, NEW p \in Actor, NEW ld, NEW r \in ActorRecord, r.pc \notin Dispatching,
         r.pc = "loop" => r.exec \in Execution,
         actor' = [actor EXCEPT ![p] = r], load' = ld, UNCHANGED <<status, failed>>
  PROVE  Turn(p, {}, NoTask, ld, r)
  <1>1. status' = [u \in Task |-> status[u]] /\ NoTask \notin Task
    BY SupervisorAssumption DEF TypeOK
  <1>2. status' = [u \in Task |-> IF u = NoTask THEN "running" ELSE IF u \in {} THEN Refusal(u) ELSE status[u]]
    BY <1>1
  <1>3. Dispatch({}, NoTask, ld)
    BY <1>2 DEF Dispatch
  <1> QED BY <1>3 DEF Turn

LEMMA RestingTurn ==
  ASSUME TypeOK, NEW p \in Actor, NEW ld, NEW pc \in {"idle", "loop", "returned", "raised"}, NEW x \in Execution,
         actor' = [actor EXCEPT ![p] = Resting(pc, x)], load' = ld, UNCHANGED <<status, failed>>
  PROVE  Turn(p, {}, NoTask, ld, Resting(pc, x))
  <1> DEFINE r == Resting(pc, x)
  <1>1. r \in ActorRecord /\ r.pc \notin Dispatching /\ r.exec \in Execution
    BY RestingRecord
  <1>2. actor' = [actor EXCEPT ![p] = r]
    OBVIOUS
  <1> HIDE DEF r
  <1>3. Turn(p, {}, NoTask, ld, r)
    BY <1>1, <1>2, RestTurn
  <1> QED BY <1>3 DEF r

LEMMA ScanTurn ==
  ASSUME TypeOK, NEW p \in Actor, NEW x \in Execution, NEW from \in Nat \ {0}, NEW size \in Nat, NEW ld,
         Scan(p, x, from, size, ld)
  PROVE  \E refused, t, r : Turn(p, refused, t, ld, r)
  <1> DEFINE ready  == {i \in from .. Len(order[x]) : Ready(order[x][i])}
             begins == {i \in ready : Starts(order[x][i], ld)}
             Before(i) == {order[x][j] : j \in {k \in ready : k < i}}
  <1>1. order[x] \in Seq(Task) /\ Len(order[x]) \in Nat
    BY DEF TypeOK
  <1>2. \A i \in ready : i \in 1 .. Len(order[x]) /\ order[x][i] \in Startable
    <2>1. \A i \in ready : i \in 1 .. Len(order[x]) /\ Ready(order[x][i])
      BY <1>1
    <2> QED BY <1>1, <2>1 DEF Ready, DependenciesMet, Startable
  <1>3. \A i : Before(i) \subseteq Startable
    BY <1>2
  <1>4. CASE /\ actor' = [actor EXCEPT ![p] = Resting("raised", x)]
             /\ load' = ld
             /\ UNCHANGED <<status, failed>>
    BY <1>4, RestingTurn
  <1>5. CASE /\ Dispatch(Before(size + 1), NoTask, ld)
             /\ actor' = [actor EXCEPT ![p] = After(p, x)]
    <2>1. After(p, x) \in ActorRecord /\ After(p, x).pc \notin Dispatching /\ After(p, x).exec = x
      BY RestingRecord DEF After
    <2> HIDE DEF Before
    <2>2. Turn(p, Before(size + 1), NoTask, ld, After(p, x))
      BY <1>3, <1>5, <2>1 DEF Turn
    <2> QED BY <2>2
  <1>6. ASSUME NEW i \in begins, Dispatch(Before(i), order[x][i], ld),
               actor' = [actor EXCEPT ![p] = [pc |-> "start", exec |-> x, task |-> order[x][i],
                                              pos |-> i, size |-> size]]
        PROVE  \E refused, t, r : Turn(p, refused, t, ld, r)
    <2> DEFINE r == [pc |-> "start", exec |-> x, task |-> order[x][i], pos |-> i, size |-> size]
    <2>1. i \in ready /\ Starts(order[x][i], ld)
      OBVIOUS
    <2>2. i \in Nat /\ order[x][i] \in Startable
      BY <1>1, <1>2, <2>1
    <2>3. r \in ActorRecord /\ r.pc = "start" /\ r.task = order[x][i] /\ r.exec = x
      BY <2>2 DEF ActorRecord, Dispatching, Startable
    <2>4. actor' = [actor EXCEPT ![p] = r]
      BY <1>6
    <2> HIDE DEF r, Before, ready, begins
    <2>5. Turn(p, Before(i), order[x][i], ld, r)
      BY <1>3, <1>6, <2>1, <2>2, <2>3, <2>4 DEF Turn
    <2> QED BY <2>5
  <1> QED BY <1>4, <1>5, <1>6 DEF Scan

(***************************************************************************)
(* The steps                                                               *)
(***************************************************************************)
LEMMA WaitTurn == ASSUME TypeOK, NEW p \in Actor, NEW x \in Execution, Wait(p, x) PROVE TurnOf(p)
  <1>1. actor[p].pc \notin Dispatching /\ Left(p, load)
    BY DEF Wait, Dispatching, Left
  <1>2. Turn(p, {}, NoTask, load, Resting("loop", x))
    BY RestingTurn DEF Wait, registry
  <1> QED BY <1>1, <1>2 DEF TurnOf, Wait, registry, TypeOK

LEMMA ActorFields ==
  ASSUME TypeOK, NEW p \in Actor
  PROVE  /\ actor[p] \in ActorRecord /\ actor[p].pos \in Nat /\ actor[p].size \in Nat
         /\ actor[p].exec \in Execution \cup {NoExecution} /\ actor[p].task \in Task \cup {NoTask}
  BY DEF TypeOK, ActorRecord

LEMMA LoopTurn ==
  ASSUME TypeOK, NEW p \in Actor, actor[p].exec \in Execution, Loop(p)
  PROVE  TurnOf(p)
  <1> DEFINE x == actor[p].exec
  <1>1. Left(p, load)
    BY DEF Loop, Dispatching, Left
  <1>2. UNCHANGED <<active, token, order, completed, registered, changes>>
    BY DEF Loop
  <1>3. ASSUME NEW c \in {"cancelled", "completed", "failed"}, ctxStatus' = [ctxStatus EXCEPT ![x] = c],
               actor' = [actor EXCEPT ![p] = Resting("returned", x)],
               UNCHANGED <<status, failed, load>>
        PROVE  TurnOf(p)
    <2>1. Turn(p, {}, NoTask, load, Resting("returned", x))
      BY <1>3, RestingTurn
    <2> QED BY <1>1, <1>2, <1>3, <2>1 DEF TurnOf, TypeOK
  <1>4. CASE Scan(p, x, 1, Len(order[x]), load) /\ UNCHANGED ctxStatus
    <2>1. Len(order[x]) \in Nat /\ 1 \in Nat \ {0}
      BY DEF TypeOK
    <2>2. \E refused, t, r : Turn(p, refused, t, load, r)
      BY <1>4, <2>1, ScanTurn
    <2> QED BY <1>1, <1>2, <1>4, <2>2 DEF TurnOf, TypeOK
  <1>5. Verdict(x) \in {"completed", "failed"}
    BY DEF Verdict
  <1> QED BY <1>3, <1>4, <1>5 DEF Loop

LEMMA DispatchReadyTurn ==
  ASSUME TypeOK, NEW p \in Actor, NEW x \in Execution, DispatchReady(p, x)
  PROVE  TurnOf(p)
  <1>1. Left(p, load)
    BY DEF DispatchReady, Dispatching, Left
  <1>2. Len(order[x]) \in Nat /\ 1 \in Nat \ {0}
    BY DEF TypeOK
  <1>3. \E refused, t, r : Turn(p, refused, t, load, r)
    BY <1>2, ScanTurn DEF DispatchReady
  <1> QED BY <1>1, <1>3 DEF TurnOf, DispatchReady, TypeOK

LEMMA EndDispatchTurn ==
  ASSUME TypeOK, NEW p \in Actor, actor[p].exec \in Execution, EndDispatch(p)
  PROVE  TurnOf(p)
  <1> DEFINE x == actor[p].exec
             ld == RecordCompletion(AgentOf[actor[p].task], load)
  <1>1. Left(p, ld)
    BY DEF EndDispatch, Left
  <1>2. actor[p].pos + 1 \in Nat \ {0} /\ actor[p].size \in Nat
    BY ActorFields
  <1>3. Scan(p, x, actor[p].pos + 1, actor[p].size, ld)
    BY DEF EndDispatch
  <1>4. \E refused, t, r : Turn(p, refused, t, ld, r)
    BY <1>2, <1>3, ScanTurn
  <1> QED BY <1>1, <1>4 DEF TurnOf, EndDispatch, TypeOK

(***************************************************************************)
(* The invariant                                                           *)
(***************************************************************************)
\* A caller that waits or works is at an execution.
Placed(p) == actor[p].pc \in Dispatching \cup {"loop"} => actor[p].exec \in Execution

\* The statuses of a task that nobody was dispatched to yet.
Unstarted == {"absent", "pending", "waiting"}

\* What a caller that works on a task knows of it.  Its status is not among those from
\* which a task is dispatched, which keeps the other callers away from it.
AtWork(p) ==
  LET t == actor[p].task IN
  actor[p].pc \in Dispatching =>
    /\ t \in Task /\ status[t] \notin Unstarted /\ Deps[t] \subseteq completed
    /\ actor[p].pc \in {"start", "agent"} => t \notin completed
    /\ actor[p].pc \in {"start", "agent", "announce"} => t \notin failed
    /\ actor[p].pc = "announce_failure" => t \notin completed

\* A task that nobody was dispatched to has no outcome.
NoOutcome == \A t \in Task : status[t] \in Unstarted => t \notin completed \cup failed

SInv ==
  /\ TypeOK
  /\ \A p \in Actor : Placed(p) /\ AtWork(p)
  /\ NoOutcome
  /\ OneDispatchPerTask
  /\ BothOutcomesMeanInterrupted

LEMMA RefusalStatus ==
  ASSUME NEW t PROVE Refusal(t) \in {"cancelled", "waiting", "failed"}
  BY DEF Refusal, DependenciesMet

LEMMA StartedNotRefused ==
  ASSUME NEW t, NEW ld, Starts(t, ld) PROVE Refusal(t) # "failed"
  BY DEF Starts, DependenciesMet, Refusal, CanExecute

LEMMA RecordTypes ==
  ASSUME NEW ld \in [Agent -> 0 .. MaxConcurrent], NEW a \in Agent
  PROVE  /\ RecordUse(a, ld) \in [Agent -> 0 .. MaxConcurrent]
         /\ RecordCompletion(a, ld) \in [Agent -> 0 .. MaxConcurrent]
  BY SupervisorAssumption DEF RecordUse, RecordCompletion

LEMMA InitSInv == Init => SInv
  <1> SUFFICES ASSUME Init PROVE SInv
    OBVIOUS
  <1>1. \A p \in Actor : actor[p] = Resting("idle", NoExecution)
    BY DEF Init
  <1>2. /\ Resting("idle", NoExecution) \in ActorRecord /\ Resting("idle", NoExecution).pc = "idle"
        /\ "idle" \notin Dispatching \cup {"loop"}
    BY RestingRecord DEF Dispatching
  <1>3. TypeOK
    <2>1. actor \in [Actor -> ActorRecord]
      BY <1>1, <1>2 DEF Init
    <2> QED BY <2>1, SupervisorAssumption DEF Init, TypeOK, TaskStatus
  <1>4. (\A p \in Actor : Placed(p) /\ AtWork(p)) /\ OneDispatchPerTask
    BY <1>1, <1>2 DEF Placed, AtWork, OneDispatchPerTask
  <1>5. NoOutcome /\ BothOutcomesMeanInterrupted
    BY DEF Init, NoOutcome, BothOutcomesMeanInterrupted
  <1> QED BY <1>3, <1>4, <1>5 DEF SInv

\* What a turn makes of the statuses.
LEMMA TurnStatus ==
  ASSUME TypeOK, NEW p \in Actor, NEW refused, NEW t, NEW ld, NEW r, Turn(p, refused, t, ld, r)
  PROVE  /\ \A u \in Task : \/ status'[u] = status[u] /\ (u \in failed' => u \in failed) /\ u # t
                            \/ u \in Startable /\ u # t /\ status'[u] \in {"cancelled", "waiting"}
                                 /\ (u \in failed' => u \in failed)
                            \/ u \in Startable /\ u # t /\ status'[u] = "failed"
                            \/ u \in Startable /\ u = t /\ status'[u] = "running"
         /\ status' \in [Task -> TaskStatus] /\ failed \subseteq failed' /\ failed' \subseteq Task
  <1>1. \A u \in Task : status'[u] = IF u = t THEN "running" ELSE IF u \in refused THEN Refusal(u) ELSE status[u]
    BY DEF Turn, Dispatch
  <1>2. failed' = failed \cup {u \in refused : Refusal(u) = "failed"} /\ refused \subseteq Startable
    BY DEF Turn, Dispatch
  <1>3. t \in Task => t \in Startable
    BY SupervisorAssumption DEF Turn
  <1>4. status' \in [Task -> TaskStatus]
    BY RefusalStatus DEF Turn, Dispatch, TypeOK, TaskStatus
  <1>5. failed' \subseteq Task
    BY <1>2 DEF TypeOK, Startable
  <1> QED BY <1>1, <1>2, <1>3, <1>4, <1>5, RefusalStatus

LEMMA TurnInv == ASSUME SInv, NEW p \in Actor, TurnOf(p) PROVE SInv'
  <1>1. PICK refused, t, ld, r : Turn(p, refused, t, ld, r) /\ Left(p, ld)
    BY DEF TurnOf
  <1>2. /\ completed' = completed /\ r \in ActorRecord /\ actor' = [actor EXCEPT ![p] = r]
        /\ r.pc \in Dispatching \cup {"loop"} => r.exec \in Execution
        /\ \/ t \in Startable /\ Starts(t, ld) /\ r.pc = "start" /\ r.task = t
           \/ t = NoTask /\ r.pc \notin Dispatching
    BY <1>1 DEF Turn, TurnOf
  <1>3. /\ TypeOK /\ NoOutcome /\ OneDispatchPerTask /\ BothOutcomesMeanInterrupted
        /\ \A q \in Actor : Placed(q) /\ AtWork(q)
    BY DEF SInv
  <1>4. actor'[p] = r /\ \A q \in Actor \ {p} : actor'[q] = actor[q]
    BY <1>2, <1>3 DEF TypeOK
  <1>5. /\ \A u \in Task : \/ status'[u] = status[u] /\ (u \in failed' => u \in failed) /\ u # t
                           \/ u \in Startable /\ u # t /\ status'[u] \in {"cancelled", "waiting"}
                                /\ (u \in failed' => u \in failed)
                           \/ u \in Startable /\ u # t /\ status'[u] = "failed"
                           \/ u \in Startable /\ u = t /\ status'[u] = "running"
        /\ status' \in [Task -> TaskStatus] /\ failed \subseteq failed' /\ failed' \subseteq Task
    BY <1>1, <1>3, TurnStatus
  <1>6. t \in Startable => /\ Deps[t] \subseteq completed /\ AgentOf[t] \in Agent /\ t \notin completed \cup failed
    BY <1>2, <1>3, SupervisorAssumption DEF Starts, DependenciesMet, Startable, NoOutcome, Unstarted
  <1>7. TypeOK'
    <2>1. ld \in [Agent -> 0 .. MaxConcurrent]
      <3>1. CASE ld = load
        BY <1>3, <3>1 DEF TypeOK
      <3>2. CASE actor[p].pc \in {"announce", "announce_failure"} /\ ld = RecordCompletion(AgentOf[actor[p].task], load)
        <4>1. AgentOf[actor[p].task] \in Agent
          BY <1>3, <3>2, SupervisorAssumption DEF AtWork, Dispatching
        <4> QED BY <1>3, <3>2, <4>1, RecordTypes DEF TypeOK
      <3> QED BY <1>1, <3>1, <3>2 DEF Left
    <2>2. load' \in [Agent -> 0 .. MaxConcurrent]
      BY <1>1, <1>2, <1>6, <2>1, RecordTypes DEF Turn, Dispatch
    <2>3. actor' \in [Actor -> ActorRecord]
      BY <1>2, <1>3 DEF TypeOK
    <2> QED BY <1>3, <1>5, <2>2, <2>3 DEF TypeOK, TurnOf
  <1>8. ASSUME NEW q \in Actor PROVE Placed(q)' /\ AtWork(q)'
    <2>1. CASE q = p
      <3>1. Placed(q)'
        BY <1>2, <1>4, <2>1 DEF Placed
      <3>2. CASE t \in Startable
        <4>1. status'[t] = "running" /\ t \notin failed'
          BY <1>1, <1>2, <1>5, <1>6, <3>2, SupervisorAssumption, StartedNotRefused DEF Turn, Dispatch, Startable
        <4> QED BY <1>2, <1>4, <1>6, <2>1, <3>1, <3>2, <4>1 DEF AtWork, Startable, Unstarted, Dispatching
      <3>3. CASE t \notin Startable
        BY <1>2, <1>4, <2>1, <3>1, <3>3 DEF AtWork
      <3> QED BY <3>2, <3>3
    <2>2. CASE q # p
      <3>1. actor'[q] = actor[q] /\ Placed(q) /\ AtWork(q)
        BY <1>3, <1>4, <2>2
      <3>2. \A u \in Task : status[u] \notin Unstarted => status'[u] = status[u] /\ (u \in failed' => u \in failed)
        BY <1>5 DEF Unstarted, Startable
      <3> QED BY <1>2, <3>1, <3>2 DEF Placed, AtWork
    <2> QED BY <2>1, <2>2
  <1>9. NoOutcome'
    BY <1>2, <1>3, <1>5 DEF NoOutcome, Unstarted, Startable
  <1>10. OneDispatchPerTask'
    <2>1. ASSUME NEW q \in Actor \ {p}, actor'[q].pc \in Dispatching, actor'[p].pc \in Dispatching
          PROVE  actor'[q].task # actor'[p].task
      BY <1>2, <1>3, <1>4, <2>1 DEF AtWork, Unstarted, Startable
    <2> QED BY <1>3, <1>4, <2>1 DEF OneDispatchPerTask
  <1>11. BothOutcomesMeanInterrupted'
    <2> SUFFICES ASSUME NEW u \in Task, u \in completed, u \in failed' PROVE status'[u] = "cancelled" /\ Interrupts
      BY <1>2, <1>3 DEF BothOutcomesMeanInterrupted, TypeOK
    <2>1. u \notin Startable
      BY <1>3 DEF NoOutcome, Startable, Unstarted
    <2> QED BY <1>3, <1>5, <2>1 DEF BothOutcomesMeanInterrupted
  <1> QED BY <1>7, <1>8, <1>9, <1>10, <1>11 DEF SInv

\* A step that leaves the callers alone, and the outcomes: a task is added, what runs is
\* marked as cancelled, an execution or an agent comes or goes.
LEMMA OutsideInv ==
  ASSUME SInv, UNCHANGED <<actor, completed, failed>>, TypeOK',
         \A t \in Task : \/ status'[t] = status[t]
                         \/ status[t] \in Unstarted /\ status'[t] \in Unstarted
                         \/ status[t] = "running" /\ status'[t] = "cancelled"
  PROVE  SInv'
  <1>1. \A t \in Task : /\ status'[t] \in Unstarted <=> status[t] \in Unstarted
                        /\ status[t] = "cancelled" => status'[t] = "cancelled"
    BY DEF Unstarted
  <1>2. \A p \in Actor : Placed(p)' /\ AtWork(p)'
    BY <1>1 DEF SInv, Placed, AtWork
  <1>3. NoOutcome' /\ OneDispatchPerTask'
    BY <1>1 DEF SInv, NoOutcome, OneDispatchPerTask
  <1>4. BothOutcomesMeanInterrupted'
    BY <1>1 DEF SInv, TypeOK, BothOutcomesMeanInterrupted
  <1> QED BY <1>2, <1>3, <1>4 DEF SInv

LEMMA EnvironmentInv ==
  ASSUME SInv,
         \/ \E x \in Execution : Submit(x) \/ Cancel(x) \/ Cleanup(x)
         \/ \E t \in Task : AddTask(t)
         \/ \E a \in Agent : Register(a) \/ Unregister(a)
  PROVE  SInv'
  <1>0. TypeOK
    BY DEF SInv
  <1>1. ASSUME NEW x \in Execution, Submit(x) \/ Cleanup(x) PROVE SInv'
    <2>1. TypeOK'
      BY <1>0, <1>1 DEF TypeOK, Submit, Cleanup, registry
    <2> QED BY <1>1, <2>1, OutsideInv DEF Submit, Cleanup
  <1>2. ASSUME NEW x \in Execution, Cancel(x) PROVE SInv'
    <2>1. TypeOK'
      BY <1>0, <1>2 DEF TypeOK, Cancel, registry, TaskStatus
    <2>2. \A t \in Task : status'[t] = status[t] \/ (status[t] = "running" /\ status'[t] = "cancelled")
      BY <1>2 DEF Cancel
    <2> QED BY <1>2, <2>1, <2>2, OutsideInv DEF Cancel
  <1>3. ASSUME NEW t \in Task, AddTask(t) PROVE SInv'
    <2>1. order' \in [Execution -> Seq(Task)]
      <3>1. ExecOf[t] \in Execution /\ order[ExecOf[t]] \in Seq(Task)
        BY <1>0, SupervisorAssumption DEF TypeOK
      <3>2. Append(order[ExecOf[t]], t) \in Seq(Task)
        BY <3>1
      <3> QED BY <1>0, <1>3, <3>1, <3>2 DEF TypeOK, AddTask
    <2>2. TypeOK'
      BY <1>0, <1>3, <2>1 DEF TypeOK, AddTask, registry, TaskStatus
    <2>3. \A u \in Task : status'[u] = status[u] \/ (status[u] \in Unstarted /\ status'[u] \in Unstarted)
      BY <1>0, <1>3 DEF AddTask, TypeOK, Unstarted
    <2> QED BY <1>3, <2>2, <2>3, OutsideInv DEF AddTask
  <1>4. ASSUME NEW a \in Agent, Register(a) \/ Unregister(a) PROVE SInv'
    <2>1. changes' \in 0 .. MaxChanges
      BY <1>0, <1>4, SupervisorAssumption DEF TypeOK, Register, Unregister
    <2>2. load' \in [Agent -> 0 .. MaxConcurrent]
      <3>1. 0 \in 0 .. MaxConcurrent /\ load' = [load EXCEPT ![a] = 0]
        BY <1>4, SupervisorAssumption DEF Register, Unregister
      <3> QED BY <1>0, <3>1 DEF TypeOK
    <2>3. registered' \in [Agent -> BOOLEAN]
      BY <1>0, <1>4 DEF TypeOK, Register, Unregister
    <2>4. TypeOK'
      BY <1>0, <1>4, <2>1, <2>2, <2>3 DEF TypeOK, Register, Unregister
    <2> QED BY <1>4, <2>4, OutsideInv DEF Register, Unregister
  <1> QED BY <1>1, <1>2, <1>3, <1>4

LEMMA StartedInv == ASSUME SInv, NEW p \in Actor, Started(p) PROVE SInv'
  <1>1. actor[p].pc = "start" /\ actor' = [actor EXCEPT ![p].pc = "agent"] /\ actor[p] \in ActorRecord
    BY DEF Started, SInv, TypeOK
  <1> DEFINE r == [actor[p] EXCEPT !.pc = "agent"]
  <1>2. r \in ActorRecord /\ r.pc = "agent" /\ r.task = actor[p].task /\ r.exec = actor[p].exec
    BY <1>1 DEF ActorRecord, Dispatching
  <1>3. actor'[p] = r /\ \A q \in Actor \ {p} : actor'[q] = actor[q]
    BY <1>1 DEF SInv, TypeOK
  <1>4. TypeOK'
    BY <1>1, <1>2 DEF SInv, TypeOK, Started, registry
  <1> HIDE DEF r
  <1>5. \A q \in Actor : Placed(q)' /\ AtWork(q)'
    BY <1>1, <1>2, <1>3 DEF SInv, Placed, AtWork, Dispatching, Started
  <1>6. OneDispatchPerTask'
    BY <1>1, <1>2, <1>3 DEF SInv, OneDispatchPerTask, Dispatching
  <1>7. NoOutcome' /\ BothOutcomesMeanInterrupted'
    BY DEF SInv, NoOutcome, BothOutcomesMeanInterrupted, Started
  <1> QED BY <1>4, <1>5, <1>6, <1>7 DEF SInv

\* The agent is done: the task has this outcome, and no other caller is at it.
LEMMA OutcomeInv ==
  ASSUME SInv, NEW p \in Actor, actor[p].pc = "agent", AgentReturns(p) \/ AgentRaises(p)
  PROVE  SInv'
  <1> DEFINE t == actor[p].task
  <1>0. /\ TypeOK /\ AtWork(p) /\ actor[p] \in ActorRecord
        /\ NoOutcome /\ OneDispatchPerTask /\ BothOutcomesMeanInterrupted
        /\ \A q \in Actor : Placed(q) /\ AtWork(q)
    BY DEF SInv, TypeOK
  <1>1. t \in Task /\ status[t] \notin Unstarted /\ t \notin completed /\ t \notin failed
    BY <1>0 DEF AtWork, Dispatching
  <1>2. PICK pc \in {"announce", "announce_failure"} :
          /\ actor' = [actor EXCEPT ![p].pc = pc]
          /\ pc = "announce" => completed' = completed \cup {t} /\ failed' = failed
                                  /\ status' = [status EXCEPT ![t] = "completed"]
          /\ pc = "announce_failure" => completed' = completed /\ failed' = failed \cup {t}
                                          /\ status' = [status EXCEPT ![t] = "failed"]
    BY DEF AgentReturns, AgentRaises
  <1> DEFINE r == [actor[p] EXCEPT !.pc = pc]
  <1>3. r \in ActorRecord /\ r.pc = pc /\ r.task = t /\ r.exec = actor[p].exec
    BY <1>0 DEF ActorRecord, Dispatching
  <1>4. actor'[p] = r /\ \A q \in Actor \ {p} : actor'[q] = actor[q]
    BY <1>0, <1>2 DEF TypeOK
  <1>5. /\ status'[t] \in {"completed", "failed"} /\ \A u \in Task \ {t} : status'[u] = status[u]
        /\ status' \in [Task -> TaskStatus]
    BY <1>0, <1>1, <1>2 DEF TypeOK, TaskStatus
  <1>6. TypeOK'
    <2>1. actor' \in [Actor -> ActorRecord]
      BY <1>0, <1>2, <1>3 DEF TypeOK
    <2> QED BY <1>0, <1>1, <1>2, <1>5, <2>1 DEF TypeOK, AgentReturns, AgentRaises, registry
  <1>7. \A q \in Actor \ {p} : actor[q].pc \in Dispatching => actor[q].task # t
    BY <1>0 DEF OneDispatchPerTask, Dispatching
  <1> HIDE DEF r, t
  <1>8. ASSUME NEW q \in Actor PROVE Placed(q)' /\ AtWork(q)'
    <2>1. CASE q = p
      BY <1>0, <1>1, <1>2, <1>3, <1>4, <1>5, <2>1 DEF Placed, AtWork, Dispatching, Unstarted, t
    <2>2. CASE q # p
      BY <1>0, <1>2, <1>4, <1>5, <1>7, <2>2 DEF Placed, AtWork
    <2> QED BY <2>1, <2>2
  <1>9. OneDispatchPerTask'
    BY <1>0, <1>2, <1>3, <1>4, <1>7 DEF OneDispatchPerTask, Dispatching, t
  <1>10. NoOutcome'
    BY <1>0, <1>2, <1>5 DEF NoOutcome, Unstarted
  <1>11. BothOutcomesMeanInterrupted'
    BY <1>0, <1>1, <1>2, <1>5 DEF BothOutcomesMeanInterrupted, TypeOK
  <1> QED BY <1>6, <1>8, <1>9, <1>10, <1>11 DEF SInv

LEMMA InterruptInv == ASSUME SInv, NEW p \in Actor, Interrupt(p) PROVE SInv'
  <1> DEFINE t == actor[p].task
             r == Resting("raised", actor[p].exec)
             inTry == actor[p].pc \in {"start", "agent", "announce"}
  <1>0. /\ TypeOK /\ AtWork(p) /\ actor[p] \in ActorRecord
        /\ NoOutcome /\ OneDispatchPerTask /\ BothOutcomesMeanInterrupted
        /\ \A q \in Actor : Placed(q) /\ AtWork(q)
    BY DEF SInv, TypeOK
  <1>1. inTry => actor[p].pc \in Dispatching /\ t \in Task
    BY <1>0 DEF AtWork, Dispatching
  <1>2. r \in ActorRecord /\ r.pc = "raised" /\ "raised" \notin Dispatching \cup {"loop"}
    <2>1. actor[p].exec \in Execution \cup {NoExecution}
      BY <1>0 DEF ActorRecord
    <2> QED BY <2>1, RestingRecord DEF Dispatching
  <1>3. actor' = [actor EXCEPT ![p] = r]
    BY DEF Interrupt
  <1>4. actor'[p] = r /\ \A q \in Actor \ {p} : actor'[q] = actor[q]
    BY <1>0, <1>3 DEF TypeOK
  <1>5. /\ \A u \in Task : IF inTry /\ u = t THEN status'[u] = "cancelled" ELSE status'[u] = status[u]
        /\ status' \in [Task -> TaskStatus]
    BY <1>0, <1>1 DEF Interrupt, TypeOK, TaskStatus
  <1>6. completed' = completed /\ failed' = (IF inTry THEN failed \cup {t} ELSE failed) /\ Interrupts
    BY DEF Interrupt
  <1>7. TypeOK'
    <2>1. load' \in [Agent -> 0 .. MaxConcurrent]
      <3>1. actor[p].pc # "loop" => AgentOf[t] \in Agent
        BY <1>0, SupervisorAssumption DEF Interrupt, AtWork
      <3> QED BY <1>0, <3>1, RecordTypes DEF TypeOK, Interrupt
    <2>2. actor' \in [Actor -> ActorRecord]
      BY <1>0, <1>2, <1>3 DEF TypeOK
    <2> QED BY <1>0, <1>1, <1>5, <1>6, <2>1, <2>2 DEF TypeOK, Interrupt
  <1>8. inTry => \A q \in Actor \ {p} : actor[q].pc \in Dispatching => actor[q].task # t
    BY <1>0, <1>1 DEF OneDispatchPerTask
  <1> HIDE DEF r, t, inTry
  <1>9. ASSUME NEW q \in Actor PROVE Placed(q)' /\ AtWork(q)'
    <2>1. CASE q = p
      BY <1>2, <1>4, <2>1 DEF Placed, AtWork
    <2>2. CASE q # p
      BY <1>0, <1>4, <1>5, <1>6, <1>8, <2>2 DEF Placed, AtWork
    <2> QED BY <2>1, <2>2
  <1>10. OneDispatchPerTask'
    BY <1>0, <1>2, <1>4 DEF OneDispatchPerTask
  <1>11. NoOutcome'
    BY <1>0, <1>5, <1>6 DEF NoOutcome, Unstarted
  <1>12. BothOutcomesMeanInterrupted'
    BY <1>0, <1>5, <1>6 DEF BothOutcomesMeanInterrupted, TypeOK
  <1> QED BY <1>7, <1>9, <1>10, <1>11, <1>12 DEF SInv

Outside ==
  \/ \E x \in Execution : Submit(x) \/ Cancel(x) \/ Cleanup(x)
  \/ \E t \in Task : AddTask(t)
  \/ \E a \in Agent : Register(a) \/ Unregister(a)

LEMMA StepCases ==
  ASSUME SInv, [Next]_vars
  PROVE  \/ UNCHANGED vars
         \/ Outside
         \/ \E p \in Actor : TurnOf(p) \/ Started(p) \/ AgentReturns(p) \/ AgentRaises(p) \/ Interrupt(p)
  <1>1. TypeOK /\ \A p \in Actor : Placed(p)
    BY DEF SInv
  <1>2. \A p \in Actor : Loop(p) \/ EndDispatch(p) => actor[p].exec \in Execution
    BY <1>1 DEF Placed, Loop, EndDispatch, Dispatching
  <1>3. \A p \in Actor : Loop(p) \/ EndDispatch(p) => TurnOf(p)
    BY <1>1, <1>2, LoopTurn, EndDispatchTurn
  <1>4. \A p \in Actor, x \in Execution : Wait(p, x) \/ DispatchReady(p, x) => TurnOf(p)
    BY <1>1, WaitTurn, DispatchReadyTurn
  <1> QED BY <1>3, <1>4 DEF Next, Proceed, Outside

LEMMA SInvStep == SInv /\ [Next]_vars => SInv'
  <1> SUFFICES ASSUME SInv, [Next]_vars PROVE SInv'
    OBVIOUS
  <1>1. CASE UNCHANGED vars
    BY <1>1 DEF vars, SInv, TypeOK, Placed, AtWork, NoOutcome, OneDispatchPerTask, BothOutcomesMeanInterrupted
  <1>2. CASE Outside
    BY <1>2, EnvironmentInv DEF Outside
  <1>3. ASSUME NEW p \in Actor, AgentReturns(p) \/ AgentRaises(p) PROVE SInv'
    BY <1>3, OutcomeInv DEF AgentReturns, AgentRaises
  <1> QED BY <1>1, <1>2, <1>3, StepCases, TurnInv, StartedInv, InterruptInv

\* No sequence of scans, interruptions and registrations takes the
\* state out of its types; the load of an agent stays between 0 and its capacity.
THEOREM TypeCorrect == Spec => []TypeOK
  <1>1. SInv => TypeOK
    BY DEF SInv
  <1> QED BY <1>1, InitSInv, SInvStep, PTL DEF Spec

\* An agent works on a task only after the dependencies of the task completed, whether
\* a scan dispatched it.
THEOREM DependenciesComeFirst == Spec => []DependenciesFirst
  <1>1. SInv => DependenciesFirst
    BY DEF SInv, DependenciesFirst, AtWork
  <1> QED BY <1>1, InitSInv, SInvStep, PTL DEF Spec

\* However many callers wait for an execution or dispatch its tasks, no task is run by
\* two of them at a time.
THEOREM DispatchedOnce == Spec => []OneDispatchPerTask
  <1>1. SInv => OneDispatchPerTask
    BY DEF SInv
  <1> QED BY <1>1, InitSInv, SInvStep, PTL DEF Spec

\* A task counts as completed and as failed only if its caller was interrupted after the
\* agent returned.
THEOREM OutcomesExclusive == Spec => []BothOutcomesMeanInterrupted
  <1>1. SInv => BothOutcomesMeanInterrupted
    BY DEF SInv
  <1> QED BY <1>1, InitSInv, SInvStep, PTL DEF Spec

\* Once an execution is cancelled no agent starts on a task of it: each start looks at
\* the token, those of a scan that began before as well.
THEOREM NoStartAfterCancel == Spec => NothingStartsAfterCancel
  <1> DEFINE Quiet == \A t \in Task : token[ExecOf[t]] => ~(status[t] # "running" /\ status'[t] = "running")
  <1>1. SInv /\ [Next]_vars => [Quiet]_vars
    <2> SUFFICES ASSUME SInv, [Next]_vars, NEW u \in Task, token[ExecOf[u]], status[u] # "running"
                 PROVE  status'[u] # "running"
      OBVIOUS
    <2>1. CASE UNCHANGED vars
      BY <2>1 DEF vars
    <2>2. CASE Outside
      BY <2>2 DEF Outside, Submit, Cancel, Cleanup, AddTask, Register, Unregister, SInv, TypeOK
    <2>3. ASSUME NEW p \in Actor, TurnOf(p) PROVE status'[u] # "running"
      <3>1. PICK refused, t, ld, r : Turn(p, refused, t, ld, r)
        BY <2>3 DEF TurnOf
      <3>2. status'[u] = "running" => u = t
        BY <3>1, TurnStatus DEF SInv
      <3>3. t \in Task => Starts(t, ld)
        BY <3>1, SupervisorAssumption DEF Turn
      <3> QED BY <3>2, <3>3 DEF Starts, DependenciesMet
    <2>4. ASSUME NEW p \in Actor, Started(p) \/ AgentReturns(p) \/ AgentRaises(p) \/ Interrupt(p)
          PROVE  status'[u] # "running"
      BY <2>4 DEF Started, AgentReturns, AgentRaises, Interrupt, SInv, TypeOK
    <2> QED BY <2>1, <2>2, <2>3, <2>4, StepCases
  <1>2. NothingStartsAfterCancel <=> [][Quiet]_vars
    BY DEF NothingStartsAfterCancel
  <1> QED BY <1>1, <1>2, InitSInv, SInvStep, PTL DEF Spec

(***************************************************************************)
(* The verdict of wait_for_completion                                      *)
(***************************************************************************)
\* Why a task is over: a task that failed is in failed_tasks, and so is one that was
\* cancelled, unless its execution was.
Explained ==
  \A t \in Task : /\ status[t] = "failed" => t \in failed
                  /\ status[t] = "cancelled" => t \in failed \/ token[ExecOf[t]]

VInv ==
  /\ Explained
  /\ \A x \in Execution : /\ \A t \in Added(x) : t \in Task /\ ExecOf[t] = x
                          /\ token[x] => active[x] # "none"

LEMMA VInvKept ==
  ASSUME VInv, UNCHANGED <<active, token, order>>, Explained' PROVE VInv'
  BY DEF VInv, Added

LEMMA TurnExplained == ASSUME SInv, VInv, NEW p \in Actor, TurnOf(p) PROVE VInv'
  <1>1. PICK refused, t, ld, r : Turn(p, refused, t, ld, r)
    BY DEF TurnOf
  <1>2. /\ \A u \in Task : status'[u] = IF u = t THEN "running" ELSE IF u \in refused THEN Refusal(u) ELSE status[u]
        /\ failed' = failed \cup {u \in refused : Refusal(u) = "failed"}
    BY <1>1 DEF Turn, Dispatch
  <1>3. UNCHANGED <<active, token, order>>
    BY DEF TurnOf
  <1>4. \A u : Refusal(u) = "cancelled" => token[ExecOf[u]]
    BY DEF Refusal, DependenciesMet
  <1>5. Explained'
    BY <1>2, <1>3, <1>4 DEF VInv, Explained
  <1> QED BY <1>3, <1>5, VInvKept

LEMMA CancelExplained == ASSUME SInv, VInv, NEW x \in Execution, Cancel(x) PROVE VInv'
  <1>1. /\ token' = [token EXCEPT ![x] = TRUE] /\ active[x] = "active"
        /\ UNCHANGED <<active, order, failed>>
        /\ \A t \in Task : status'[t] = IF t \in Added(x) /\ status[t] = "running" THEN "cancelled" ELSE status[t]
    BY DEF Cancel
  <1>2. token'[x] /\ \A y \in Execution : (token[y] => token'[y]) /\ (y # x => token'[y] = token[y])
    BY <1>1 DEF SInv, TypeOK
  <1>3. \A t \in Task : ExecOf[t] \in Execution
    BY SupervisorAssumption
  <1>4. Explained'
    BY <1>1, <1>2, <1>3 DEF VInv, Explained
  <1> QED BY <1>1, <1>2, <1>4 DEF VInv, Added

LEMMA AddExplained == ASSUME SInv, VInv, NEW t \in Task, AddTask(t) PROVE VInv'
  <1> DEFINE x == ExecOf[t]
  <1>1. /\ x \in Execution /\ order \in [Execution -> Seq(Task)]
        /\ order' = [order EXCEPT ![x] = Append(@, t)]
        /\ UNCHANGED <<active, token, failed>>
        /\ \A u \in Task : status'[u] = IF u = t THEN "pending" ELSE status[u]
    BY SupervisorAssumption DEF SInv, TypeOK, AddTask
  <1>2. \A y \in Execution : \A u \in Added(y)' : u \in Added(y) \/ (u = t /\ y = x)
    <2> SUFFICES ASSUME NEW y \in Execution, NEW i \in 1 .. Len(order'[y])
                 PROVE  order'[y][i] \in Added(y) \/ (order'[y][i] = t /\ y = x)
      BY DEF Added
    <2>1. CASE y # x
      BY <1>1, <2>1 DEF Added
    <2>2. CASE y = x
      <3>1. order'[y] = Append(order[x], t) /\ order[x] \in Seq(Task)
        BY <1>1, <2>2
      <3>2. i \in 1 .. Len(order[x]) + 1 /\ Len(order[x]) \in Nat
        BY <3>1
      <3>3. order'[y][i] = IF i = Len(order[x]) + 1 THEN t ELSE order[x][i]
        BY <3>1, <3>2
      <3> QED BY <2>2, <3>2, <3>3 DEF Added
    <2> QED BY <2>1, <2>2
  <1>3. Explained'
    BY <1>1 DEF VInv, Explained
  <1> QED BY <1>1, <1>2, <1>3 DEF VInv

LEMMA VInvStep == SInv /\ VInv /\ [Next]_vars => VInv'
  <1> SUFFICES ASSUME SInv, VInv, [Next]_vars PROVE VInv'
    OBVIOUS
  <1>1. CASE UNCHANGED vars
    BY <1>1 DEF vars, VInv, Explained, Added
  <1>2. CASE Outside
    <2>1. ASSUME NEW x \in Execution, Submit(x) \/ Cleanup(x) PROVE VInv'
      BY <2>1 DEF Submit, Cleanup, VInv, Explained, Added, SInv, TypeOK
    <2>2. ASSUME NEW a \in Agent, Register(a) \/ Unregister(a) PROVE VInv'
      BY <2>2, VInvKept DEF Register, Unregister, VInv, Explained
    <2> QED BY <1>2, <2>1, <2>2, CancelExplained, AddExplained DEF Outside
  <1>3. ASSUME NEW p \in Actor, Started(p) \/ AgentReturns(p) PROVE VInv'
    <2>1. Explained'
      BY <1>3 DEF Started, AgentReturns, VInv, Explained, SInv, TypeOK
    <2> QED BY <1>3, <2>1, VInvKept DEF Started, AgentReturns
  <1>4. ASSUME NEW p \in Actor, AgentRaises(p) PROVE VInv'
    <2>1. Explained'
      BY <1>4 DEF AgentRaises, VInv, Explained, SInv, TypeOK
    <2> QED BY <1>4, <2>1, VInvKept DEF AgentRaises
  <1>5. ASSUME NEW p \in Actor, Interrupt(p) PROVE VInv'
    <2>1. Explained'
      BY <1>5 DEF Interrupt, VInv, Explained, SInv, TypeOK
    <2> QED BY <1>5, <2>1, VInvKept DEF Interrupt
  <1> QED BY <1>1, <1>2, <1>3, <1>4, <1>5, StepCases, TurnExplained

\* Only the loop of wait_for_completion writes a verdict.
LEMMA VerdictWriters ==
  ASSUME SInv, [Next]_vars, NEW x \in Execution, ctxStatus'[x] = "completed", ctxStatus[x] # "completed"
  PROVE  \E p \in Actor : Loop(p) /\ x = actor[p].exec /\ ctxStatus' = [ctxStatus EXCEPT ![x] = "completed"]
  <1>1. ~UNCHANGED ctxStatus
    OBVIOUS
  <1>2. ASSUME NEW y \in Execution, Cancel(y) PROVE FALSE
    BY <1>2 DEF Cancel, SInv, TypeOK
  <1>3. ASSUME NEW p \in Actor, Loop(p)
        PROVE  x = actor[p].exec /\ ctxStatus' = [ctxStatus EXCEPT ![x] = "completed"]
    BY <1>3 DEF Loop, SInv, TypeOK
  <1> QED BY <1>1, <1>2, <1>3
          DEF Next, Proceed, vars, registry, Started, AgentReturns, AgentRaises, EndDispatch, Interrupt, Wait,
              DispatchReady, Submit, Cleanup, AddTask, Register, Unregister

\* wait_for_completion reports COMPLETED only if every task was completed, or the token is
\* gone with the execution that was cancelled and cleaned up.
THEOREM VerdictTrue == Spec => CompletedMeansAll
  <1> DEFINE Sound == \A x \in Execution : ctxStatus'[x] = "completed" /\ ctxStatus[x] # "completed" =>
                        \/ \A t \in Added(x) : status[t] = "completed"
                        \/ token[x] /\ active[x] = "cleaned"
  <1>1. SInv /\ VInv /\ [Next]_vars => [Sound]_vars
    <2> SUFFICES ASSUME SInv, VInv, [Next]_vars, NEW x \in Execution,
                        ctxStatus'[x] = "completed", ctxStatus[x] # "completed"
                 PROVE  \/ \A t \in Added(x) : status[t] = "completed"
                        \/ token[x] /\ active[x] = "cleaned"
      OBVIOUS
    <2>1. PICK p \in Actor : Loop(p) /\ x = actor[p].exec /\ ctxStatus' = [ctxStatus EXCEPT ![x] = "completed"]
      BY VerdictWriters
    <2>2. ~(active[x] = "active" /\ token[x])
          /\ (\A t \in Added(x) : status[t] \in Over) /\ Verdict(x) = "completed"
      BY <2>1 DEF Loop, SInv, TypeOK
    <2>3. failed \cap Added(x) = {}
      BY <2>2 DEF Verdict
    <2>4. \A t \in Added(x) : status[t] # "failed" /\ (status[t] = "cancelled" => token[x])
      BY <2>3 DEF VInv, Explained
    <2>5. token[x] => active[x] = "cleaned"
      BY <2>2 DEF VInv, SInv, TypeOK
    <2> QED BY <2>2, <2>4, <2>5 DEF Over
  <1>2. CompletedMeansAll <=> [][Sound]_vars
    BY DEF CompletedMeansAll
  <1>3. Init => VInv
    BY DEF Init, VInv, Explained, Added
  <1> QED BY <1>1, <1>2, <1>3, InitSInv, SInvStep, VInvStep, PTL DEF Spec

(***************************************************************************)
(* The load of an agent                                                    *)
(***************************************************************************)
\* What is counted matches what is under way: exactly, while no agent was registered anew.
Matches(count, underWay) == count <= underWay /\ (changes = 0 => count = underWay)

LInv ==
  \A a \in Agent : /\ Matches(load[a], Cardinality(InFlight(a)))
                   /\ changes = 0 => registered[a]
                   /\ ~registered[a] => load[a] = 0

LEMMA InFlightFinite ==
  \A a : IsFiniteSet(InFlight(a)) /\ Cardinality(InFlight(a)) \in Nat
  <1>1. \A a : InFlight(a) \subseteq Actor /\ IsFiniteSet(Actor)
    BY SupervisorAssumption DEF InFlight
  <1> QED BY <1>1, FS_Subset, FS_CardinalityType

\* A caller that leaves a dispatch takes one off the load of its agent.
LEMMA Leaves ==
  ASSUME SInv, LInv, NEW p \in Actor, NEW ld,
         \/ actor[p].pc \notin Dispatching /\ ld = load
         \/ actor[p].pc \in Dispatching /\ ld = RecordCompletion(AgentOf[actor[p].task], load),
         NEW a \in Agent
  PROVE  /\ IsFiniteSet(InFlight(a) \ {p}) /\ Cardinality(InFlight(a) \ {p}) \in Nat
         /\ ld[a] \in Nat /\ Matches(ld[a], Cardinality(InFlight(a) \ {p}))
         /\ ~registered[a] => ld[a] = 0
  <1> DEFINE n == Cardinality(InFlight(a))
             b == AgentOf[actor[p].task]
  <1>1. IsFiniteSet(InFlight(a)) /\ n \in Nat
    BY InFlightFinite
  <1>2. IsFiniteSet(InFlight(a) \ {p}) /\ Cardinality(InFlight(a) \ {p}) = IF p \in InFlight(a) THEN n - 1 ELSE n
    BY <1>1, FS_RemoveElement
  <1>3. Cardinality(InFlight(a) \ {p}) \in Nat
    BY <1>2, FS_CardinalityType
  <1>4. load \in [Agent -> 0 .. MaxConcurrent] /\ load[a] \in Nat /\ MaxConcurrent \in Nat
    BY SupervisorAssumption DEF SInv, TypeOK
  <1>5. Matches(load[a], n) /\ (changes = 0 => registered[a]) /\ (~registered[a] => load[a] = 0)
    BY DEF LInv
  <1> HIDE DEF n
  <1>6. CASE actor[p].pc \notin Dispatching /\ ld = load
    <2>1. p \notin InFlight(a)
      BY <1>6 DEF InFlight
    <2> QED BY <1>2, <1>3, <1>4, <1>5, <1>6, <2>1
  <1>7. CASE actor[p].pc \in Dispatching /\ ld = RecordCompletion(b, load) /\ a = b
    <2>1. p \in InFlight(a)
      BY <1>7 DEF InFlight
    <2>2. ld[a] = IF registered[a] /\ load[a] > 0 THEN load[a] - 1 ELSE load[a]
      BY <1>4, <1>7 DEF RecordCompletion
    <2> QED BY <1>1, <1>2, <1>3, <1>4, <1>5, <2>1, <2>2 DEF Matches
  <1>8. CASE actor[p].pc \in Dispatching /\ ld = RecordCompletion(b, load) /\ a # b
    <2>1. p \notin InFlight(a)
      BY <1>8 DEF InFlight
    <2>2. ld[a] = load[a]
      BY <1>4, <1>8 DEF RecordCompletion
    <2> QED BY <1>2, <1>3, <1>4, <1>5, <2>1, <2>2
  <1> QED BY <1>6, <1>7, <1>8

LEMMA TurnLoad == ASSUME SInv, LInv, NEW p \in Actor, TurnOf(p) PROVE LInv'
  <1>1. PICK refused, t, ld, r : Turn(p, refused, t, ld, r) /\ Left(p, ld)
    BY DEF TurnOf
  <1>2. /\ UNCHANGED <<registered, changes>> /\ actor' = [actor EXCEPT ![p] = r]
        /\ \/ t \in Task /\ Starts(t, ld) /\ r.pc = "start" /\ r.task = t
           \/ t = NoTask /\ r.pc \notin Dispatching
        /\ load' = IF t = NoTask THEN ld ELSE RecordUse(AgentOf[t], ld)
    BY <1>1 DEF Turn, TurnOf, Dispatch, Startable
  <1>3. actor'[p] = r /\ \A q \in Actor \ {p} : actor'[q] = actor[q]
    BY <1>2 DEF SInv, TypeOK
  <1>4. \/ actor[p].pc \notin Dispatching /\ ld = load
        \/ actor[p].pc \in Dispatching /\ ld = RecordCompletion(AgentOf[actor[p].task], load)
    BY <1>1 DEF Left, Dispatching
  <1> SUFFICES ASSUME NEW a \in Agent
               PROVE  /\ Matches(load[a], Cardinality(InFlight(a)))'
                      /\ changes' = 0 => registered'[a]
                      /\ ~registered'[a] => load'[a] = 0
    BY DEF LInv
  <1> DEFINE rest == InFlight(a) \ {p}
  <1>5. /\ IsFiniteSet(rest) /\ Cardinality(rest) \in Nat
        /\ ld[a] \in Nat /\ Matches(ld[a], Cardinality(rest))
        /\ ~registered[a] => ld[a] = 0
    BY <1>4, Leaves
  <1>6. p \notin rest /\ InFlight(a)' = IF r.pc \in Dispatching /\ AgentOf[r.task] = a THEN rest \cup {p} ELSE rest
    BY <1>3 DEF InFlight
  <1>7. changes' = 0 => registered'[a]
    BY <1>2 DEF LInv
  <1> HIDE DEF rest
  <1>8. CASE t \in Task /\ Starts(t, ld) /\ r.pc = "start" /\ r.task = t /\ AgentOf[t] = a
    <2>1. registered[a] /\ ld[a] < MaxConcurrent /\ t # NoTask
      BY <1>8, SupervisorAssumption DEF Starts, DependenciesMet, CanExecute
    <2>2. InFlight(a)' = rest \cup {p} /\ Cardinality(rest \cup {p}) = Cardinality(rest) + 1
      BY <1>5, <1>6, <1>8, FS_AddElement DEF Dispatching
    <2>3. ld \in [Agent -> 0 .. MaxConcurrent]
      <3>1. CASE ld = load
        BY <3>1 DEF SInv, TypeOK
      <3>2. CASE actor[p].pc \in Dispatching /\ ld = RecordCompletion(AgentOf[actor[p].task], load)
        BY <3>2, RecordTypes, SupervisorAssumption DEF SInv, TypeOK, AtWork
      <3> QED BY <1>4, <3>1, <3>2
    <2>4. load'[a] = ld[a] + 1
      BY <1>2, <1>8, <2>1, <2>3 DEF RecordUse
    <2> QED BY <1>2, <1>5, <1>7, <2>1, <2>2, <2>4 DEF Matches
  <1>9. CASE t \in Task /\ r.pc = "start" /\ r.task = t /\ AgentOf[t] # a
    <2>1. InFlight(a)' = rest
      BY <1>6, <1>9
    <2>2. load' = [ld EXCEPT ![AgentOf[t]] = IF @ < MaxConcurrent THEN @ + 1 ELSE MaxConcurrent]
      BY <1>2, <1>9, SupervisorAssumption DEF RecordUse
    <2>3. load'[a] = ld[a]
      BY <1>4, <1>9, <2>2 DEF SInv, TypeOK, RecordCompletion
    <2> QED BY <1>2, <1>5, <1>7, <2>1, <2>3 DEF Matches
  <1>10. CASE t = NoTask /\ r.pc \notin Dispatching
    <2>1. InFlight(a)' = rest /\ load' = ld
      BY <1>2, <1>6, <1>10
    <2> QED BY <1>2, <1>5, <1>7, <2>1 DEF Matches
  <1> QED BY <1>2, <1>8, <1>9, <1>10

LEMMA InterruptLoad == ASSUME SInv, LInv, NEW p \in Actor, Interrupt(p) PROVE LInv'
  <1> DEFINE r == Resting("raised", actor[p].exec)
  <1>1. UNCHANGED <<registered, changes>> /\ actor' = [actor EXCEPT ![p] = r]
    BY DEF Interrupt
  <1>2. r.pc = "raised" /\ "raised" \notin Dispatching /\ "loop" \notin Dispatching
    BY DEF Resting, Dispatching
  <1>3. \/ actor[p].pc \notin Dispatching /\ load' = load
        \/ actor[p].pc \in Dispatching /\ load' = RecordCompletion(AgentOf[actor[p].task], load)
    BY <1>2 DEF Interrupt
  <1> HIDE DEF r
  <1>4. actor'[p] = r /\ \A q \in Actor \ {p} : actor'[q] = actor[q]
    BY <1>1 DEF SInv, TypeOK
  <1>5. \A a \in Agent : InFlight(a)' = InFlight(a) \ {p}
    BY <1>2, <1>4 DEF InFlight
  <1>6. \A a \in Agent : /\ Matches(load'[a], Cardinality(InFlight(a) \ {p}))
                         /\ ~registered[a] => load'[a] = 0
    BY <1>3, Leaves
  <1> QED BY <1>1, <1>5, <1>6 DEF LInv, Matches

LEMMA LInvStep == SInv /\ LInv /\ [Next]_vars => LInv'
  <1> SUFFICES ASSUME SInv, LInv, [Next]_vars PROVE LInv'
    OBVIOUS
  <1>1. ASSUME UNCHANGED <<registered, load, changes>>, \A a \in Agent : InFlight(a)' = InFlight(a) PROVE LInv'
    BY <1>1 DEF LInv, Matches
  <1>2. CASE UNCHANGED vars
    BY <1>1, <1>2 DEF vars, InFlight
  <1>3. CASE Outside
    <2>1. ASSUME NEW a \in Agent, Register(a) \/ Unregister(a) PROVE LInv'
      <3>1. /\ changes' # 0 /\ \A b \in Agent : InFlight(b)' = InFlight(b)
            /\ load'[a] = 0 /\ \A b \in Agent \ {a} : load'[b] = load[b] /\ registered'[b] = registered[b]
        BY <2>1, SupervisorAssumption DEF Register, Unregister, InFlight, SInv, TypeOK
      <3> QED BY <3>1, InFlightFinite DEF LInv, Matches
    <2>2. ASSUME NEW x \in Execution, Submit(x) \/ Cancel(x) \/ Cleanup(x) PROVE LInv'
      BY <1>1, <2>2 DEF Submit, Cancel, Cleanup, registry, InFlight
    <2>3. ASSUME NEW t \in Task, AddTask(t) PROVE LInv'
      BY <1>1, <2>3 DEF AddTask, registry, InFlight
    <2> QED BY <1>3, <2>1, <2>2, <2>3 DEF Outside
  <1>4. ASSUME NEW p \in Actor, Started(p) \/ AgentReturns(p) \/ AgentRaises(p) PROVE LInv'
    <2>1. PICK pc \in Dispatching : actor' = [actor EXCEPT ![p].pc = pc]
      BY <1>4 DEF Started, AgentReturns, AgentRaises, Dispatching
    <2>2. actor[p].pc \in Dispatching
      BY <1>4 DEF Started, AgentReturns, AgentRaises, Dispatching
    <2>3. actor[p] \in ActorRecord
      BY DEF SInv, TypeOK
    <2>4. actor'[p].pc = pc /\ actor'[p].task = actor[p].task /\ \A q \in Actor \ {p} : actor'[q] = actor[q]
      BY <2>1, <2>3 DEF SInv, TypeOK, ActorRecord
    <2>5. \A a \in Agent : InFlight(a)' = InFlight(a)
      BY <2>2, <2>4 DEF InFlight
    <2> QED BY <1>1, <1>4, <2>5 DEF Started, AgentReturns, AgentRaises, registry
  <1> QED BY <1>2, <1>3, <1>4, StepCases, TurnLoad, InterruptLoad

\* The load of an agent is the number of dispatches under way to it, and after agents
\* were registered anew never more: capacity is neither exceeded nor leaked.
THEOREM LoadExact == Spec => []LoadAccounted
  <1>1. Init => LInv
    <2> SUFFICES ASSUME Init, NEW a \in Agent PROVE load[a] = 0 /\ registered[a] /\ InFlight(a) = {}
      BY FS_EmptySet DEF LInv, Matches
    <2> QED BY DEF Init, InFlight, Resting, Dispatching
  <1>2. LInv => LoadAccounted
    BY DEF LInv, Matches, LoadAccounted
  <1> QED BY <1>1, <1>2, InitSInv, SInvStep, LInvStep, PTL DEF Spec
=============================================================================
