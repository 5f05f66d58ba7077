---------------------------- MODULE ParallelTasks ---------------------------
(***************************************************************************)
(* ParallelTaskExecutor of agents/advanced_workflow.py: the tasks of a     *)
(* batch run at the same time, as many as the semaphore of the executor    *)
(* lets in, and a task waits for the tasks of its batch that it depends    *)
(* on.  It waits with the semaphore in its hands, so what is worth knowing *)
(* is which batches come to an end.                                        *)
(*                                                                         *)
(* The tasks of all the batches that one executor is given are numbered;   *)
(* a batch is an interval of them, in the order of its list.               *)
(***************************************************************************)
EXTENDS Naturals, Sequences, FiniteSets, SequencesExt

CONSTANTS
  PtBatches,      \* a set of pairwise disjoint intervals of task numbers
  PtSlots,        \* max_concurrent
  PtDependencies  \* what "dependencies" may be: a set of functions from tasks to sets of tasks

PtTask == UNION PtBatches

ASSUME PtAssumption ==
  /\ \A b \in PtBatches : b \subseteq Nat /\ IsFiniteSet(b) /\ (b # {} => \E m, n \in b : b = m..n)
  /\ \A b, c \in PtBatches : b # c => b \cap c = {}
  /\ PtSlots \in Nat \ {0}
  /\ PtDependencies \subseteq [PtTask -> SUBSET Nat]

VARIABLES
  ptDeps,   \* dependencies
  ptQueue,  \* the tasks that wait for the semaphore, in the order in which they asked
  ptHeld,   \* the tasks that hold it
  ptCalled, \* those of them that have called func
  ptDone,   \* completed
  ptResult, \* results: how func ended
  ptStopped \* the batches whose call of execute was cancelled

ptVars == <<ptDeps, ptQueue, ptHeld, ptCalled, ptDone, ptResult, ptStopped>>

PtBatchOf(t) == CHOOSE b \in PtBatches : t \in b

\* The dependencies that a task waits for: a name that is not in the batch is skipped.
PtKnown(t) == ptDeps[t] \cap PtBatchOf(t)

\* The tasks that wait for the semaphore.
PtQueued == ToSet(ptQueue)

\* gather has cancelled the task, as it does with all when it is cancelled itself.
PtStoppedTask(t) == \E b \in ptStopped : t \in b

PtInit ==
  /\ ptDeps \in PtDependencies
  /\ ptQueue = << >>
  /\ ptHeld = {} /\ ptCalled = {} /\ ptDone = {}
  /\ ptResult = [t \in PtTask |-> "none"]
  /\ ptStopped = {}

\* execute: the coroutines of the batch are started in the order of the list.
PtExecute(b) ==
  /\ b \cap (ptHeld \cup PtQueued) = {} /\ \A t \in b : ptResult[t] = "none"
  /\ LET first == CHOOSE t \in b : \A u \in b : t <= u IN
     ptQueue' = ptQueue \o [i \in 1..Cardinality(b) |-> first + i - 1]
  /\ UNCHANGED <<ptDeps, ptHeld, ptCalled, ptDone, ptResult, ptStopped>>

\* The semaphore wakes its waiters in the order in which they came.
PtAcquire ==
  /\ ptQueue # << >> /\ ~PtStoppedTask(Head(ptQueue))
  /\ Cardinality(ptHeld) < PtSlots
  /\ ptHeld' = ptHeld \cup {Head(ptQueue)}
  /\ ptQueue' = Tail(ptQueue)
  /\ UNCHANGED <<ptDeps, ptCalled, ptDone, ptResult, ptStopped>>

\* Mutant: any dependency that is completed is enough.
PtMayCallAny(t) == PtKnown(t) = {} \/ PtKnown(t) \cap ptDone # {}

PtMayCall(t) == PtKnown(t) \subseteq ptDone

\* The poll finds every dependency completed.
PtCall(t) ==
  /\ t \in ptHeld \ ptCalled /\ ~PtStoppedTask(t)
  /\ PtMayCall(t)
  /\ ptCalled' = ptCalled \cup {t}
  /\ UNCHANGED <<ptDeps, ptQueue, ptHeld, ptDone, ptResult, ptStopped>>

\* Mutant: a task that raised is not completed.
PtEndForgotten(t, result) ==
  /\ t \in ptCalled
  /\ ptDone' = IF result = "error" THEN ptDone ELSE ptDone \cup {t}
  /\ ptResult' = [ptResult EXCEPT ![t] = result]
  /\ ptHeld' = ptHeld \ {t}
  /\ ptCalled' = ptCalled \ {t}
  /\ UNCHANGED <<ptDeps, ptQueue, ptStopped>>

\* func failed or not: the task is completed, and its slot is free.
PtEnd(t, result) ==
  /\ t \in ptCalled
  /\ ptDone' = ptDone \cup {t}
  /\ ptResult' = [ptResult EXCEPT ![t] = result]
  /\ ptHeld' = ptHeld \ {t}
  /\ ptCalled' = ptCalled \ {t}
  /\ UNCHANGED <<ptDeps, ptQueue, ptStopped>>

\* The call of execute is cancelled, and with it the tasks of its batch.
PtStop(b) ==
  /\ b \cap (ptHeld \cup PtQueued) # {} /\ b \notin ptStopped
  /\ ptStopped' = ptStopped \cup {b}
  /\ UNCHANGED <<ptDeps, ptQueue, ptHeld, ptCalled, ptDone, ptResult>>

\* CancelledError is no Exception: func that raises it, and a task that is cancelled
\* where it waits, free the slot without completing the task.
PtCancelled(t) ==
  /\ t \in ptCalled \/ (t \in ptHeld \cup PtQueued /\ PtStoppedTask(t))
  /\ ptResult' = [ptResult EXCEPT ![t] = "cancelled"]
  /\ ptQueue' = IF t \in PtQueued THEN RemoveAt(ptQueue, CHOOSE i \in DOMAIN ptQueue : ptQueue[i] = t) ELSE ptQueue
  /\ ptHeld' = ptHeld \ {t}
  /\ ptCalled' = ptCalled \ {t}
  /\ UNCHANGED <<ptDeps, ptDone, ptStopped>>

\* What the event loop does without a caller.
PtStep ==
  \/ PtAcquire
  \/ \E t \in PtTask : PtCall(t) \/ PtCancelled(t) \/ \E r \in {"result", "error"} : PtEnd(t, r)

PtNext == PtStep \/ \E b \in PtBatches : PtExecute(b) \/ PtStop(b)
-----------------------------------------------------------------------------
PtTypeOK ==
  /\ ptDeps \in PtDependencies
  /\ ptQueue \in Seq(PtTask)
  /\ ptCalled \subseteq ptHeld
  /\ ptHeld \cup ptDone \subseteq PtTask
  /\ ptResult \in [PtTask -> {"none", "result", "error", "cancelled"}]
  /\ ptStopped \subseteq PtBatches

\* func of a task is called when all that the task depends on in its batch has
\* ended by a result or an error, whatever the order in which the semaphore let the
\* tasks in and whoever is cancelled meanwhile: an end by cancellation is none.
PtDependenciesFirst ==
  /\ \A t \in ptCalled \cup ptDone : PtKnown(t) \subseteq ptDone
  /\ \A t \in ptDone : ptResult[t] \in {"result", "error"}

\* A batch whose list puts every task behind those it depends on.
PtSorted(b) == \A t \in b : \A d \in PtKnown(t) : d < t

\* A task that was cancelled alone, and on which another of its batch waits: no one
\* ever completes it, and the other polls on with a slot in its hands.
PtOrphaned ==
  \E t, u \in PtTask :
    t \in PtKnown(u) /\ ptResult[t] = "cancelled" /\ ptResult[u] = "none" /\ ~PtStoppedTask(t)

\* When all the lists are sorted, all the batches that were started come to an end,
\* with as few slots as there may be, also when calls of execute are cancelled: a
\* task that waits with a slot in its hands waits for one that got a slot before it.
\* (It does not hold for lists that are not sorted, where as many tasks as there are
\* slots wait for one in the queue, nor behind a func that is cancelled alone.)
PtSortedEnds ==
  (\A b \in PtBatches : PtSorted(b)) /\ ptQueue # << >> ~> PtOrphaned \/ (ptQueue = << >> /\ ptHeld = {})
=============================================================================
