------------------------------ MODULE Pipeline ------------------------------
(***************************************************************************)
(* What the executor promises about an execution, whatever races with it:  *)
(* its agents' steps are recorded in order, a recorded step is never taken *)
(* back while the execution exists, and an execution is COMPLETED only     *)
(* after every step was recorded.                                          *)
(***************************************************************************)
EXTENDS Integers

CONSTANTS Execution, Steps

VARIABLES
  done,       \* the steps with a committed record
  completed   \* the executions whose row says COMPLETED

vars == <<done, completed>>

Index == 0 .. Steps - 1

Init ==
  /\ done = [e \in Execution |-> {}]
  /\ completed = {}

\* A step that was not recorded yet, and whose predecessors all were.
Record(e, i) ==
  /\ i \notin done[e]
  /\ \A j \in Index : j < i => j \in done[e]
  /\ done' = [done EXCEPT ![e] = @ \cup {i}]

\* Recording a step may also take the row out of COMPLETED: a second run.
Step(e) ==
  /\ \E i \in Index : Record(e, i)
  /\ completed' \in {completed, completed \ {e}}

Complete(e) ==
  /\ done[e] = Index
  /\ completed' = completed \cup {e}
  /\ UNCHANGED done

\* A request that loaded the row before it was COMPLETED writes over it.
Reopen(e) ==
  /\ completed' = completed \ {e}
  /\ UNCHANGED done

\* The session is deleted, with everything in it.
Forget ==
  /\ done' = [e \in Execution |-> {}]
  /\ completed' = {}

Next ==
  \/ \E e \in Execution : Step(e) \/ Complete(e) \/ Reopen(e)
  \/ Forget

Spec == Init /\ [][Next]_vars
=============================================================================
