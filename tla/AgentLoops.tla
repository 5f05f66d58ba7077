------------------------------ MODULE AgentLoops ----------------------------
(***************************************************************************)
(* Reasoning loops of agents (agents/reasoning_loop.py) and the tools they *)
(* invoke (agents/execution_engine.py).  All agents share one ReasoningLoop*)
(* and with it one ToolSelector; execute puts the language model service   *)
(* of its own caller into that selector, and only there, if it has one:    *)
(* the shared loop is made without.                                        *)
(*                                                                         *)
(* Each loop l of AlLoop is one call of execute; the service that it is    *)
(* called with, if it is, is called l here as well.                        *)
(***************************************************************************)
EXTENDS Naturals, FiniteSets

CONSTANTS
  AlLoop,          \* calls of execute
  AlMaxIterations, \* max_iterations
  AlMaxTools,      \* max_tools_per_step
  AlMaxSpecs,      \* how many tools the model may name at once
  AlNoService      \* no call of execute with a service yet

ASSUME AlAssumption ==
  /\ AlMaxIterations \in Nat \ {0} /\ AlMaxTools \in Nat \ {0} /\ AlMaxSpecs \in Nat \ {0}
  /\ IsFiniteSet(AlLoop) /\ AlNoService \notin AlLoop

VARIABLES
  alServed,    \* the loops that are called with a service of their own
  alService,   \* _tool_selector._llm_service
  alAt,        \* what each loop awaits
  alIteration, \* iteration
  alSpecs,     \* how many of the tools of the step are still to be run
  alStep,      \* how many were
  alCount,     \* tool_count of the context
  alResults,   \* all_results: how many succeeded, and how many did not
  alHistory,   \* how many are in _result_history
  alSteps,     \* the steps of the trace: how many, their tool calls, the state of the last
  alOutcome,   \* which of final_result and error are set
  alAsked,     \* the services that the loop asked
  alOvertaken  \* another loop was started with a service since this one was

alVars == <<alServed, alService, alAt, alIteration, alSpecs, alStep, alCount, alResults, alHistory,
            alSteps, alOutcome, alAsked, alOvertaken>>

AlOf(l) == alResults[l].good + alResults[l].bad

AlInit ==
  /\ alServed \in SUBSET AlLoop
  /\ alService = AlNoService
  /\ alAt = [l \in AlLoop |-> "idle"]
  /\ alIteration = [l \in AlLoop |-> 0]
  /\ alSpecs = [l \in AlLoop |-> 0] /\ alStep = [l \in AlLoop |-> 0]
  /\ alCount = [l \in AlLoop |-> 0]
  /\ alResults = [l \in AlLoop |-> [good |-> 0, bad |-> 0]]
  /\ alHistory = [l \in AlLoop |-> 0]
  /\ alSteps = [l \in AlLoop |-> [n |-> 0, calls |-> 0, state |-> "none"]]
  /\ alOutcome = [l \in AlLoop |-> {}]
  /\ alAsked = [l \in AlLoop |-> {}]
  /\ alOvertaken = [l \in AlLoop |-> FALSE]

AlStart(l) ==
  /\ alAt[l] = "idle"
  /\ IF l \in alServed
       THEN /\ alService' = l
            /\ alOvertaken' = [k \in AlLoop |-> alOvertaken[k] \/ (k # l /\ alAt[k] # "idle")]
       ELSE UNCHANGED <<alService, alOvertaken>>
  /\ alAt' = [alAt EXCEPT ![l] = "select"]
  /\ alIteration' = [alIteration EXCEPT ![l] = 1]
  /\ UNCHANGED <<alServed, alSpecs, alStep, alCount, alResults, alHistory, alSteps, alOutcome, alAsked>>

\* A step is added to the trace, with the calls that it made.
AlAddStep(l, calls, state) ==
  alSteps' = [alSteps EXCEPT ![l] = [n |-> @.n + 1, calls |-> @.calls + calls, state |-> state]]

\* select_tools asks the service that the selector has now for the tools to run;
\* any failure of it means none, and so does a selector without one.  More than AlMaxTools are cut off.  Without tools
\* the step is complete and the loop is left.
AlSelect(l, n) ==
  /\ alAt[l] = "select"
  /\ alService = AlNoService => n = 0
  /\ alAsked' = [alAsked EXCEPT ![l] = @ \cup ({alService} \ {AlNoService})]
  /\ alSpecs' = [alSpecs EXCEPT ![l] = IF n > AlMaxTools THEN AlMaxTools ELSE n]
  /\ alStep' = [alStep EXCEPT ![l] = 0]
  /\ IF n = 0
       THEN alAt' = [alAt EXCEPT ![l] = "finish"] /\ AlAddStep(l, 0, "complete")
       ELSE alAt' = [alAt EXCEPT ![l] = "invoke"] /\ UNCHANGED alSteps
  /\ UNCHANGED <<alServed, alService, alIteration, alCount, alResults, alHistory, alOutcome, alOvertaken>>

\* invoke counts the call first.  What it returns is kept in the history, whether
\* the tool succeeded, was not found, was unhealthy, failed or ran out of time; an
\* exception, and a call over the limit, give a failed result that is not kept.
AlInvoke(l, end) ==
  LET over == alCount[l] + 1 > AlMaxIterations * AlMaxTools IN
  /\ alAt[l] = "invoke"
  /\ over => end = "raised"
  /\ alCount' = [alCount EXCEPT ![l] = @ + 1]
  /\ alResults' = [alResults EXCEPT ![l] =
                    IF end = "success" THEN [good |-> @.good + 1, bad |-> @.bad]
                                       ELSE [good |-> @.good, bad |-> @.bad + 1]]
  /\ alHistory' = [alHistory EXCEPT ![l] = IF end = "raised" THEN @ ELSE @ + 1]
  /\ alStep' = [alStep EXCEPT ![l] = @ + 1]
  /\ alSpecs' = [alSpecs EXCEPT ![l] = @ - 1]
  /\ alAt' = [alAt EXCEPT ![l] = IF alSpecs[l] = 1 THEN "observe" ELSE "invoke"]
  /\ UNCHANGED <<alServed, alService, alIteration, alSteps, alOutcome, alAsked, alOvertaken>>

\* _store_observations: the results of the step are put into the memory.
AlObserve(l) ==
  /\ alAt[l] = "observe"
  /\ alAt' = [alAt EXCEPT ![l] = "reason"]
  /\ UNCHANGED <<alServed, alService, alIteration, alSpecs, alStep, alCount, alResults, alHistory, alSteps,
                 alOutcome, alAsked, alOvertaken>>

\* Mutant: DONE is believed after a failed step too.
AlMayEndAlways(l) == TRUE

\* should_continue asks the model only when every call of the loop succeeded, not
\* only those of the step, and ends the loop only when it then says DONE.
AlMayEnd(l) == alResults[l].bad = 0

AlReason(l, done) ==
  /\ alAt[l] = "reason"
  /\ done => AlMayEnd(l)
  /\ alAsked' = [alAsked EXCEPT ![l] = IF AlMayEnd(l) THEN @ \cup ({alService} \ {AlNoService}) ELSE @]
  /\ AlAddStep(l, alStep[l], IF done THEN "complete" ELSE "reasoning")
  /\ IF done \/ alIteration[l] = AlMaxIterations
       THEN alAt' = [alAt EXCEPT ![l] = "finish"] /\ UNCHANGED alIteration
       ELSE /\ alAt' = [alAt EXCEPT ![l] = "select"]
            /\ alIteration' = [alIteration EXCEPT ![l] = @ + 1]
  /\ UNCHANGED <<alServed, alService, alSpecs, alStep, alCount, alResults, alHistory, alOutcome, alOvertaken>>

\* Behind the loop: a step that says MAX_ITERATIONS, also for a loop that was left
\* in its last iteration, then the final result, which is stored.
AlFinish(l, stored) ==
  /\ alAt[l] = "finish"
  /\ IF alIteration[l] = AlMaxIterations THEN AlAddStep(l, 0, "max_iterations") ELSE UNCHANGED alSteps
  /\ alOutcome' = [alOutcome EXCEPT ![l] = IF stored THEN {"result"} ELSE {"result", "error"}]
  /\ alAt' = [alAt EXCEPT ![l] = "done"]
  /\ UNCHANGED <<alServed, alService, alIteration, alSpecs, alStep, alCount, alResults, alHistory, alAsked,
                 alOvertaken>>

\* An exception, of the memory for instance: the step it was raised in is not added.
AlFails(l) ==
  /\ alAt[l] \in {"select", "observe"}
  /\ alOutcome' = [alOutcome EXCEPT ![l] = {"error"}]
  /\ alAt' = [alAt EXCEPT ![l] = "done"]
  /\ UNCHANGED <<alServed, alService, alIteration, alSpecs, alStep, alCount, alResults, alHistory, alSteps,
                 alAsked, alOvertaken>>

AlStep(l) ==
  \/ \E n \in 0..AlMaxSpecs : AlSelect(l, n)
  \/ \E end \in {"success", "failed", "raised"} : AlInvoke(l, end)
  \/ AlObserve(l) \/ AlFails(l)
  \/ \E b \in BOOLEAN : AlReason(l, b) \/ AlFinish(l, b)

AlNext == \E l \in AlLoop : AlStart(l) \/ AlStep(l)
-----------------------------------------------------------------------------
AlTypeOK ==
  /\ alServed \subseteq AlLoop
  /\ alService \in AlLoop \cup {AlNoService}
  /\ alAt \in [AlLoop -> {"idle", "select", "invoke", "observe", "reason", "finish", "done"}]
  /\ alIteration \in [AlLoop -> 0..AlMaxIterations]
  /\ alSpecs \in [AlLoop -> 0..AlMaxTools] /\ alStep \in [AlLoop -> 0..AlMaxTools]
  /\ alCount \in [AlLoop -> Nat] /\ alHistory \in [AlLoop -> Nat]
  /\ alResults \in [AlLoop -> [good : Nat, bad : Nat]]
  /\ \A l \in AlLoop : alSteps[l].n \in 0..AlMaxIterations + 1 /\ alSteps[l].calls \in Nat
  /\ alOutcome \in [AlLoop -> SUBSET {"result", "error"}]
  /\ alAsked \in [AlLoop -> SUBSET AlLoop]
  /\ alOvertaken \in [AlLoop -> BOOLEAN]

\* The limit of the loop and the limit of the invoker agree: a loop never runs
\* into "Exceeded maximum tool calls".
AlBudget == \A l \in AlLoop : alCount[l] <= AlMaxIterations * AlMaxTools /\ AlOf(l) = alCount[l]

\* The trace of a loop that ended without an error has every call that was made,
\* and so has a trace with a result; only the step in which an error was raised is
\* missing.
AlTraceAccounts ==
  \A l \in AlLoop :
    /\ alOutcome[l] # {} /\ "result" \in alOutcome[l] => alSteps[l].calls = AlOf(l)
    /\ alOutcome[l] = {"error"} => AlOf(l) - alSteps[l].calls <= AlMaxTools
    /\ alHistory[l] <= AlOf(l)

\* A loop with a call that failed goes on until it runs out of iterations or of
\* tools to call: it never counts as done.
AlDoneIsClean ==
  \A l \in AlLoop :
    alAt[l] = "finish" /\ alSteps[l].state = "complete" /\ alIteration[l] < AlMaxIterations =>
      alResults[l].bad = 0 \/ alStep[l] = 0

\* A loop that was given a service asks no other, unless a loop with one was started
\* while it ran: then it asks the service of that one's caller.  A loop without one
\* asks those that other callers gave, and needs a caller who gave one.
AlOwnService ==
  \A l \in AlLoop : /\ l \in alServed => alAsked[l] \subseteq {l} \/ alOvertaken[l]
                    /\ alAsked[l] \subseteq alServed

\* The calls of execute that were made come to an end, by a result or by an error.
AlEnds == (\E l \in AlLoop : alAt[l] = "select") ~> \A l \in AlLoop : alAt[l] \in {"idle", "done"}
=============================================================================
