------------------------------ MODULE Workflows -----------------------------
(***************************************************************************)
(* AdvancedAgentWorkflow of agents/advanced_workflow.py: run_with_recovery *)
(* runs a graph of phases, and runs all of it again when a phase failed.   *)
(* The graph is built for the phases that are included: planning first,    *)
(* the parallel phases as one node, then review, test and manager, each of *)
(* them if it is there.                                                    *)
(***************************************************************************)
EXTENDS Naturals, FiniteSets

CONSTANTS
  WfParallel,  \* the phases of the node "parallel_execution"
  WfRetries    \* max_retries

WfPhase == {"planning", "review", "test", "manager"} \cup WfParallel

ASSUME WfAssumption ==
  /\ WfRetries \in Nat
  /\ WfParallel \cap {"planning", "parallel_execution", "review", "test", "manager", "end"} = {}
  /\ IsFiniteSet(WfParallel)

VARIABLES
  wfInclude,   \* include_phases
  wfNode,      \* the node that runs, or what the caller waits for instead
  wfAttempt,   \* attempt
  wfResults,   \* phase_results of the attempt: the status of each phase
  wfFlying,    \* the phases of the parallel node that gather still waits for
  wfFailed,    \* failed_phases of the attempt
  wfCompleted, \* progress["completed_phases"]
  wfContext,   \* context["failed_phases"], which the next attempt is given
  wfTracked,   \* the attempt is in _active_workflows
  wfAnswer     \* what run_with_recovery gave its caller

wfVars == <<wfInclude, wfNode, wfAttempt, wfResults, wfFlying, wfFailed, wfCompleted,
            wfContext, wfTracked, wfAnswer>>

WfActive == wfInclude \cap WfParallel

\* The node that the edges of create_advanced_workflow lead to.
WfFirstOf(nodes) ==
  IF "parallel_execution" \in nodes /\ WfActive # {} THEN "parallel_execution"
  ELSE IF "review" \in nodes /\ "review" \in wfInclude THEN "review"
  ELSE IF "test" \in nodes /\ "test" \in wfInclude THEN "test"
  ELSE IF "manager" \in nodes /\ "manager" \in wfInclude THEN "manager"
  ELSE "end"

WfEdge(node) ==
  CASE node = "planning" -> WfFirstOf({"parallel_execution", "review", "test", "manager"})
    [] node = "parallel_execution" -> WfFirstOf({"review", "test", "manager"})
    [] node = "review" -> WfFirstOf({"test", "manager"})
    [] node = "test" -> WfFirstOf({"manager"})
    [] node = "manager" -> "end"

\* How a phase ends.  At this commit it is always "failed": create_autonomous_agent is
\* given a session_id, which the constructor of no agent takes.  What is shown here
\* holds for both.
WfStatuses == {"completed", "failed"}

WfNone == [p \in WfPhase |-> "none"]

\* The constructor compiles the graph: without the entry point it raises.
WfInit ==
  /\ wfInclude \in {i \in SUBSET WfPhase : "planning" \in i}
  /\ wfNode = "idle"
  /\ wfAttempt = 0
  /\ wfResults = WfNone
  /\ wfFlying = {} /\ wfFailed = {} /\ wfContext = {}
  /\ wfCompleted = 0
  /\ wfTracked = FALSE
  /\ wfAnswer = "none"

\* The start of run: a fresh state, and an entry in _active_workflows.
WfRun ==
  /\ wfNode \in {"idle", "backoff"}
  /\ wfNode' = "planning"
  /\ wfAttempt' = IF wfNode = "idle" THEN 0 ELSE wfAttempt + 1
  /\ wfResults' = [WfNone EXCEPT !["planning"] = "running"]
  /\ wfFlying' = {} /\ wfFailed' = {}
  /\ wfCompleted' = 0
  /\ wfTracked' = TRUE
  /\ UNCHANGED <<wfInclude, wfContext, wfAnswer>>

\* The node that follows starts: its phases are marked as running.
WfEnter(node, results) ==
  /\ wfNode' = WfEdge(node)
  /\ wfFlying' = IF wfNode' = "parallel_execution" THEN WfActive ELSE {}
  /\ wfResults' = [p \in WfPhase |->
                    IF p = wfNode' \/ p \in wfFlying' THEN "running" ELSE results[p]]

\* create_phase_node: a phase that fails does not stop the graph, and is not counted.
WfPhaseEnds(status) ==
  /\ wfNode \in {"planning", "review", "test", "manager"}
  /\ WfEnter(wfNode, [wfResults EXCEPT ![wfNode] = status])
  /\ wfFailed' = IF status = "failed" THEN wfFailed \cup {wfNode} ELSE wfFailed
  /\ wfCompleted' = IF status = "failed" THEN wfCompleted ELSE wfCompleted + 1
  /\ UNCHANGED <<wfInclude, wfAttempt, wfContext, wfTracked, wfAnswer>>

\* A coroutine of the parallel node returns or raises; the status of its phase is
\* written when gather has all of them, and all of them are counted.
WfFlightEnds(p, status) ==
  /\ p \in wfFlying
  /\ wfFailed' = IF status = "failed" THEN wfFailed \cup {p} ELSE wfFailed
  /\ IF wfFlying = {p}
       THEN /\ WfEnter("parallel_execution",
                       [q \in WfPhase |-> IF q \notin WfActive THEN wfResults[q]
                                          ELSE IF q \in wfFailed' THEN "failed" ELSE "completed"])
            /\ wfCompleted' = wfCompleted + Cardinality(WfActive)
       ELSE /\ wfFlying' = wfFlying \ {p}
            /\ UNCHANGED <<wfNode, wfResults, wfCompleted>>
  /\ UNCHANGED <<wfInclude, wfAttempt, wfContext, wfTracked, wfAnswer>>

\* Mutant: one attempt more than there are.
WfMayRetryOnceMore == wfAttempt <= WfRetries

WfMayRetry == wfAttempt < WfRetries

\* The end of the graph: the entry of the attempt goes, and run_with_recovery
\* looks at the phases that failed.
WfFinish ==
  /\ wfNode = "end"
  /\ wfTracked' = FALSE
  /\ LET failed == {p \in WfPhase : wfResults[p] = "failed"} IN
     IF failed # {} /\ WfMayRetry
       THEN wfNode' = "backoff" /\ wfContext' = failed /\ UNCHANGED wfAnswer
       ELSE wfNode' = "returned" /\ wfAnswer' = "results" /\ UNCHANGED wfContext
  /\ UNCHANGED <<wfInclude, wfAttempt, wfResults, wfFlying, wfFailed, wfCompleted>>

\* The graph raises: run cleans up, and the attempt is made again or given up.
WfRaises ==
  /\ wfNode \notin {"idle", "backoff", "end", "returned"}
  /\ wfTracked' = FALSE
  /\ wfFlying' = {}
  /\ IF WfMayRetry
       THEN wfNode' = "backoff" /\ UNCHANGED wfAnswer
       ELSE wfNode' = "returned" /\ wfAnswer' = "error"
  /\ UNCHANGED <<wfInclude, wfAttempt, wfResults, wfFailed, wfCompleted, wfContext>>

WfNext ==
  \/ WfRun \/ WfFinish \/ WfRaises
  \/ \E status \in WfStatuses :
       WfPhaseEnds(status) \/ \E p \in WfPhase : WfFlightEnds(p, status)
-----------------------------------------------------------------------------
WfTypeOK ==
  /\ wfInclude \subseteq WfPhase
  /\ wfNode \in WfPhase \cup {"idle", "parallel_execution", "end", "backoff", "returned"}
  /\ wfAttempt \in 0..WfRetries
  /\ wfResults \in [WfPhase -> {"none", "running", "completed", "failed"}]
  /\ wfFlying \subseteq WfActive
  /\ wfFailed \subseteq WfPhase /\ wfContext \subseteq WfPhase
  /\ wfCompleted \in 0..Cardinality(WfPhase)
  /\ wfTracked \in BOOLEAN
  /\ wfAnswer \in {"none", "results", "error"}

\* An answer with results has one for every phase that is included, and reports a
\* failed phase only when every attempt was used up; an attempt that is over, by
\* an answer or by an exception, is not listed as active any more.
WfAnswerSound ==
  /\ wfAnswer = "results" =>
       /\ \A p \in wfInclude : wfResults[p] \in {"completed", "failed"}
       /\ (\E p \in wfInclude : wfResults[p] = "failed") => wfAttempt = WfRetries
  /\ wfAnswer = "error" => wfAttempt = WfRetries
  /\ wfTracked <=> wfNode \notin {"idle", "backoff", "returned"}

\* Whoever calls run_with_recovery is answered, however often phases fail.
WfEnds == wfNode = "planning" ~> wfNode = "returned"
=============================================================================
