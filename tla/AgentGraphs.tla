----------------------------- MODULE AgentGraphs ----------------------------
(***************************************************************************)
(* The graphs of agents in agents/workflow.py: one node after the other,   *)
(* each of which runs the reasoning loop of its agent                      *)
(* (AutonomousAgentMixin.execute_with_tools) and leaves its trace.  The    *)
(* nodes pass the state of the graph on, with a context that they and the  *)
(* loops write into.                                                       *)
(*                                                                         *)
(* AgentLoops has the loop itself; of it there is what a graph can see.    *)
(***************************************************************************)
EXTENDS Naturals, Sequences

VARIABLES
  agNodes,   \* the nodes of the graph, in the order of its edges
  agAt,      \* the next node; 0 when one raised
  agContext, \* what is in the context of the state
  agTraces   \* agent_states: the nodes that left their trace, and whether it has an error

agVars == <<agNodes, agAt, agContext, agTraces>>

AgPipeline == <<"planner", "researcher", "coder">>

\* Three further nodes are in the graph with no edge that leads to them.
AgFull == <<"planner", "researcher", "coder", "reviewer">>

AgTypes == {"planner", "researcher", "coder", "reviewer", "tester", "documentation", "manager"}

\* given: what the caller put there; planned, plan: current_plan, and for whom it has
\* steps; searched, findings: research_findings; step: whose step current_step is;
\* last: whose tool results last_results are.
AgEmpty == [given |-> FALSE, planned |-> FALSE, plan |-> {}, searched |-> FALSE, findings |-> 0,
            step |-> "nobody", last |-> "nobody"]

AgInit ==
  /\ agNodes \in {AgPipeline, AgFull}
  /\ \E given \in BOOLEAN : agContext = [AgEmpty EXCEPT !.given = given]
  /\ agAt = 1
  /\ agTraces = << >>

\* An agent is made with the tools, the loop and the memory that all agents share.
\* The nodes of create_parallel_workflow give it a session besides, which no agent
\* takes: the first of them raises, and without any the graph cannot be built.
AgRunParallel(types) ==
  /\ agAt = 1 /\ agTraces = << >>
  /\ agNodes' = types
  /\ agAt' = 0
  /\ agContext' = AgEmpty
  /\ UNCHANGED agTraces

\* execute_with_tools: a loop that goes on puts its results into the dictionary it
\* was given; an empty context is not given to it but replaced.
AgLoopLeaves(node, context, goesOn) ==
  IF goesOn /\ context # AgEmpty THEN [context EXCEPT !.last = node] ELSE context

\* planner_node and researcher_node look into the result of the loop for a plan and
\* for findings.  A result counts tool calls, and has neither.
AgPlanOf(error) == {}
AgFindingsOf(error) == 0

AgPlanner(context, error) == [context EXCEPT !.planned = TRUE, !.plan = AgPlanOf(error)]

AgResearcher(context, error) == [context EXCEPT !.searched = TRUE, !.findings = AgFindingsOf(error)]

\* The researcher and the coder are given the first step of the plan that is theirs.
AgBefore(node, context) ==
  IF node \in {"researcher", "coder"} \cap context.plan THEN [context EXCEPT !.step = node] ELSE context

AgAfter(node, context, error) ==
  CASE node = "planner" -> AgPlanner(context, error)
    [] node = "researcher" -> AgResearcher(context, error)
    [] OTHER -> context

\* The loop catches what goes wrong in it: its trace has an error, and the graph goes on.
AgRuns(goesOn, error) ==
  /\ agAt \in DOMAIN agNodes
  /\ LET node == agNodes[agAt] IN
       /\ agContext' = AgAfter(node, AgLoopLeaves(node, AgBefore(node, agContext), goesOn), error)
       /\ agTraces' = Append(agTraces, [agent |-> node, error |-> error])
  /\ agAt' = agAt + 1
  /\ UNCHANGED agNodes

\* The trace is written as JSON once more outside of the loop: a result of a tool
\* that JSON cannot express ends the graph.
AgRaises ==
  /\ agAt \in DOMAIN agNodes
  /\ agAt' = 0
  /\ UNCHANGED <<agNodes, agContext, agTraces>>

\* AgentWorkflow.run, once more.
AgRun ==
  /\ agAt \notin DOMAIN agNodes
  /\ agNodes' \in {AgPipeline, AgFull}
  /\ \E given \in BOOLEAN : agContext' = [AgEmpty EXCEPT !.given = given]
  /\ agAt' = 1 /\ agTraces' = << >>

AgNext ==
  \/ \E goesOn, error \in BOOLEAN : AgRuns(goesOn, error)
  \/ AgRaises \/ AgRun
  \/ \E types \in {<< >>} \cup {<<a, b>> : a, b \in AgTypes} : AgRunParallel(types)
-----------------------------------------------------------------------------
AgTypeOK ==
  /\ agAt \in 0..(Len(AgFull) + 1)
  /\ agContext.plan \subseteq AgTypes /\ agContext.findings \in Nat
  /\ agContext.step \in AgTypes \cup {"nobody"} /\ agContext.last \in AgTypes \cup {"nobody"}

\* A graph that answers has the trace of every node in its order, one that raised
\* those of the nodes before.
AgEveryNodeTraced ==
  /\ \A i \in DOMAIN agTraces : agTraces[i].agent = agNodes[i]
  /\ agAt # 0 => Len(agTraces) = agAt - 1

\* An agent never takes the step of the one before it for its own; and the tool
\* results it finds are of an agent that ran, the planner's only if the context was
\* not empty at first.
AgNothingStale ==
  /\ agTraces # << >> =>
       LET agent == agTraces[Len(agTraces)].agent IN
       agent \in {"researcher", "coder"} => agContext.step \in {"nobody", agent}
  /\ agContext.last # "nobody" => \E i \in DOMAIN agTraces : agTraces[i].agent = agContext.last
  /\ agContext.last = "planner" => agContext.given

AgSound == AgEveryNodeTraced /\ AgNothingStale
=============================================================================
