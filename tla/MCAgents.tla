------------------------------ MODULE MCAgents ------------------------------
(***************************************************************************)
(* Instances of the modules about what an agent does, explored together.   *)
(* They share no variable, so a behaviour of one of them says nothing      *)
(* about the others: each behaviour here is one of the part it begins      *)
(* with, and the others stay as they are.                                  *)
(***************************************************************************)
EXTENDS ParallelTasks, Workflows, AgentLoops, Improvements, ByokChats, ModelRouting, Projects, AgentGraphs,
        Browsers, ToolTables, TLC

VARIABLE part

Parts == {"tasks", "workflow", "loops", "improvement", "chats", "routing", "projects", "graphs",
          "browsers", "tools"}

vars == <<part, ptVars, wfVars, alVars, imVars, bcVars, mrVars, pgVars, agVars, brVars, ttVars>>

\* Four tasks in two batches, with dependencies of all kinds: on tasks before and
\* behind, and on tasks of the other batch.
MCBatches == {1..3, 4..4}
MCDependencies ==
  {{}, {2, 4}} \X {{}, {1}, {3}} \X {{}, {1, 2}} \X {{1}}

\* A small model that is free, one that is large, and one that is measured slow.
MCModel ==
  << [caps |-> [plan |-> 1, write |-> 3], context |-> 1, input |-> 0, output |-> 0, base |-> 3, local |-> TRUE],
     [caps |-> [plan |-> 2, write |-> 2], context |-> 2, input |-> 1, output |-> 5, base |-> 8, local |-> FALSE],
     [caps |-> [plan |-> 4, write |-> 2], context |-> 4, input |-> 2, output |-> 8, base |-> 12, local |-> FALSE] >>
MCRule == [plan |-> [maxCost |-> 0, maxLatency |-> 16], write |-> [maxCost |-> 10, maxLatency |-> 0]]
MCRequest ==
  {r \in [task : {"plan", "write"}, input : {1, 2, 5}, output : 1..2, lowCost : BOOLEAN, lowLatency : BOOLEAN] :
     r.lowCost = r.lowLatency}

\* Prompts whose words hide in one another (their projects are of Python, Go and
\* TypeScript), and a stack of the language whose words give another.
MCPrompts == {{"fastapi", "postgresql"}, {"flask", "mongodb"}, {"rust", "tests"}}
MCGiven == {[language |-> "javascript", framework |-> "none", database |-> "redis", docker |-> FALSE]}

\* Servers that offer a name together, and names that the program has.
MCOffers == [s1 |-> {"a", "b", "browser"}, s2 |-> {"b", "web_search"}]

Init ==
  /\ part \in Parts
  /\ PtInit /\ (part # "tasks" => \A t \in 1..3 : ptDeps[t] = {})
  /\ WfInit /\ (part # "workflow" => wfInclude = {"planning"})
  /\ AlInit /\ (part # "loops" => alServed = AlLoop)
  /\ ImInit
  /\ BcInit /\ (part # "chats" => bcRows = << >> /\ bcSystem)
  /\ MrInit /\ (part # "routing" => mrFallback)
  /\ PgInit
  /\ AgInit /\ (part # "graphs" => agNodes = AgPipeline /\ ~agContext.given)
  /\ BrInit /\ TtInit

Next ==
  \/ /\ part = "tasks" /\ PtNext
     /\ UNCHANGED <<part, wfVars, alVars, imVars, bcVars, mrVars, pgVars, agVars, brVars, ttVars>>
  \/ /\ part = "workflow" /\ WfNext
     /\ UNCHANGED <<part, ptVars, alVars, imVars, bcVars, mrVars, pgVars, agVars, brVars, ttVars>>
  \/ /\ part = "loops" /\ AlNext
     /\ UNCHANGED <<part, ptVars, wfVars, imVars, bcVars, mrVars, pgVars, agVars, brVars, ttVars>>
  \/ /\ part = "improvement" /\ ImNext
     /\ UNCHANGED <<part, ptVars, wfVars, alVars, bcVars, mrVars, pgVars, agVars, brVars, ttVars>>
  \/ /\ part = "chats" /\ BcNext
     /\ UNCHANGED <<part, ptVars, wfVars, alVars, imVars, mrVars, pgVars, agVars, brVars, ttVars>>
  \/ /\ part = "routing" /\ MrNext
     /\ UNCHANGED <<part, ptVars, wfVars, alVars, imVars, bcVars, pgVars, agVars, brVars, ttVars>>
  \/ /\ part = "projects" /\ PgNext
     /\ UNCHANGED <<part, ptVars, wfVars, alVars, imVars, bcVars, mrVars, agVars, brVars, ttVars>>
  \/ /\ part = "graphs" /\ AgNext
     /\ UNCHANGED <<part, ptVars, wfVars, alVars, imVars, bcVars, mrVars, pgVars, brVars, ttVars>>
  \/ /\ part = "browsers" /\ BrNext
     /\ UNCHANGED <<part, ptVars, wfVars, alVars, imVars, bcVars, mrVars, pgVars, agVars, ttVars>>
  \/ /\ part = "tools" /\ TtNext
     /\ UNCHANGED <<part, ptVars, wfVars, alVars, imVars, bcVars, mrVars, pgVars, agVars, brVars>>

\* The event loop goes on with what it has: tools and models answer or time out, and
\* the lock of the browser tool, which serves those that wait in their order, is got
\* by each that waits for it if it is free again and again.
Fairness ==
  /\ WF_vars(part = "tasks" /\ PtStep
             /\ UNCHANGED <<part, wfVars, alVars, imVars, bcVars, mrVars, pgVars, agVars, brVars, ttVars>>)
  /\ WF_vars(part = "workflow" /\ wfNode # "idle" /\ WfNext
             /\ UNCHANGED <<part, ptVars, alVars, imVars, bcVars, mrVars, pgVars, agVars, brVars, ttVars>>)
  /\ WF_vars(part = "loops" /\ (\E l \in AlLoop : AlStep(l))
             /\ UNCHANGED <<part, ptVars, wfVars, imVars, bcVars, mrVars, pgVars, agVars, brVars, ttVars>>)
  /\ \A a \in BrUser :
       SF_vars(part = "browsers" /\ BrStep(a)
               /\ UNCHANGED <<part, ptVars, wfVars, alVars, imVars, bcVars, mrVars, pgVars, agVars, ttVars>>)

Spec == Init /\ [][Next]_vars /\ Fairness
-----------------------------------------------------------------------------
\* The types of the parts.
TypeOK ==
  CASE part = "tasks" -> PtTypeOK
    [] part = "workflow" -> WfTypeOK
    [] part = "loops" -> AlTypeOK
    [] part = "improvement" -> ImTypeOK
    [] part = "chats" -> BcTypeOK
    [] part = "routing" -> MrTypeOK
    [] part = "projects" -> PgTypeOK
    [] part = "graphs" -> AgTypeOK
    [] part = "browsers" -> BrTypeOK
    [] part = "tools" -> TtTypeOK

\* Loops of agents keep to their budget, their traces account for what they did, one
\* that says DONE had no failed step to say so of, and each asks its own service.
LoopsSound == part = "loops" => AlBudget /\ AlTraceAccounts /\ AlDoneIsClean /\ AlOwnService

\* What agents do in parts: no task before what it depends on, a workflow that answers
\* has tried every phase as often as it may, an improvement loop says why it ended
\* and is stored with the solutions it made, a project that is listed is there with
\* all that its own files name, a graph has the trace of each agent that ran, what is
\* closed of a browser is closed and what is listed of it runs, and a tool is called
\* where it is now.
WorkSound ==
  /\ part = "tasks" => PtDependenciesFirst
  /\ part = "workflow" => WfAnswerSound
  /\ part = "improvement" => ImStatusExplained /\ ImStoredSolutions
  /\ part = "projects" => PgSound
  /\ part = "graphs" => AgSound
  /\ part = "browsers" => BrSound
  /\ part = "tools" => TtSound

\* Calls of models: every adapter is closed with the key it holds, one answer is given,
\* the router (an agent does) asks no further provider behind a key that is refused or
\* cannot be decrypted, and of the models that a request is offered all keep its limits
\* of context and cost, but for a fallback when none does.
ChatsSound ==
  /\ part = "chats" => BcKeyReleased /\ BcOneAnswer /\ BcRefusedKeyStops
  /\ part = "routing" => MrSound

\* Whatever an agent began comes to an end, a call of the browser tool too unless the
\* tool is stopped with a session open.
AgentsEnd == PtSortedEnds /\ WfEnds /\ AlEnds /\ BrEnds
=============================================================================
