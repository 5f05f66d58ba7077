----------------------------- MODULE MCServices -----------------------------
(***************************************************************************)
(* Instances of the modules about what the requests of the API share:      *)
(* sandboxes, websockets, webhooks, plugins, the start of the application, *)
(* the limiters, the cache of searches, accounts and the memory.  As in    *)
(* MCAgents, each behaviour is one of the part it begins with: the parts   *)
(* share no variable.                                                      *)
(***************************************************************************)
EXTENDS Sandboxes, Streams, Webhooks, Plugins, Startup, RateLimits, WebSearches, Access, Memories, TLC

VARIABLE part

Parts == {"sandboxes", "streams", "webhooks", "plugins", "startup", "limits", "searches", "access", "memories"}

vars == <<part, sbVars, stVars, whVars, plVars, inVars, rlVars, wsVars, acVars, meVars>>

\* q needs p in its second version, and p is registered twice.
MCNeeds == "q" :> {"p"} @@ "p" :> {}
MCAccepts == "q" :> ("p" :> {2} @@ "q" :> {1, 2}) @@ "p" :> ("p" :> {1, 2} @@ "q" :> {1, 2})
MCRegistrations == "p" :> 2 @@ "q" :> 1

\* A configuration that is complete, in development or in production, and all that
\* differ from it in one value.
MCGood == [production |-> FALSE, secret |-> "good", encryption |-> "good", session |-> "good", database |-> "good",
  redis |-> "good", chroma |-> "http", raises |-> "none", sandbox |-> TRUE, cors |-> "good", rate |-> 100,
  hosts |-> TRUE, named |-> TRUE, generates |-> TRUE]
MCRanges == [secret |-> {"missing", "default", "short", "replace-me", "secret"},
  encryption |-> {"missing", "short", "worded"}, session |-> {"missing", "short"},
  database |-> {"missing", "malformed", "hostless", "default", "local"}, redis |-> {"missing", "malformed", "local"},
  chroma |-> {"missing", "bare"},
  raises |-> {"tools", "providers", "mcp", "executor", "reasoning", "memory"}, sandbox |-> {FALSE},
  cors |-> {"empty", "wildcard", "local"}, rate |-> {0, 5}, hosts |-> {FALSE}, named |-> {FALSE},
  generates |-> {FALSE}]
MCVary(c) == UNION {{[c EXCEPT ![f] = v] : v \in MCRanges[f]} : f \in DOMAIN MCRanges}
MCConfigs == UNION {{c} \cup MCVary(c) : c \in {MCGood, [MCGood EXCEPT !.production = TRUE]}}
MCTimeout == "postgres" :> 3 @@ "redis" :> 2 @@ "chroma" :> 3

MCOf == "viewer" :> {"read"}

\* Two sessions, and a string that is none and makes the id of a plan that one of them
\* can make too: a_b_c.
MCChar == {"a", "b", "c", "_"}
MCSession == {<<"a">>, <<"b">>}
MCName == MCSession \cup {<<"a", "_", "b">>}
MCPlan == {<<"c">>, <<"b", "_", "c">>}

\* Two searches for the same, and one for something else.
MCQuery == <<"q1", "q1", "q2">>

Init ==
  /\ part \in Parts
  /\ SbInit
  /\ StInit /\ (part # "streams" => \A s \in StSession : stOwner[s] = "nobody")
  /\ WhInit /\ (part # "webhooks" => whLasting)
  /\ PlInit
  /\ InInit(IF part = "startup" THEN MCConfigs ELSE {MCGood}) /\ (part # "startup" => inCatalog)
  /\ RlInit
  /\ wsQuery = MCQuery /\ WsInit
  /\ AcInit /\ MeInit

Next ==
  \/ /\ part = "sandboxes" /\ SbNext
     /\ UNCHANGED <<part, stVars, whVars, plVars, inVars, rlVars, wsVars, acVars, meVars>>
  \/ /\ part = "streams" /\ StNext
     /\ UNCHANGED <<part, sbVars, whVars, plVars, inVars, rlVars, wsVars, acVars, meVars>>
  \/ /\ part = "webhooks" /\ WhNext
     /\ UNCHANGED <<part, sbVars, stVars, plVars, inVars, rlVars, wsVars, acVars, meVars>>
  \/ /\ part = "plugins" /\ PlNext
     /\ UNCHANGED <<part, sbVars, stVars, whVars, inVars, rlVars, wsVars, acVars, meVars>>
  \/ /\ part = "startup" /\ InNext
     /\ UNCHANGED <<part, sbVars, stVars, whVars, plVars, rlVars, wsVars, acVars, meVars>>
  \/ /\ part = "limits" /\ RlNext
     /\ UNCHANGED <<part, sbVars, stVars, whVars, plVars, inVars, wsVars, acVars, meVars>>
  \/ /\ part = "searches" /\ WsNext
     /\ UNCHANGED <<part, sbVars, stVars, whVars, plVars, inVars, rlVars, acVars, meVars>>
  \/ /\ part = "access" /\ AcNext
     /\ UNCHANGED <<part, sbVars, stVars, whVars, plVars, inVars, rlVars, wsVars, meVars>>
  \/ /\ part = "memories" /\ MeNext
     /\ UNCHANGED <<part, sbVars, stVars, whVars, plVars, inVars, rlVars, wsVars, acVars>>

\* The event loop goes on with what can go on, and time passes: a socket that was
\* closed is noticed, a service that the start asks answers or does not, and a search
\* that has its turn takes it.
Fairness ==
  /\ WF_vars(part = "streams" /\ StGoesOn /\ UNCHANGED <<part, sbVars, whVars, plVars, inVars, rlVars, wsVars, acVars, meVars>>)
  /\ WF_vars(part = "startup" /\ InStep /\ UNCHANGED <<part, sbVars, stVars, whVars, plVars, rlVars, wsVars, acVars, meVars>>)
  /\ WF_vars(part = "searches" /\ WsGoesOn /\ UNCHANGED <<part, sbVars, stVars, whVars, plVars, inVars, rlVars, acVars, meVars>>)

Spec == Init /\ [][Next]_vars /\ Fairness
-----------------------------------------------------------------------------
\* The types of the parts.
TypeOK ==
  CASE part = "sandboxes" -> SbTypeOK
    [] part = "streams" -> StTypeOK
    [] part = "webhooks" -> WhTypeOK
    [] part = "plugins" -> PlTypeOK
    [] part = "startup" -> InTypeOK
    [] part = "limits" -> RlTypeOK
    [] part = "searches" -> WsTypeOK
    [] part = "access" -> AcTypeOK
    [] part = "memories" -> MeTypeOK

\* What the tables of long-lived objects say, however requests, handlers and callbacks
\* interleave: within a process no sandbox is lost that was answered for, the two tables
\* of sockets agree and messages keep their order, the user's changes to a webhook win,
\* an enabled plugin is initialized, and none leaves that a registered one needs.
TablesSound ==
  /\ part = "sandboxes" => SbNothingLost
  /\ part = "streams" => StSound
  /\ part = "webhooks" => WhSound
  /\ part = "plugins" => PlSound

\* What is counted and checked over time: what serves has its secrets, its services and
\* its collections, though not its migrations, a wait lasts as long as its timeout, no
\* window holds more requests than its limit, and a cached answer is a found one.
ClocksSound ==
  /\ part = "startup" => InSound
  /\ part = "limits" => RlSound
  /\ part = "searches" => WsSound

\* What is stored for users: one account for each email, no permission after it was
\* revoked, no entry of the memory lost, but to an earlier plan with the same id, and no
\* plan of one session shown for another.  Searches show what is anybody's.
RecordsSound ==
  /\ part = "access" => AcSound
  /\ part = "memories" => MeSound

\* Sockets that were closed are forgotten, the start of the application ends, and
\* searches are served.
ServicesEnd == StForgotten /\ WsServed /\ (part = "startup" => InEnds)
=============================================================================
