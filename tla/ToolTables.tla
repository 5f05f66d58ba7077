----------------------------- MODULE ToolTables -----------------------------
(***************************************************************************)
(* Where an agent's call of a tool goes: the registry of tools             *)
(* (tools/registry.py), into which the tools of the program are put        *)
(* (tools/registration.py) and those of MCP once, when the application     *)
(* starts (tools/mcp_integration.py); the registry of MCP tools            *)
(* (mcp/registry.py), which changes with its servers; and the invoker      *)
(* (agents/execution_engine.py), which a loop tells where it believes the  *)
(* tool to be.                                                             *)
(*                                                                         *)
(* McpServers has the servers and the handlers.  register_mcp_tool and     *)
(* unregister_mcp_tool of the integrator are called by nothing, so that    *)
(* its own table stays empty.  No step in between is suspended but the     *)
(* tool itself.                                                            *)
(***************************************************************************)
EXTENDS Naturals, FiniteSets

CONSTANTS
  TtServer,    \* MCP servers
  TtOffers,    \* the names of the tools of each
  TtNative,    \* names of the program's tools: browser, sandbox
  TtFunction,  \* names of its functions: execute_code, web_search
  TtCaller,    \* agents that call tools
  TtNobody     \* no tool of that name

ASSUME TtAssumption == {"native", "function", TtNobody} \cap TtServer = {} /\ TtNobody \notin {"native", "function"}

TtName == TtNative \cup TtFunction \cup UNION {TtOffers[s] : s \in TtServer}

VARIABLES
  ttUp,      \* servers whose tools were registered
  ttServed,  \* MCPRegistry._tools: name to server
  ttOwned,   \* MCPRegistry._server_tools: server to names
  ttTable,   \* ToolRegistry._tools: name to "native", or to the server that its wrapper names
  ttReady,   \* the application has started
  ttCall,    \* the calls: of what, where to, and how they ended
  ttTaken    \* names that a server lost to another that then stopped

ttVars == <<ttUp, ttServed, ttOwned, ttTable, ttReady, ttCall, ttTaken>>

TtNoCall == [name |-> TtNobody, type |-> "none", by |-> TtNobody, at |-> "idle"]

\* Importing registration.py comes before anything else; it takes no name that is there.
TtInit ==
  /\ ttUp = {}
  /\ ttServed = [n \in TtName |-> TtNobody]
  /\ ttOwned = [s \in TtServer |-> {}]
  /\ ttTable = [n \in TtName |-> IF n \in TtNative THEN "native" ELSE TtNobody]
  /\ ttReady = FALSE
  /\ ttCall = [c \in TtCaller |-> TtNoCall]
  /\ ttTaken = {}

(***************************************************************************)
(* Servers come and go                                                     *)
(***************************************************************************)
\* register_tool for each tool: the last server to offer a name has it.
TtUp(s) ==
  /\ s \notin ttUp
  /\ ttUp' = ttUp \cup {s}
  /\ ttServed' = [n \in TtName |-> IF n \in TtOffers[s] THEN s ELSE ttServed[n]]
  /\ ttOwned' = [ttOwned EXCEPT ![s] = @ \cup TtOffers[s]]
  /\ ttTaken' = ttTaken \ TtOffers[s]
  /\ UNCHANGED <<ttTable, ttReady, ttCall>>

\* unregister_server_tools: the names that the server registered once, whosever they are.
TtDown(s) ==
  /\ s \in ttUp
  /\ ttUp' = ttUp \ {s}
  /\ ttServed' = [n \in TtName |-> IF n \in ttOwned[s] THEN TtNobody ELSE ttServed[n]]
  /\ ttOwned' = [ttOwned EXCEPT ![s] = {}]
  /\ ttTaken' = ttTaken \cup {n \in ttOwned[s] : \E r \in ttUp \ {s} : n \in TtOffers[r]}
  /\ UNCHANGED <<ttTable, ttReady, ttCall>>

\* sync_tools: a wrapper for every MCP tool whose name nothing of the program has.
\* It removes nothing, since it does not note the wrappers that it makes.
TtSync ==
  /\ ~ttReady
  /\ ttTable' = [n \in TtName |-> IF ttTable[n] = TtNobody /\ n \notin TtFunction THEN ttServed[n] ELSE ttTable[n]]
  /\ ttReady' = TRUE
  /\ UNCHANGED <<ttUp, ttServed, ttOwned, ttCall, ttTaken>>

(***************************************************************************)
(* Calls                                                                   *)
(***************************************************************************)
\* ReasoningLoop._get_tool_type.
TtType(n) ==
  IF ttTable[n] # TtNobody THEN "native" ELSE IF n \in TtFunction THEN "function" ELSE "mcp"

\* What takes the call of a type.  A wrapper asks the registry of MCP tools by name.
TtTakes(n, type) ==
  CASE type = "native" -> IF ttTable[n] = "native" THEN "native" ELSE ttServed[n]
    [] type = "function" -> "function"
    [] type = "mcp" -> ttServed[n]

\* invoke: nothing of that name is there, or it is on its way.
TtInvoke(c, n) ==
  LET by == TtTakes(n, TtType(n)) IN
  /\ ttReady /\ ttCall[c].at # "called"
  /\ ttCall' = [ttCall EXCEPT ![c] = [name |-> n, type |-> TtType(n), by |-> by,
                                      at |-> IF by = TtNobody THEN "failed" ELSE "called"]]
  /\ UNCHANGED <<ttUp, ttServed, ttOwned, ttTable, ttReady, ttTaken>>

\* The tool answers, raises, or takes longer than it may.
TtEnds(c) ==
  /\ ttCall[c].at = "called"
  /\ \E end \in {"success", "failed", "timeout"} : ttCall' = [ttCall EXCEPT ![c].at = end]
  /\ UNCHANGED <<ttUp, ttServed, ttOwned, ttTable, ttReady, ttTaken>>

TtNext ==
  \/ \E s \in TtServer : TtUp(s) \/ TtDown(s)
  \/ TtSync
  \/ \E c \in TtCaller : TtEnds(c) \/ \E n \in TtName : TtInvoke(c, n)
-----------------------------------------------------------------------------
TtTypeOK ==
  /\ ttServed \in [TtName -> TtServer \cup {TtNobody}]
  /\ ttTable \in [TtName -> TtServer \cup {TtNobody, "native"}]
  /\ \A c \in TtCaller : ttCall[c].at \in {"idle", "called", "success", "failed", "timeout"}

\* What takes a call now, by the type that the loop finds.
TtReached(n) == TtTakes(n, TtType(n))

\* The tools and functions of the program keep their names, whatever servers offer and
\* whenever they come; a server's tool is reached at the server that has it now, though
\* the table of tools was filled once and may name another, or one that is gone.
TtOnePlace ==
  \A n \in TtName :
    TtReached(n) = IF n \in TtNative THEN "native" ELSE IF n \in TtFunction THEN "function" ELSE ttServed[n]

\* A tool of a server that is up is reached, there or at another that offers it, unless
\* another server of that name stopped since and took the name with it.
TtReachable ==
  \A s \in ttUp : \A n \in TtOffers[s] \ (TtNative \cup TtFunction \cup ttTaken) :
    TtReached(n) \in ttUp /\ n \in TtOffers[TtReached(n)]

\* list_available_tools: what is listed of a server may be gone, or have gone to another
\* server, since it was wrapped when the application started; a call of it then fails
\* or goes there, and never to a server that is down.
TtListed ==
  \A n \in TtName :
    /\ TtReached(n) \in TtServer => TtReached(n) \in ttUp
    /\ ttTable[n] \in TtServer => n \notin TtNative \cup TtFunction /\ n \in TtOffers[ttTable[n]]

TtSound == TtOnePlace /\ TtReachable /\ TtListed
=============================================================================
