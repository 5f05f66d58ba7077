------------------------------ MODULE ByokChats -----------------------------
(***************************************************************************)
(* Chats and streams with a user's own provider: BYOKExecutionService and  *)
(* BYOKRouter (llm/byok/executor.py), the adapters they call               *)
(* (Adapters, from llm/byok/adapters.py, implementations.py), and the two  *)
(* places in agents/autonomous.py that do the same for agents.  All fall   *)
(* back to the providers of the system (llm/service.py, llm/providers.py). *)
(*                                                                         *)
(* The user's connections change while chats run; ByokConnections says how *)
(* they are written.                                                       *)
(***************************************************************************)
EXTENDS Adapters, FiniteSets

CONSTANTS
  BcChat,     \* calls that are under way
  BcProvider, \* providers the user may have a connection for
  BcNone      \* no provider

ASSUME BcAssumption == BcProvider \subseteq DOMAIN AdAdapter /\ BcNone \notin BcProvider

VARIABLES
  bcRows,   \* the enabled connections of the user: provider to is_default
  bcSystem, \* a system service is configured
  bcCall,   \* the calls: who makes them, for which provider, and how far they are
  bcOpen,   \* the calls that hold an adapter with a decrypted key
  bcAsked,  \* whom each call asked: its user's provider, the system
  bcReader  \* where the chunks come from that the reader of a stream was given

bcVars == <<bcRows, bcSystem, bcCall, bcOpen, bcAsked, bcReader>>

\* BYOKRouter.chat and stream, UserScopedLLMService.chat and stream, and
\* AutonomousAgentMixin.chat_with_llm.
BcCaller == {"router_chat", "router_stream", "agent_chat", "agent_stream", "mixin_chat"}
BcStreams(c) == bcCall[c].by \in {"router_stream", "agent_stream"}
BcOfRouter(c) == bcCall[c].by \in {"router_chat", "router_stream"}

BcRetryable(error) == error \notin {"invalid_api_key", "expired_api_key", "no_provider"}

BcInit ==
  /\ bcRows \in UNION {[P -> BOOLEAN] : P \in SUBSET BcProvider}
  /\ bcSystem \in BOOLEAN
  /\ bcCall = [c \in BcChat |-> [by |-> "nobody", provider |-> BcNone, at |-> "idle", uses |-> BcNone,
                                   url |-> FALSE, error |-> "none", code |-> "none"]]
  /\ bcOpen = {}
  /\ bcAsked = [c \in BcChat |-> {}]
  /\ bcReader = [c \in BcChat |-> << >>]

BcTo(c, at) == bcCall' = [bcCall EXCEPT ![c].at = at]

\* set_default clears the other defaults of the provider, not those of others.
BcSetDefault(p) ==
  /\ p \in DOMAIN bcRows
  /\ bcRows' = [bcRows EXCEPT ![p] = TRUE]
  /\ UNCHANGED <<bcSystem, bcCall, bcOpen, bcAsked, bcReader>>

\* disable, delete.
BcRemove(p) ==
  /\ p \in DOMAIN bcRows
  /\ bcRows' = [d \in DOMAIN bcRows \ {p} |-> bcRows[d]]
  /\ UNCHANGED <<bcSystem, bcCall, bcOpen, bcAsked, bcReader>>

BcBegin(c, by, p) ==
  /\ bcCall[c].at = "idle"
  /\ bcCall' = [bcCall EXCEPT ![c] = [by |-> by, provider |-> p, at |-> "lookup",
                                          uses |-> BcNone, url |-> FALSE, error |-> "none", code |-> "none"]]
  /\ UNCHANGED <<bcRows, bcSystem, bcOpen, bcAsked, bcReader>>

\* The errors that are no BYOKExecutionError: two defaults, a key that cannot be
\* decrypted.
BcForeign == {"database", "decryption"}

\* What becomes of an error of BYOKExecutionService.  The router raises those that
\* are not retryable, and exceptions of other kinds; an agent falls back always.
\* (What a verification would have said of the same answer is noted besides.)
BcOnError(c, error, code) ==
  bcCall' = [bcCall EXCEPT ![c].error = error, ![c].code = code,
                           ![c].at = IF \/ ~BcOfRouter(c)
                                        \/ error = "no_provider"
                                        \/ error \notin BcForeign /\ BcRetryable(error)
                                     THEN "system" ELSE "raised"]

\* get_user_provider: the connection for the provider, or the default one; two
\* defaults are more than scalar_one_or_none takes.
BcFound(c) ==
  LET p == bcCall[c].provider IN
  IF p # BcNone THEN {p} \cap DOMAIN bcRows ELSE {d \in DOMAIN bcRows : bcRows[d]}

BcLookup(c) ==
  /\ bcCall[c].at = "lookup"
  /\ \E p \in BcFound(c), url \in BOOLEAN :
       /\ BcFound(c) = {p}
       /\ bcCall' = [bcCall EXCEPT ![c].at = "own", ![c].uses = p, ![c].url = url]
  /\ bcOpen' = bcOpen \cup {c}
  /\ UNCHANGED <<bcRows, bcSystem, bcAsked, bcReader>>

\* No connection, or two defaults; and create_adapter, which reads the connection
\* again: it may have gone meanwhile or be of a provider without an adapter, and the
\* key may have been encrypted under another master key.
BcLookupFails(c, error) ==
  /\ bcCall[c].at = "lookup"
  /\ error = "database" <=> Cardinality(BcFound(c)) > 1
  /\ error = "decryption" => BcFound(c) # {}
  /\ BcOnError(c, error, "none")
  /\ UNCHANGED <<bcRows, bcSystem, bcOpen, bcAsked, bcReader>>

\* The adapter can give the call what it asks for.  A stream method that returns a
\* list cannot be iterated over: it fails before it has sent anything.  The adapter of
\* Ollama can be asked only if the connection says where it is.
BcCanAsk(c) ==
  LET a == AdAdapter[bcCall[c].uses] IN ~(BcStreams(c) /\ a.listStream) /\ (bcCall[c].url \/ a.url)

\* The provider answered.  The stream of the other adapters is one chunk, the whole
\* answer.  UserScopedLLMService.chat reads attributes of an answer that is a
\* dictionary; what it then does is what it does for every failure.
BcOwnAnswers(c) ==
  /\ bcCall[c].at = "own"
  /\ BcCanAsk(c)
  /\ bcAsked' = [bcAsked EXCEPT ![c] = @ \cup {"own"}]
  /\ BcTo(c, IF bcCall[c].by = "agent_chat" THEN "system" ELSE "answered")
  /\ bcReader' = IF BcStreams(c) THEN [bcReader EXCEPT ![c] = Append(@, "own")] ELSE bcReader
  /\ bcOpen' = bcOpen \ {c}
  /\ UNCHANGED <<bcRows, bcSystem>>

\* The exception that an answer becomes, and what a verification says of it.
BcOwnError(c, answer) == AdErrorOf(AdAdapter[bcCall[c].uses], answer)
BcVerdict(c, answer) == AdVerdict(AdAdapter[bcCall[c].uses], answer)

\* Mutant: the adapter is not closed when it raises.
BcOwnFailsOpen(c, answer) ==
  /\ bcCall[c].at = "own"
  /\ ~BcCanAsk(c) => answer = AdNoAnswer
  /\ bcAsked' = [bcAsked EXCEPT ![c] = IF BcCanAsk(c) THEN @ \cup {"own"} ELSE @]
  /\ BcOnError(c, BcOwnError(c, answer), BcVerdict(c, answer))
  /\ UNCHANGED <<bcRows, bcSystem, bcReader, bcOpen>>

BcOwnFails(c, answer) ==
  /\ bcCall[c].at = "own"
  /\ ~BcCanAsk(c) => answer = AdNoAnswer
  /\ bcAsked' = [bcAsked EXCEPT ![c] = IF BcCanAsk(c) THEN @ \cup {"own"} ELSE @]
  /\ BcOnError(c, BcOwnError(c, answer), BcVerdict(c, answer))
  /\ bcOpen' = bcOpen \ {c}
  /\ UNCHANGED <<bcRows, bcSystem, bcReader>>

\* The providers of the system stream chunk by chunk: BcSystemChunk, before they
\* end or fail.  Agents have a system service always.
BcSystemThere(c) == bcSystem \/ ~BcOfRouter(c)

BcSystemChunk(c) ==
  /\ bcCall[c].at = "system" /\ BcSystemThere(c) /\ BcStreams(c)
  /\ Len(bcReader[c]) < 2
  /\ bcReader' = [bcReader EXCEPT ![c] = Append(@, "system")]
  /\ UNCHANGED <<bcRows, bcSystem, bcCall, bcOpen, bcAsked>>

BcSystemEnds(c, end) ==
  /\ bcCall[c].at = "system"
  /\ ~BcSystemThere(c) => end = "raised"
  /\ bcAsked' = [bcAsked EXCEPT ![c] = IF BcSystemThere(c) THEN @ \cup {"system"} ELSE @]
  /\ BcTo(c, end)
  /\ UNCHANGED <<bcRows, bcSystem, bcOpen, bcReader>>

BcNext ==
  \/ \E p \in BcProvider : BcSetDefault(p) \/ BcRemove(p)
  \/ \E c \in BcChat :
       \/ \E by \in BcCaller, p \in BcProvider \cup {BcNone} : BcBegin(c, by, p)
       \/ BcLookup(c) \/ (\E error \in {"no_provider"} \cup BcForeign : BcLookupFails(c, error))
       \/ BcOwnAnswers(c) \/ BcSystemChunk(c)
       \/ \E answer \in AdRefusals : BcOwnFails(c, answer)
       \/ \E end \in {"answered", "raised"} : BcSystemEnds(c, end)
-----------------------------------------------------------------------------
BcTypeOK ==
  /\ DOMAIN bcRows \subseteq BcProvider
  /\ bcSystem \in BOOLEAN
  /\ \A c \in BcChat : /\ bcCall[c].at \in {"idle", "lookup", "own", "system", "answered", "raised"}
                       /\ bcCall[c].provider \in BcProvider \cup {BcNone}
                       /\ bcCall[c].error \in {"none", "failed", "no_provider"} \cup BcForeign \cup {AdMapped(a) : a \in AdRefusals}
                       /\ bcCall[c].code \in {"none", "invalid_api_key"}
                       /\ bcAsked[c] \subseteq {"own", "system"}
                       /\ Len(bcReader[c]) <= 2
  /\ bcOpen \subseteq BcChat

\* A decrypted key is held while the provider is asked and no longer, however the
\* call ends.
BcKeyReleased == \A c \in bcOpen : bcCall[c].at = "own"

\* The reader of a stream is never given the beginning of one answer and then
\* another: no adapter delivers anything before it is certain to succeed.  (The
\* router and the agents would start again with the system after a failure midway.)
BcOneAnswer == \A c \in BcChat : ~(\E i, j \in 1..Len(bcReader[c]) : bcReader[c][i] # bcReader[c][j])

\* The router, and it alone, takes the system for an error that may pass, and never for
\* a lookup that raised, nor for an answer of which the verification of the same adapter
\* would say that the key is refused, whatever exception chat makes of it: its caller is
\* told.  (An agent goes on with the system whatever happened to the user's key.)
BcRefusedKeyStops ==
  \A c \in BcChat :
    BcOfRouter(c) /\ (bcCall[c].code = "invalid_api_key" \/ bcCall[c].error \in BcForeign) =>
      "system" \notin bcAsked[c] /\ bcCall[c].at = "raised"
=============================================================================
