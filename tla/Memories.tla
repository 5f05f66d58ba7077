------------------------------ MODULE Memories ------------------------------
(***************************************************************************)
(* The memory of the agents (memory/chromadb.py) and the requests for it   *)
(* (api/v1/memory.py).  A collection keeps what was added in the order in  *)
(* which it was added, ignores an id that it has, and refuses a filter     *)
(* with more than one key.  A string is the sequence of its characters.    *)
(***************************************************************************)
EXTENDS Naturals, Sequences, FiniteSets

CONSTANTS
  MeChar,    \* characters
  MeName,    \* what requests and agents give as the id of a session
  MeSession, \* the ids that sessions of the database have: of UUIDs
  MePlan,    \* plan ids
  MeLimit,   \* limit, of the messages that are shown
  MeEntries  \* entries that are made

\* What stands between the session and the plan in the id of a plan.
MeMark == "_"

ASSUME MeAssumption ==
  /\ MeLimit \in Nat /\ MeEntries \in Nat
  /\ MeMark \in MeChar
  /\ MeName \subseteq Seq(MeChar) /\ MePlan \subseteq Seq(MeChar) /\ MeSession \subseteq MeName
  /\ \A s \in MeSession : \A i \in 1..Len(s) : s[i] # MeMark

MeKind == {"conversation", "plan", "code", "output"}

VARIABLES
  meKept,   \* the collections: the entries of each, whose order is the one they were made in
  meMade,   \* what was stored: for each entry its kind, session and, of a plan, plan id
  meGone,   \* the entries that were deleted, or whose session was cleared
  meIgnored \* those that were not added, as their id was there

meVars == <<meKept, meMade, meGone, meIgnored>>

MeInit ==
  /\ meKept = [k \in MeKind |-> {}]
  /\ meMade = << >> /\ meGone = {} /\ meIgnored = {}

\* The id of a plan: f"{session_id}_{plan_id}".
MeId(session, plan) == session \o <<MeMark>> \o plan

\* An entry stands for its place in meMade; all but plans have an id of their own.
MeEntryOf(kind, session, plan) == [kind |-> kind, session |-> session, plan |-> plan]

MeSameId(a, b) == a.kind = "plan" /\ b.kind = "plan" /\ MeId(a.session, a.plan) = MeId(b.session, b.plan)

MeTaken(entry) == \E m \in meKept["plan"] : MeSameId(meMade[m], entry)

MeStore(kind, session, plan) ==
  LET entry == MeEntryOf(kind, session, IF kind = "plan" THEN plan ELSE << >>)
      n == Len(meMade) + 1
  IN
  /\ n <= MeEntries
  /\ meMade' = Append(meMade, entry)
  /\ IF MeTaken(entry)
       THEN meIgnored' = meIgnored \cup {n} /\ UNCHANGED meKept
       ELSE meKept' = [meKept EXCEPT ![kind] = @ \cup {n}] /\ UNCHANGED meIgnored
  /\ UNCHANGED meGone

\* The request stores what is neither a plan nor code as a message.  It takes any
\* string for the session and for the plan id.
MeRequestStore(asked, session, plan) ==
  MeStore(IF asked \in {"plan", "code"} THEN asked ELSE "conversation", session, plan)

\* What requests are shown; they change nothing, so they are no actions.  The plans and
\* the code that a request lists, for a session of the caller:
MeOf(kind, session) == {n \in meKept[kind] : meMade[n].session = session}

\* get_conversation: the first messages, not the last ones.
MeConversation(session) ==
  LET all == MeOf("conversation", session) IN {n \in all : Cardinality({m \in all : m <= n}) <= MeLimit}

\* get_plan.
MeGetPlan(session, plan) == {n \in meKept["plan"] : MeSameId(meMade[n], MeEntryOf("plan", session, plan))}

MeDelete(kind, n) ==
  /\ n \in meKept[kind]
  /\ meKept' = [meKept EXCEPT ![kind] = @ \ {n}]
  /\ meGone' = meGone \cup {n}
  /\ UNCHANGED <<meMade, meIgnored>>

\* clear_session goes over the collections; one that fails is left as it is.
MeClear(session, fails) ==
  LET Cleared(k) == k \notin fails IN
  /\ meKept' = [k \in MeKind |-> IF Cleared(k) THEN meKept[k] \ MeOf(k, session) ELSE meKept[k]]
  /\ meGone' = meGone \cup (UNION {MeOf(k, session) : k \in {j \in MeKind : Cleared(j)}})
  /\ UNCHANGED <<meMade, meIgnored>>

MeNext ==
  \/ \E s \in MeName, p \in MePlan :
       \/ \E k \in MeKind : MeStore(k, s, p)
       \/ \E k \in {"conversation", "plan", "fix"} : MeRequestStore(k, s, p)
  \/ \E s \in MeSession, fails \in {{}, {"code"}} : MeClear(s, fails)
  \/ \E k \in MeKind, n \in 1..Len(meMade) : MeDelete(k, n)
-----------------------------------------------------------------------------
MeEntry == [kind : MeKind, session : MeName, plan : MePlan \cup {<< >>}]

MeTypeOK ==
  /\ meMade \in Seq(MeEntry)
  /\ meKept \in [MeKind -> SUBSET (1..Len(meMade))]
  /\ meGone \subseteq 1..Len(meMade) /\ meIgnored \subseteq 1..Len(meMade)

\* Every entry that was made is kept in the collection of its kind, or was removed, or
\* its id was taken, and never two of these.
MeKeptSound ==
  /\ \A n \in 1..Len(meMade) : \A k \in MeKind :
       n \in meKept[k] <=> k = meMade[n].kind /\ n \notin meGone /\ n \notin meIgnored
  /\ meGone \cap meIgnored = {}

\* A plan is lost only to an earlier one with the same id, and of those the first stays.
\* Ids are the same for the same session and plan id, but not only for those: a string
\* that is no session can take the id of a plan of a session.  Two sessions cannot.
MePlansKept ==
  /\ \A n \in meIgnored : \E m \in 1..(n - 1) :
       /\ MeSameId(meMade[m], meMade[n])
       /\ meMade[m].session \in MeSession /\ meMade[n].session \in MeSession => meMade[m] = meMade[n]
  /\ \A n, m \in meKept["plan"] : n # m => ~MeSameId(meMade[n], meMade[m])

\* A plan that is asked for by the session and its id is one at most, and of no other
\* session of the database; so is every message of the conversation.
MeShownSound ==
  \A s \in MeSession :
    /\ \A p \in MePlan : \A n, m \in MeGetPlan(s, p) :
         n = m /\ (meMade[n].session \in MeSession => meMade[n].session = s /\ meMade[n].plan = p)
    /\ \A n \in MeConversation(s) : meMade[n].session = s

MeSound == MeKeptSound /\ MePlansKept /\ MeShownSound
=============================================================================
