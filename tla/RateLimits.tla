----------------------------- MODULE RateLimits -----------------------------
(***************************************************************************)
(* What counts requests over time: the middleware that every request       *)
(* passes (security/middleware.py), the limiter for the dependencies of    *)
(* routes (utils/security.py), which keeps the same log, and the table of  *)
(* CSRF tokens (security/csrf.py).  None of them suspends.                 *)
(***************************************************************************)
EXTENDS Naturals, Sequences, FiniteSets

CONSTANTS
  RlClient,  \* what requests are told apart by
  RlLimit,   \* requests_per_minute
  RlMinute,  \* the ticks of 60 seconds
  RlToken,   \* CSRF tokens
  RlLifetime, \* token_ttl
  RlEnd      \* the ticks that are looked at

ASSUME RlAssumption == RlLimit \in Nat \ {0} /\ RlMinute \in Nat \ {0} /\ RlLifetime \in Nat /\ RlEnd \in Nat

VARIABLES
  rlNow,      \* the clock
  rlAccepted, \* the times of all requests of each client that were let through
  rlLog,      \* _requests: which of those count, for each client
  rlTokens,   \* _tokens: token to expires_at
  rlGiven,    \* the tokens that were generated, and when
  rlValid     \* the tokens that were found valid, and when last

rlVars == <<rlNow, rlAccepted, rlLog, rlTokens, rlGiven, rlValid>>

RlInit ==
  /\ rlNow = 0
  /\ rlAccepted = [c \in RlClient |-> << >>]
  /\ rlLog = [c \in RlClient |-> {}]
  /\ rlTokens = << >> /\ rlGiven = << >> /\ rlValid = << >>

RlTick ==
  /\ rlNow < RlEnd
  /\ rlNow' = rlNow + 1
  /\ UNCHANGED <<rlLog, rlAccepted, rlTokens, rlGiven, rlValid>>

\* Mutant: a window that starts anew at every full minute.
RlRecentFixed(c) == {i \in rlLog[c] : rlNow \div RlMinute = rlAccepted[c][i] \div RlMinute}

\* _clean_old_requests: a request counts for a minute.
RlRecent(c) == {i \in rlLog[c] : rlNow - rlAccepted[c][i] < RlMinute}

\* A request that is refused is not recorded.
RlRequest(c) ==
  LET accepts == Cardinality(RlRecent(c)) < RlLimit IN
  /\ rlAccepted' = IF accepts THEN [rlAccepted EXCEPT ![c] = Append(@, rlNow)] ELSE rlAccepted
  /\ rlLog' = [rlLog EXCEPT ![c] = RlRecent(c) \cup (IF accepts THEN {Len(rlAccepted[c]) + 1} ELSE {})]
  /\ UNCHANGED <<rlNow, rlTokens, rlGiven, rlValid>>

RlWithout(tokens, gone) == [x \in DOMAIN tokens \ gone |-> tokens[x]]
RlWith(table, x, v) == [y \in DOMAIN table \cup {x} |-> IF y = x THEN v ELSE table[y]]

\* generate_token, and _cleanup_expired behind it.
RlGenerate(x) ==
  /\ x \notin DOMAIN rlGiven
  /\ LET tokens == RlWith(rlTokens, x, rlNow + RlLifetime) IN
     rlTokens' = RlWithout(tokens, {y \in DOMAIN tokens : rlNow > tokens[y]})
  /\ rlGiven' = RlWith(rlGiven, x, rlNow)
  /\ UNCHANGED <<rlNow, rlLog, rlAccepted, rlValid>>

\* validate_token; a token that is valid stays, for the next request.
RlValidate(x) ==
  /\ x \in DOMAIN rlTokens
  /\ IF rlNow > rlTokens[x]
       THEN rlTokens' = RlWithout(rlTokens, {x}) /\ UNCHANGED rlValid
       ELSE rlValid' = RlWith(rlValid, x, rlNow) /\ UNCHANGED rlTokens
  /\ UNCHANGED <<rlNow, rlLog, rlAccepted, rlGiven>>

RlInvalidate(x) ==
  /\ x \in DOMAIN rlTokens
  /\ rlTokens' = RlWithout(rlTokens, {x})
  /\ UNCHANGED <<rlNow, rlLog, rlAccepted, rlGiven, rlValid>>

RlNext ==
  \/ RlTick
  \/ \E c \in RlClient : RlRequest(c)
  \/ \E x \in RlToken : RlGenerate(x) \/ RlValidate(x) \/ RlInvalidate(x)
-----------------------------------------------------------------------------
RlTypeOK ==
  /\ rlNow \in 0..RlEnd
  /\ rlAccepted \in [RlClient -> Seq(0..rlNow)]
  /\ DOMAIN rlLog = RlClient /\ \A c \in RlClient : rlLog[c] \subseteq 1..Len(rlAccepted[c])
  /\ DOMAIN rlTokens \subseteq RlToken /\ DOMAIN rlValid \subseteq DOMAIN rlGiven

RlIn(c, first, last) ==
  Cardinality({i \in 1..Len(rlAccepted[c]) : first <= rlAccepted[c][i] /\ rlAccepted[c][i] <= last})

\* In no minute, wherever it begins, does a client get through more often than the
\* limit; and a client that is refused did, in the minute before.
RlWindow ==
  \A c \in RlClient :
    /\ \A t \in 0..RlEnd : RlIn(c, t, t + RlMinute - 1) <= RlLimit
    /\ Cardinality(RlRecent(c)) = RlIn(c, (IF rlNow < RlMinute THEN 0 ELSE rlNow - RlMinute + 1), rlNow)

\* A token is found valid only during its lifetime.
RlTokensLive == \A x \in DOMAIN rlValid : rlValid[x] <= rlGiven[x] + RlLifetime

RlSound == RlWindow /\ RlTokensLive
=============================================================================
