---------------------------- MODULE WebSearches -----------------------------
(***************************************************************************)
(* WebSearchService (tools/web_search/service.py): searches that share a   *)
(* cache of answers and a bucket of tokens.  A search that finds the       *)
(* bucket empty waits with the lock of the bucket, so the others wait      *)
(* behind it.                                                              *)
(***************************************************************************)
EXTENDS Naturals, Sequences, FiniteSets

CONSTANTS
  WsSearch,   \* calls of search
  WsQuery,    \* query and provider, as the key of the cache has them
  WsBucket,   \* rate_limit_requests; a tick is what it takes to refill one token
  WsLifetime, \* cache_ttl_seconds
  WsAttempts, \* max_retries
  WsEnd       \* the ticks that are looked at

ASSUME WsAssumption ==
  WsBucket \in Nat \ {0} /\ WsLifetime \in Nat /\ WsAttempts \in Nat \ {0} /\ WsEnd \in Nat

VARIABLES
  wsNow,      \* the clock
  wsAt,       \* the searches: idle, waiting for a token, asking, backing off, or done
  wsQuery,    \* what each one searches for
  wsAsked,    \* the attempts of each
  wsAnswer,   \* what it answered: none, cached, found, or an error
  wsAge,      \* the time that the answer is from
  wsQueue,    \* who holds the lock of the bucket, and who waits for it
  wsTokens,   \* tokens
  wsRefilled, \* last_refill
  wsTaken,    \* the tokens that were taken: the tick of each
  wsCache     \* the cache: key to the time of its entry

wsVars == <<wsNow, wsAt, wsQuery, wsAsked, wsAnswer, wsAge, wsQueue, wsTokens, wsRefilled, wsTaken, wsCache>>

WsInit ==
  /\ wsNow = 0
  /\ wsAt = [c \in WsSearch |-> "idle"]
  /\ wsQuery \in [WsSearch -> WsQuery]
  /\ wsAsked = [c \in WsSearch |-> 0]
  /\ wsAnswer = [c \in WsSearch |-> "none"]
  /\ wsAge = [c \in WsSearch |-> 0]
  /\ wsQueue = << >>
  /\ wsTokens = WsBucket /\ wsRefilled = 0
  /\ wsTaken = << >>
  /\ wsCache = << >>

WsTick ==
  /\ wsNow < WsEnd
  /\ wsNow' = wsNow + 1
  /\ UNCHANGED <<wsAt, wsQuery, wsAsked, wsAnswer, wsAge, wsQueue, wsTokens, wsRefilled, wsTaken, wsCache>>

WsEnds(c, answer) == wsAt' = [wsAt EXCEPT ![c] = "done"] /\ wsAnswer' = [wsAnswer EXCEPT ![c] = answer]

WsExpired(key) == wsNow > wsCache[key] + WsLifetime

WsWithout(key) == [k \in DOMAIN wsCache \ {key} |-> wsCache[k]]

\* The cache is looked at once, before the token.  An entry that expired is removed.
WsBegin(c) ==
  LET key == wsQuery[c] IN
  /\ wsAt[c] = "idle"
  /\ IF key \in DOMAIN wsCache /\ ~WsExpired(key)
       THEN /\ WsEnds(c, "cached")
            /\ wsAge' = [wsAge EXCEPT ![c] = wsCache[key]]
            /\ UNCHANGED <<wsQueue, wsCache>>
       ELSE /\ wsAt' = [wsAt EXCEPT ![c] = "waiting"]
            /\ wsQueue' = Append(wsQueue, c)
            /\ wsCache' = WsWithout(key)
            /\ UNCHANGED <<wsAnswer, wsAge>>
  /\ UNCHANGED <<wsNow, wsQuery, wsAsked, wsTokens, wsRefilled, wsTaken>>

\* Mutant: the bucket has no limit.
WsLeastLast(a, b) == b

WsLeast(a, b) == IF a < b THEN a ELSE b

\* acquire, when it holds the lock: tokens are counted anew only when there is none.
WsRefill ==
  /\ wsQueue # << >> /\ wsTokens = 0 /\ wsNow > wsRefilled
  /\ wsTokens' = WsLeast(WsBucket, wsTokens + (wsNow - wsRefilled))
  /\ wsRefilled' = wsNow
  /\ UNCHANGED <<wsNow, wsAt, wsQuery, wsAsked, wsAnswer, wsAge, wsQueue, wsTaken, wsCache>>

WsAcquire ==
  /\ wsQueue # << >> /\ wsTokens >= 1
  /\ wsTokens' = wsTokens - 1
  /\ wsTaken' = Append(wsTaken, wsNow)
  /\ wsQueue' = Tail(wsQueue)
  /\ wsAt' = [wsAt EXCEPT ![Head(wsQueue)] = "asking"]
  /\ UNCHANGED <<wsNow, wsQuery, wsAsked, wsAnswer, wsAge, wsRefilled, wsCache>>

\* _execute_with_retries: a status of 4xx is not tried again.  Retries take no token.
WsMayRetry(c, outcome) == outcome = "fails" /\ wsAsked[c] + 1 < WsAttempts

WsAsk(c, outcome) ==
  /\ wsAt[c] = "asking"
  /\ wsAsked' = [wsAsked EXCEPT ![c] = @ + 1]
  /\ CASE outcome = "found" ->
            /\ WsEnds(c, "found")
            /\ wsAge' = [wsAge EXCEPT ![c] = wsNow]
            /\ wsCache' = [k \in DOMAIN wsCache \cup {wsQuery[c]} |-> IF k = wsQuery[c] THEN wsNow ELSE wsCache[k]]
       [] WsMayRetry(c, outcome) ->
            wsAt' = [wsAt EXCEPT ![c] = "backoff"] /\ UNCHANGED <<wsAnswer, wsAge, wsCache>>
       [] OTHER -> WsEnds(c, outcome) /\ UNCHANGED <<wsAge, wsCache>>
  /\ UNCHANGED <<wsNow, wsQuery, wsQueue, wsTokens, wsRefilled, wsTaken>>

WsRetry(c) ==
  /\ wsAt[c] = "backoff"
  /\ wsAt' = [wsAt EXCEPT ![c] = "asking"]
  /\ UNCHANGED <<wsNow, wsQuery, wsAsked, wsAnswer, wsAge, wsQueue, wsTokens, wsRefilled, wsTaken, wsCache>>

WsClear(keys) ==
  /\ keys # {} /\ keys \subseteq DOMAIN wsCache
  /\ keys = DOMAIN wsCache \/ keys = {k \in DOMAIN wsCache : WsExpired(k)}
  /\ wsCache' = [k \in DOMAIN wsCache \ keys |-> wsCache[k]]
  /\ UNCHANGED <<wsNow, wsAt, wsQuery, wsAsked, wsAnswer, wsAge, wsQueue, wsTokens, wsRefilled, wsTaken>>

WsStep(c) == WsRetry(c) \/ \E o \in {"found", "refused", "fails"} : WsAsk(c, o)

\* What goes on by itself: time, the bucket and the searches that have begun.
WsGoesOn == WsTick \/ WsRefill \/ WsAcquire \/ \E c \in WsSearch : WsStep(c)

WsNext ==
  \/ WsGoesOn
  \/ \E c \in WsSearch : WsBegin(c)
  \/ \E keys \in SUBSET WsQuery : WsClear(keys)
-----------------------------------------------------------------------------
WsTypeOK ==
  /\ wsNow \in 0..WsEnd /\ wsTaken \in Seq(0..wsNow)
  /\ wsQueue \in Seq(WsSearch) /\ wsQuery \in [WsSearch -> WsQuery]
  /\ wsAsked \in [WsSearch -> Nat] /\ wsAge \in [WsSearch -> Nat]
  /\ wsAt \in [WsSearch -> {"idle", "waiting", "asking", "backoff", "done"}]
  /\ wsAnswer \in [WsSearch -> {"none", "cached", "found", "refused", "fails"}]
  /\ wsTokens \in 0..WsBucket /\ wsRefilled \in 0..wsNow
  /\ DOMAIN wsCache \subseteq WsQuery

WsTakenIn(first, last) == Cardinality({k \in 1..Len(wsTaken) : first <= wsTaken[k] /\ wsTaken[k] <= last})

\* The bucket refills only when it is empty, and then for all the time since: after a
\* quiet time it holds twice what it may.  From any tick to any later one no more
\* tokens are taken than two buckets and those that refill meanwhile.
WsRateBounded ==
  \A i, j \in 0..WsEnd : i <= j => WsTakenIn(i, j) <= 2 * WsBucket + (j - i)

\* What is answered from the cache is an answer that was found for that query and was
\* not too old; only what was found is kept.
WsCacheSound ==
  /\ \A c \in WsSearch : wsAnswer[c] = "cached" =>
       \E d \in WsSearch : wsAnswer[d] = "found" /\ wsQuery[d] = wsQuery[c] /\ wsAge[d] = wsAge[c]
  /\ \A k \in DOMAIN wsCache : \E d \in WsSearch :
       wsAnswer[d] = "found" /\ wsQuery[d] = k /\ wsAge[d] = wsCache[k]

\* Who is refused was not asked again, who gives up was asked as often as there are
\* attempts, and who waits is in the queue, once.
WsRetriesSound ==
  \A c \in WsSearch :
    /\ wsAsked[c] <= WsAttempts
    /\ wsAnswer[c] = "fails" => wsAsked[c] = WsAttempts
    /\ wsAnswer[c] = "cached" => wsAsked[c] = 0
    /\ wsAt[c] = "waiting" <=> \E i \in 1..Len(wsQueue) : wsQueue[i] = c
    /\ \A i, j \in 1..Len(wsQueue) : wsQueue[i] = c /\ wsQueue[j] = c => i = j

WsSound == WsRateBounded /\ WsCacheSound /\ WsRetriesSound

\* A search that waits for a token is answered: only the end of the time that is looked
\* at, with an empty bucket, keeps one waiting.
WsServed ==
  \A c \in WsSearch :
    wsAt[c] = "waiting" ~> wsAt[c] = "done" \/ (wsTokens = 0 /\ wsNow = wsRefilled /\ wsNow = WsEnd)
=============================================================================
