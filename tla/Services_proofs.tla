-------------------------- MODULE Services_proofs --------------------------
(***************************************************************************)
(* What MCServices checks of the parts that the requests of the API share, *)
(* proved for every value of their constants: for each part an inductive   *)
(* invariant, that it holds at the start, that each step keeps it, and     *)
(* that it says what the run checks.  The theorems about the specification *)
(* are at the end.                                                         *)
(***************************************************************************)
EXTENDS MCServices, FiniteSetTheorems, SequenceTheorems, TLAPS

-----------------------------------------------------------------------------
\* Sandboxes.

\* Sandboxes: the invariant as it stands is inductive.
SbInv == SbTypeOK /\ SbNothingLost

\* It holds of the table that the manager begins with.
LEMMA SbStart == SbInit => SbInv
  BY DEF SbInit, SbInv, SbTypeOK, SbNothingLost, SbRunning

\* Every request and every clean-up keeps it.
LEMMA SbHolds == SbInv /\ [SbNext]_sbVars => SbInv'
  <1> SUFFICES ASSUME SbInv, [SbNext]_sbVars PROVE SbInv'
    OBVIOUS
  <1> USE DEF SbInv, SbTypeOK, SbNothingLost, SbRunning
  <1>1. ASSUME NEW i \in SbId, NEW tried \in SUBSET SbId, NEW end \in {"running", "created", "none"},
               NEW raised \in BOOLEAN, SbAllocate(tried, i, end, raised)
        PROVE  SbInv'
    <2>1. i \notin sbPool /\ i \notin sbLost /\ tried \subseteq SbId
      BY <1>1 DEF SbAllocate, SbUnused
    <2>2. CASE raised
      BY <1>1, <2>1, <2>2 DEF SbAllocate
    <2>3. CASE ~raised
      BY <1>1, <2>1, <2>3 DEF SbAllocate
    <2> QED
      BY <2>2, <2>3
  <1>2. ASSUME NEW i \in SbId, NEW b \in BOOLEAN, SbAsk(i, b)
        PROVE  SbInv'
    BY <1>2 DEF SbAsk, SbStatusOf
  <1>3. ASSUME NEW i \in SbId, SbPause(i) \/ SbUnpause(i)
        PROVE  SbInv'
    BY <1>3 DEF SbPause, SbUnpause
  <1>4. ASSUME NEW i \in SbId, NEW end \in {"exited", "gone"}, SbEnds(i, end)
        PROVE  SbInv'
    BY <1>4 DEF SbEnds
  <1>5. ASSUME NEW i \in SbId, NEW b \in BOOLEAN, SbRelease(i, b)
        PROVE  SbInv'
    BY <1>5 DEF SbRelease, SbForget
  <1>6. ASSUME NEW i \in SbId, SbReleaseFails(i)
        PROVE  SbInv'
    BY <1>6 DEF SbReleaseFails
  <1>7. CASE SbRestart
    BY <1>7 DEF SbRestart
  <1>8. CASE UNCHANGED sbVars
    BY <1>8 DEF sbVars
  <1> QED
    BY <1>1, <1>2, <1>3, <1>4, <1>5, <1>6, <1>7, <1>8
    DEF SbNext, SbToolAllocate, SbStatusRequest, SbExecute, SbInstall, SbWriteFile, SbReadFile, SbListFiles

-----------------------------------------------------------------------------
\* Websockets.

\* What a list without one of its sockets is: the others, in their order.
LEMMA StWithoutList ==
  ASSUME NEW S, NEW list \in Seq(S), IsInjective(list), NEW at \in 1..Len(list)
  PROVE  /\ StWithout(list, list[at]) \in Seq(S) /\ Len(StWithout(list, list[at])) = Len(list) - 1
         /\ \A m \in 1..(Len(list) - 1) : StWithout(list, list[at])[m] = IF m < at THEN list[m] ELSE list[m + 1]
  <1> DEFINE w == list[at]
  <1>1. Len(list) \in Nat /\ DOMAIN list = 1..Len(list) /\ w \in ToSet(list)
    BY DEF ToSet
  <1>2. (CHOOSE i \in DOMAIN list : list[i] = w) = at
    BY <1>1 DEF IsInjective
  <1>3. StWithout(list, w) = RemoveAt(list, at)
    BY <1>1, <1>2 DEF StWithout
  <1>4. RemoveAt(list, at) = SubSeq(list, 1, at - 1) \o SubSeq(list, at + 1, Len(list))
    BY DEF RemoveAt
  <1> DEFINE p == SubSeq(list, 1, at - 1)
             q == SubSeq(list, at + 1, Len(list))
  <1>5. /\ p \in Seq(S) /\ Len(p) = at - 1 /\ \A m \in 1..(at - 1) : p[m] = list[m]
        /\ q \in Seq(S) /\ Len(q) = Len(list) - at /\ \A m \in 1..(Len(list) - at) : q[m] = list[at + m]
    <2>1. /\ at \in Int /\ at - 1 \in Int /\ at + 1 \in Int /\ 1 \in Int /\ Len(list) \in Int
          /\ (\A i \in 1..(at - 1) : list[i] \in S) /\ (\A i \in (at + 1)..Len(list) : list[i] \in S)
      BY <1>1
    <2>2. /\ p \in Seq(S) /\ Len(p) = IF 1 <= at - 1 THEN (at - 1) - 1 + 1 ELSE 0
          /\ \A m \in 1..((at - 1) - 1 + 1) : p[m] = list[1 + m - 1]
      <3> DEFINE last == at - 1
      <3>1. last \in Int /\ \A i \in 1..last : list[i] \in S
        BY <2>1
      <3> HIDE DEF last
      <3>2. /\ SubSeq(list, 1, last) \in Seq(S) /\ Len(SubSeq(list, 1, last)) = IF 1 <= last THEN last - 1 + 1 ELSE 0
            /\ \A m \in 1..(last - 1 + 1) : SubSeq(list, 1, last)[m] = list[1 + m - 1]
        BY <2>1, <3>1, SubSeqProperties
      <3> QED
        BY <3>2 DEF last
    <2>3. /\ q \in Seq(S) /\ Len(q) = IF at + 1 <= Len(list) THEN Len(list) - (at + 1) + 1 ELSE 0
          /\ \A m \in 1..(Len(list) - (at + 1) + 1) : q[m] = list[(at + 1) + m - 1]
      BY <2>1, SubSeqProperties
    <2> HIDE DEF p, q
    <2>0. \A l \in Nat : \A a \in 1..l :
            /\ (IF 1 <= a - 1 THEN (a - 1) - 1 + 1 ELSE 0) = a - 1
            /\ (IF a + 1 <= l THEN l - (a + 1) + 1 ELSE 0) = l - a
      OBVIOUS
    <2>4. Len(p) = at - 1 /\ Len(q) = Len(list) - at
      BY <1>1, <2>0, <2>2, <2>3
    <2>5. \A m \in 1..(at - 1) : m \in 1..((at - 1) - 1 + 1) /\ 1 + m - 1 = m
      BY <1>1
    <2>6. \A m \in 1..(Len(list) - at) : m \in 1..(Len(list) - (at + 1) + 1) /\ (at + 1) + m - 1 = at + m
      BY <1>1
    <2> QED
      BY <2>2, <2>3, <2>4, <2>5, <2>6
  <1> HIDE DEF p, q
  <1>6. /\ p \o q \in Seq(S) /\ Len(p \o q) = Len(list) - 1
        /\ \A m \in 1..(Len(list) - 1) : (p \o q)[m] = IF m < at THEN list[m] ELSE list[m + 1]
    <2>1. /\ p \o q \in Seq(S) /\ Len(p \o q) = Len(p) + Len(q)
          /\ \A i \in 1..(Len(p) + Len(q)) : (p \o q)[i] = IF i <= Len(p) THEN p[i] ELSE q[i - Len(p)]
      BY <1>5, ConcatProperties
    <2>2. ASSUME NEW m \in 1..(Len(list) - 1)
          PROVE  (p \o q)[m] = IF m < at THEN list[m] ELSE list[m + 1]
      <3>1. (p \o q)[m] = IF m <= at - 1 THEN p[m] ELSE q[m - (at - 1)]
        BY <1>1, <1>5, <2>1
      <3>2. CASE m < at
        <4>1. m \in 1..(at - 1)
          BY <1>1, <3>2
        <4> QED
          BY <1>5, <3>1, <3>2, <4>1
      <3>3. CASE ~(m < at)
        <4>1. m - (at - 1) \in 1..(Len(list) - at) /\ at + (m - (at - 1)) = m + 1
          BY <1>1, <3>3
        <4> QED
          BY <1>1, <1>5, <3>1, <3>3, <4>1
      <3> QED
        BY <3>2, <3>3
    <2> QED
      BY <1>1, <1>5, <2>1, <2>2
  <1> QED
    BY <1>3, <1>4, <1>6 DEF p, q

\* It has the others, each of them once, and is empty if there was no other.
LEMMA StWithoutSet ==
  ASSUME NEW S, NEW list \in Seq(S), IsInjective(list), NEW w \in ToSet(list)
  PROVE  /\ StWithout(list, w) \in Seq(S) /\ IsInjective(StWithout(list, w))
         /\ ToSet(StWithout(list, w)) = ToSet(list) \ {w}
         /\ StWithout(list, w) = << >> <=> ToSet(list) = {w}
  <1> DEFINE rest == StWithout(list, w)
  <1>1. Len(list) \in Nat /\ DOMAIN list = 1..Len(list)
    OBVIOUS
  <1>2. PICK at \in 1..Len(list) : list[at] = w
    BY <1>1 DEF ToSet
  <1>3. /\ rest \in Seq(S) /\ Len(rest) = Len(list) - 1
        /\ \A m \in 1..(Len(list) - 1) : rest[m] = IF m < at THEN list[m] ELSE list[m + 1]
    BY <1>2, StWithoutList
  <1> HIDE DEF rest
  <1>4. DOMAIN rest = 1..(Len(list) - 1)
    BY <1>3
  <1>5. \A i, j \in 1..Len(list) : list[i] = list[j] => i = j
    BY <1>1 DEF IsInjective
  <1>6. \A i, j \in DOMAIN rest : rest[i] = rest[j] => i = j
    <2> SUFFICES ASSUME NEW i \in 1..(Len(list) - 1), NEW j \in 1..(Len(list) - 1), rest[i] = rest[j] PROVE i = j
      BY <1>4
    <2> DEFINE f(m) == IF m < at THEN m ELSE m + 1
    <2>1. f(i) \in 1..Len(list) /\ f(j) \in 1..Len(list) /\ rest[i] = list[f(i)] /\ rest[j] = list[f(j)]
      BY <1>1, <1>3
    <2>2. f(i) = f(j)
      BY <1>5, <2>1
    <2> QED
      BY <2>2
  <1>7. ToSet(rest) = ToSet(list) \ {w}
    <2>1. ASSUME NEW x \in ToSet(rest) PROVE x \in ToSet(list) /\ x # w
      <3>1. PICK m \in 1..(Len(list) - 1) : rest[m] = x
        BY <1>4 DEF ToSet
      <3>2. CASE m < at
        BY <1>1, <1>2, <1>3, <1>5, <3>1, <3>2 DEF ToSet
      <3>3. CASE ~(m < at)
        <4>1. m + 1 \in 1..Len(list) /\ x = list[m + 1] /\ m + 1 # at
          BY <1>1, <1>3, <3>1, <3>3
        <4> QED
          BY <1>1, <1>2, <1>5, <4>1 DEF ToSet
      <3> QED
        BY <3>2, <3>3
    <2>2. ASSUME NEW x \in ToSet(list), x # w PROVE x \in ToSet(rest)
      <3>1. PICK i \in 1..Len(list) : list[i] = x
        BY <1>1 DEF ToSet
      <3>2. i # at
        BY <1>2, <2>2, <3>1
      <3>3. CASE i < at
        <4>1. i \in 1..(Len(list) - 1) /\ rest[i] = x
          BY <1>1, <1>3, <3>1, <3>3
        <4> QED
          BY <1>4, <4>1 DEF ToSet
      <3>4. CASE i > at
        <4>1. i - 1 \in 1..(Len(list) - 1) /\ rest[i - 1] = list[(i - 1) + 1] /\ (i - 1) + 1 = i
          BY <1>1, <1>3, <3>1, <3>4
        <4> QED
          BY <1>4, <3>1, <4>1 DEF ToSet
      <3> QED
        BY <3>2, <3>3, <3>4
    <2> QED
      BY <2>1, <2>2
  <1>8. rest = << >> <=> ToSet(list) = {w}
    <2>1. rest = << >> => ToSet(rest) = {}
      BY DEF ToSet
    <2>2. ToSet(rest) = {} => rest = << >>
      BY <1>3 DEF ToSet
    <2> QED
      BY <1>7, <2>1, <2>2
  <1> QED
    BY <1>3, <1>6, <1>7, <1>8 DEF IsInjective, rest

\* A list that another one begins with.
StBegins(begin, list) == Len(begin) <= Len(list) /\ \A m \in 1..Len(begin) : begin[m] = list[m]

\* A list keeps its beginning when a socket behind it is removed.
LEMMA StWithoutBegins ==
  ASSUME NEW S, NEW list \in Seq(S), IsInjective(list), NEW w \in ToSet(list), NEW begin \in Seq(S),
         StBegins(begin, list), w \notin ToSet(begin)
  PROVE  StBegins(begin, StWithout(list, w))
  <1> DEFINE rest == StWithout(list, w)
  <1>1. Len(list) \in Nat /\ DOMAIN list = 1..Len(list) /\ Len(begin) \in Nat /\ DOMAIN begin = 1..Len(begin)
    OBVIOUS
  <1>2. PICK at \in 1..Len(list) : list[at] = w
    BY <1>1 DEF ToSet
  <1>3. /\ rest \in Seq(S) /\ Len(rest) = Len(list) - 1
        /\ \A m \in 1..(Len(list) - 1) : rest[m] = IF m < at THEN list[m] ELSE list[m + 1]
    BY <1>2, StWithoutList
  <1> HIDE DEF rest
  <1>4. at > Len(begin)
    BY <1>1, <1>2 DEF ToSet, StBegins
  <1>5. \A m \in 1..Len(begin) : m \in 1..(Len(list) - 1) /\ m < at
    BY <1>1, <1>4 DEF StBegins
  <1> QED
    BY <1>1, <1>3, <1>4, <1>5 DEF StBegins, rest

-----------------------------------------------------------------------------
\* The tables: what is in them is connected.
StTables ==
  /\ StTablesAgree
  /\ \A w \in DOMAIN stOf : stSocket[w] \notin {"new", "rejected"}

\* How many sockets of its copy a call has behind it.
StTurns(to, c) == Len(to) - Len(c.left)

\* One call: what is left of its copy are the last sockets of it.
StCallRow(c, to, sockets) ==
  /\ IsInjective(to) /\ \A w \in ToSet(to) : sockets[w] \notin {"new", "rejected"}
  /\ c.at = "idle" => c = StNoCall /\ to = << >>
  /\ c.at = "done" => c.left = << >>
  /\ Len(c.left) <= Len(to)
  /\ \A m \in 1..Len(c.left) : c.left[m] = to[StTurns(to, c) + m]

\* The calls begin one after the other, and each is at the place in its copy that its
\* list says.
StCallsSound ==
  /\ \A j, k \in StMessage : j < k /\ stCall[k].at # "idle" => stCall[j].at # "idle"
  /\ \A k \in StMessage : StCallRow(stCall[k], stTo[k], stSocket)

\* What a call has behind it is written, once, unless it failed.
StWrittenRow(k, w, c, to, got, socket) ==
  /\ \A a, b \in 1..Len(got) : got[a] = k /\ got[b] = k => a = b
  /\ (\E a \in 1..Len(got) : got[a] = k) =>
       c.at # "idle" /\ c.encodable /\ \E m \in 1..StTurns(to, c) : to[m] = w
  /\ c.encodable /\ socket = "open" /\ (\E m \in 1..StTurns(to, c) : to[m] = w) => \E a \in 1..Len(got) : got[a] = k

\* The same of every call and every socket.
StWritten ==
  \A k \in StMessage, w \in StSocket :
    StWrittenRow(k, w, stCall[k], stTo[k], stGot[w], stSocket[w])

\* A write failed because the socket was not open, or the message could not be encoded.
StFails ==
  \A k \in StMessage : \A w \in ToSet(stCall[k].failed) :
    w \in ToSet(stTo[k]) /\ (stSocket[w] = "open" => ~stCall[k].encodable)

\* A call whose sockets are all open.
StAllOpen(k) == \A m \in 1..Len(stTo[k]) : stSocket[stTo[k][m]] = "open"

\* A call that has only open sockets behind it waits for the last of them to drain, or
\* has none behind it.
StWaitsRow(c, to, sockets) ==
  /\ StTurns(to, c) = 0 => c.drains = << >>
  /\ c.at = "sending" /\ c.encodable /\ (\A m \in 1..StTurns(to, c) : sockets[to[m]] = "open") =>
       c.failed = << >> /\ (StTurns(to, c) > 0 => c.drains = <<to[StTurns(to, c)]>>)

\* The same of every call.
StWaits == \A k \in StMessage : StWaitsRow(stCall[k], stTo[k], stSocket)

\* As long as all the sockets of an earlier copy are there, a later one begins with it.
StCopies ==
  \A k \in StMessage, s \in DOMAIN stList :
    ToSet(stTo[k]) \subseteq ToSet(stList[s]) => StBegins(stTo[k], stList[s])

\* A later call over all the sockets of an earlier one, which are all open.
StFollows(i, j) ==
  /\ i < j /\ stCall[j].at # "idle" /\ StAllOpen(i) /\ ToSet(stTo[i]) \subseteq ToSet(stTo[j])
  /\ stCall[i].encodable /\ stCall[j].encodable

\* A call that follows an earlier one stays behind it: it has no more of the common
\* sockets behind it, and wrote to none of them first.
StStaysBehind ==
  \A i, j \in StMessage : StFollows(i, j) =>
    /\ StBegins(stTo[i], stTo[j])
    /\ stCall[i].at = "sending" => StTurns(stTo[j], stCall[j]) <= StTurns(stTo[i], stCall[i])
    /\ \A w \in StSocket : StWroteBefore(i, j, stGot[w])

\* Sockets: the tables, the calls and what was written, and the order of the calls over
\* common sockets.
StInv == StTypeOK /\ StTables /\ StDropped /\ StCallsSound /\ StWritten /\ StFails /\ StWaits /\ StCopies /\ StStaysBehind

\* The invariant says what the run checks: tables that agree, messages delivered once
\* and in order, and nobody dropped for nothing.
LEMMA StIsSound == StInv => StSound
  <1> SUFFICES ASSUME StInv PROVE StSound
    OBVIOUS
  <1>1. StTablesAgree /\ StDropped
    BY DEF StInv, StTables
  <1>2. StDelivered
    <2> SUFFICES ASSUME NEW k \in StMessage, stCall[k].at = "done", stCall[k].encodable, NEW w \in ToSet(stTo[k]),
                        stSocket[w] = "open"
                 PROVE  \E i \in 1..Len(stGot[w]) : \A j \in 1..Len(stGot[w]) : stGot[w][j] = k <=> j = i
      BY DEF StDelivered
    <2>1. stTo[k] \in Seq(StSocket) /\ Len(stTo[k]) \in Nat /\ DOMAIN stTo[k] = 1..Len(stTo[k])
      BY DEF StInv, StTypeOK
    <2>2. Len(stCall[k].left) = 0 /\ StTurns(stTo[k], stCall[k]) = Len(stTo[k])
      <3>1. stCall[k].left = << >> /\ Len(<< >>) = 0
        BY DEF StInv, StCallsSound, StCallRow
      <3> QED
        BY <2>1, <3>1 DEF StTurns
    <2>3. PICK m \in 1..StTurns(stTo[k], stCall[k]) : stTo[k][m] = w
      BY <2>1, <2>2 DEF ToSet
    <2>4. w \in StSocket
      BY <2>1, <2>2, <2>3
    <2>5. PICK a \in 1..Len(stGot[w]) : stGot[w][a] = k
      BY <2>3, <2>4 DEF StInv, StWritten, StWrittenRow
    <2>6. \A b \in 1..Len(stGot[w]) : stGot[w][b] = k <=> b = a
      BY <2>4, <2>5 DEF StInv, StWritten, StWrittenRow
    <2> QED
      BY <2>6
  <1>3. StInOrder
    <2> SUFFICES ASSUME NEW w \in StSocket, NEW a \in 1..Len(stGot[w]), NEW b \in 1..Len(stGot[w]),
                        a < b, stGot[w][a] > stGot[w][b],
                        \A x \in ToSet(stTo[stGot[w][b]]) : stSocket[x] = "open" /\ x \in ToSet(stTo[stGot[w][a]])
                 PROVE  FALSE
      BY DEF StInOrder
    <2> DEFINE i == stGot[w][b]
               j == stGot[w][a]
    <2>1. i \in StMessage /\ j \in StMessage /\ StMessage \subseteq Nat /\ i < j
      BY StAssumption DEF StInv, StTypeOK
    <2>2. stCall[i].encodable /\ stCall[j].encodable /\ stCall[j].at # "idle"
      BY <2>1 DEF StInv, StWritten, StWrittenRow
    <2>3. StAllOpen(i) /\ ToSet(stTo[i]) \subseteq ToSet(stTo[j])
      <3>1. DOMAIN stTo[i] = 1..Len(stTo[i])
        BY <2>1 DEF StInv, StTypeOK
      <3> QED
        BY <3>1 DEF StAllOpen, ToSet
    <2>4. StWroteBefore(i, j, stGot[w])
      BY <2>1, <2>2, <2>3 DEF StInv, StStaysBehind, StFollows
    <2>5. b < a /\ a \in Nat /\ b \in Nat
      BY <2>4 DEF StWroteBefore
    <2> QED
      BY <2>5
  <1> QED
    BY <1>1, <1>2, <1>3 DEF StSound

\* It holds before the first connection.
LEMMA StStart == StInit => StInv
  <1> SUFFICES ASSUME StInit PROVE StInv
    OBVIOUS
  <1>0. /\ DOMAIN << >> = {} /\ Len(<< >>) = 0 /\ ToSet(<< >>) = {} /\ StNoCall \in StCall
        /\ StNoCall.at = "idle" /\ StNoCall.left = << >> /\ StNoCall.failed = << >>
    <2>1. << >> \in Seq(StSocket) /\ "idle" \in {"idle", "sending", "done"} /\ TRUE \in BOOLEAN
      OBVIOUS
    <2>2. StNoCall = [at |-> "idle", encodable |-> TRUE, left |-> << >>, failed |-> << >>, drains |-> << >>]
      BY DEF StNoCall, StNewCall
    <2>3. StNoCall \in StCall
      BY <2>1, <2>2 DEF StCall
    <2>4. DOMAIN << >> = {} /\ Len(<< >>) = 0 /\ ToSet(<< >>) = {}
      BY DEF ToSet
    <2> QED
      BY <2>2, <2>3, <2>4
  <1>1. StTypeOK
    <2>1. << >> \in [DOMAIN << >> -> Seq(StSocket)] /\ << >> \in [DOMAIN << >> -> StSession]
      BY <1>0
    <2> QED
      BY <1>0, <2>1 DEF StInit, StTypeOK
  <1>2. StTables
    BY <1>0 DEF StInit, StTables, StTablesAgree
  <1>3. StDropped
    BY DEF StInit, StDropped
  <1>4. StCallsSound
    BY <1>0 DEF StInit, StCallsSound, StCallRow, IsInjective
  <1>5. StWritten
    BY <1>0 DEF StInit, StWritten, StWrittenRow, StTurns
  <1>6. StFails /\ StWaits /\ StCopies
    BY <1>0 DEF StInit, StFails, StWaits, StWaitsRow, StCopies, StNoCall, StNewCall
  <1>7. StStaysBehind
    BY <1>0 DEF StInit, StStaysBehind, StFollows
  <1> QED
    BY <1>1, <1>2, <1>3, <1>4, <1>5, <1>6, <1>7 DEF StInv

-----------------------------------------------------------------------------
\* What the types and the calls say of one call.
LEMMA StCallFacts ==
  ASSUME StInv, NEW k \in StMessage
  PROVE  /\ stTo[k] \in Seq(StSocket) /\ Len(stTo[k]) \in Nat /\ DOMAIN stTo[k] = 1..Len(stTo[k])
         /\ stCall[k] \in StCall /\ Len(stCall[k].left) \in Nat /\ StTurns(stTo[k], stCall[k]) \in 0..Len(stTo[k])
         /\ \A w : w \in ToSet(stTo[k]) <=> \E m \in 1..Len(stTo[k]) : stTo[k][m] = w
         /\ \A m, n \in 1..Len(stTo[k]) : stTo[k][m] = stTo[k][n] => m = n
         /\ \A w \in ToSet(stTo[k]) : w \in StSocket /\ stSocket[w] \notin {"new", "rejected"}
  <1>1. stTo[k] \in Seq(StSocket) /\ stCall[k] \in StCall
    BY DEF StInv, StTypeOK
  <1>2. Len(stTo[k]) \in Nat /\ DOMAIN stTo[k] = 1..Len(stTo[k])
    BY <1>1
  <1>3. stCall[k].left \in Seq(StSocket) /\ Len(stCall[k].left) \in Nat
    BY <1>1 DEF StCall
  <1>4. StTurns(stTo[k], stCall[k]) \in 0..Len(stTo[k])
    <2>1. Len(stCall[k].left) <= Len(stTo[k])
      BY DEF StInv, StCallsSound, StCallRow
    <2>2. \A n, m \in Nat : m <= n => n - m \in 0..n
      OBVIOUS
    <2>3. Len(stTo[k]) - Len(stCall[k].left) \in 0..Len(stTo[k])
      BY <1>2, <1>3, <2>1, <2>2
    <2> QED
      BY <2>3 DEF StTurns
  <1>5. \A w : w \in ToSet(stTo[k]) <=> \E m \in 1..Len(stTo[k]) : stTo[k][m] = w
    BY <1>2 DEF ToSet
  <1>6. \A m, n \in 1..Len(stTo[k]) : stTo[k][m] = stTo[k][n] => m = n
    BY <1>2 DEF StInv, StCallsSound, StCallRow, IsInjective
  <1>7. \A w \in ToSet(stTo[k]) : w \in StSocket /\ stSocket[w] \notin {"new", "rejected"}
    BY <1>1, <1>5 DEF StInv, StCallsSound, StCallRow
  <1> QED
    BY <1>1, <1>2, <1>3, <1>4, <1>5, <1>6, <1>7

\* A socket that goes on, and is not open again: nothing that is said of calls breaks.
LEMMA StSocketsMove ==
  ASSUME StInv, UNCHANGED <<stCall, stTo, stGot>>, stSocket' \in [StSocket -> {"new", "rejected", "open", "closed", "over"}],
         \A w \in StSocket : stSocket[w] \notin {"new", "rejected"} =>
           stSocket'[w] \notin {"new", "rejected"} /\ (stSocket'[w] = "open" => stSocket[w] = "open")
  PROVE  StCallsSound' /\ StWritten' /\ StFails' /\ StWaits' /\ StStaysBehind'
  <1>1. \A k : StTurns(stTo'[k], stCall'[k]) = StTurns(stTo[k], stCall[k])
    BY DEF StTurns
  <1>2. \A k \in StMessage : \A w \in ToSet(stTo[k]) :
          w \in StSocket /\ stSocket'[w] \notin {"new", "rejected"} /\ (stSocket'[w] = "open" => stSocket[w] = "open")
    BY StCallFacts
  <1>3. \A k \in StMessage : \A m \in 1..Len(stTo[k]) :
          stTo[k][m] \in ToSet(stTo[k]) /\ (stSocket'[stTo[k][m]] = "open" => stSocket[stTo[k][m]] = "open")
    BY <1>2, StCallFacts
  <1>4. \A k \in StMessage : \A m \in 1..StTurns(stTo[k], stCall[k]) : m \in 1..Len(stTo[k])
    BY StCallFacts
  <1>5. StCallsSound'
    BY <1>1, <1>2 DEF StInv, StCallsSound, StCallRow
  <1>6. StWritten'
    <2>1. ASSUME NEW k \in StMessage, NEW w \in StSocket, stCall[k].encodable, stSocket'[w] = "open",
                 \E m \in 1..StTurns(stTo[k], stCall[k]) : stTo[k][m] = w
          PROVE  \E a \in 1..Len(stGot[w]) : stGot[w][a] = k
      <3>1. stSocket[w] = "open"
        BY <1>3, <1>4, <2>1
      <3> QED
        BY <2>1, <3>1 DEF StInv, StWritten, StWrittenRow
    <2>2. \A k \in StMessage, w \in StSocket :
            /\ \A a, b \in 1..Len(stGot[w]) : stGot[w][a] = k /\ stGot[w][b] = k => a = b
            /\ (\E a \in 1..Len(stGot[w]) : stGot[w][a] = k) =>
                 /\ stCall[k].at # "idle" /\ stCall[k].encodable
                 /\ \E m \in 1..StTurns(stTo[k], stCall[k]) : stTo[k][m] = w
      BY DEF StInv, StWritten, StWrittenRow
    <2> QED
      BY <1>1, <2>1, <2>2 DEF StWritten, StWrittenRow
  <1>7. StFails'
    BY <1>2 DEF StInv, StFails
  <1>8. StWaits'
    <2>1. ASSUME NEW k \in StMessage, \A m \in 1..StTurns(stTo[k], stCall[k]) : stSocket'[stTo[k][m]] = "open"
          PROVE  \A m \in 1..StTurns(stTo[k], stCall[k]) : stSocket[stTo[k][m]] = "open"
      BY <1>3, <1>4, <2>1
    <2> QED
      BY <1>1, <2>1 DEF StInv, StWaits, StWaitsRow
  <1>9. StStaysBehind'
    <2>1. \A k \in StMessage : StAllOpen(k)' => StAllOpen(k)
      BY <1>3 DEF StAllOpen
    <2>2. \A i, j \in StMessage : StFollows(i, j)' => StFollows(i, j)
      BY <2>1 DEF StFollows
    <2>3. \A i, j, w : StWroteBefore(i, j, stGot'[w]) = StWroteBefore(i, j, stGot[w])
      BY DEF StWroteBefore
    <2> QED
      BY <1>1, <2>2, <2>3 DEF StInv, StStaysBehind
  <1> QED
    BY <1>5, <1>6, <1>7, <1>8, <1>9

\* A connection is rejected.
LEMMA StRejectedHolds ==
  ASSUME StInv, NEW w \in StSocket, stSocket[w] = "new", stSocket' = [stSocket EXCEPT ![w] = "rejected"],
         UNCHANGED <<stOwner, stList, stOf, stCall, stTo, stGot>>
  PROVE  StInv'
  <1>1. StTypeOK'
    BY DEF StInv, StTypeOK
  <1>2. StTables'
    BY DEF StInv, StTypeOK, StTables, StTablesAgree
  <1>3. StDropped'
    BY DEF StInv, StTypeOK, StDropped
  <1>4. StCopies'
    BY DEF StInv, StCopies
  <1>5. StCallsSound' /\ StWritten' /\ StFails' /\ StWaits' /\ StStaysBehind'
    BY StSocketsMove DEF StInv, StTypeOK
  <1> QED
    BY <1>1, <1>2, <1>3, <1>4, <1>5 DEF StInv

\* A peer goes away: fewer sockets are open, and nothing is promised of the others.
LEMMA StCloseHolds ==
  ASSUME StInv, NEW w \in StSocket, StClose(w)
  PROVE  StInv'
  <1>0. /\ stSocket[w] = "open" /\ stSocket' = [stSocket EXCEPT ![w] = "closed"]
        /\ UNCHANGED <<stOwner, stList, stOf, stCall, stTo, stGot>>
    BY DEF StClose
  <1>1. StTypeOK'
    BY <1>0 DEF StInv, StTypeOK
  <1>2. StTables'
    BY <1>0 DEF StInv, StTypeOK, StTables, StTablesAgree
  <1>3. StDropped'
    BY <1>0 DEF StInv, StTypeOK, StDropped
  <1>4. StCopies'
    BY <1>0 DEF StInv, StCopies
  <1>5. StCallsSound' /\ StWritten' /\ StFails' /\ StWaits' /\ StStaysBehind'
    BY <1>0, StSocketsMove DEF StInv, StTypeOK
  <1> QED
    BY <1>1, <1>2, <1>3, <1>4, <1>5 DEF StInv

\* A socket is connected: it is the last of its session.
LEMMA StConnectHolds ==
  ASSUME StInv, NEW w \in StSocket, NEW session \in StSession, NEW token, NEW user, StConnect(w, token, user, session)
  PROVE  StInv'
  <1> DEFINE old(s) == IF s \in DOMAIN stList THEN stList[s] ELSE << >>
  <1>0. /\ stSocket[w] = "new" /\ stSocket' = [stSocket EXCEPT ![w] = "open"]
        /\ stOf' = [x \in DOMAIN stOf \cup {w} |-> IF x = w THEN session ELSE stOf[x]]
        /\ stList' = [s \in DOMAIN stList \cup {session} |-> IF s = session THEN Append(old(s), w) ELSE old(s)]
        /\ UNCHANGED <<stOwner, stCall, stTo, stGot>>
        /\ StTypeOK /\ StTablesAgree /\ StTables
    BY DEF StConnect, StInv, StTables
  <1>1. w \notin DOMAIN stOf
    BY <1>0 DEF StTables
  <1>2. \A s \in DOMAIN stList : stList[s] \in Seq(StSocket) /\ s \in StSession /\ w \notin ToSet(stList[s])
    BY <1>0, <1>1 DEF StTypeOK, StTablesAgree
  <1> DEFINE list == Append(old(session), w)
  <1>3. /\ old(session) \in Seq(StSocket) /\ w \notin ToSet(old(session)) /\ IsInjective(old(session))
    BY <1>0, <1>2 DEF StTablesAgree, ToSet, IsInjective
  <1>4. /\ list \in Seq(StSocket) /\ list # << >> /\ Len(list) = Len(old(session)) + 1 /\ Len(old(session)) \in Nat
        /\ list[Len(old(session)) + 1] = w /\ \A m \in 1..Len(old(session)) : list[m] = old(session)[m]
    BY <1>3
  <1> HIDE DEF old, list
  <1>5. ToSet(list) = ToSet(old(session)) \cup {w}
    <2>1. DOMAIN list = 1..(Len(old(session)) + 1) /\ DOMAIN old(session) = 1..Len(old(session))
      BY <1>3, <1>4
    <2>2. \A m \in DOMAIN list : m = Len(old(session)) + 1 \/ m \in 1..Len(old(session))
      BY <1>4, <2>1
    <2> QED
      BY <1>4, <2>1, <2>2 DEF ToSet
  <1>6. IsInjective(list)
    <2>1. DOMAIN list = 1..(Len(old(session)) + 1) /\ DOMAIN old(session) = 1..Len(old(session))
      BY <1>3, <1>4
    <2>2. \A m \in DOMAIN list : m = Len(old(session)) + 1 \/ m \in 1..Len(old(session))
      BY <1>4, <2>1
    <2>3. \A m \in 1..Len(old(session)) : list[m] # w
      BY <1>3, <1>4, <2>1 DEF ToSet
    <2> QED
      BY <1>3, <1>4, <2>1, <2>2, <2>3 DEF IsInjective
  <1>7. /\ DOMAIN stList' = DOMAIN stList \cup {session} /\ stList'[session] = list
        /\ \A s \in DOMAIN stList : s # session => stList'[s] = stList[s]
    BY <1>0 DEF old, list
  <1>8. /\ DOMAIN stOf' = DOMAIN stOf \cup {w} /\ stOf'[w] = session /\ \A x \in DOMAIN stOf : x # w => stOf'[x] = stOf[x]
    BY <1>0
  <1>9. StTypeOK'
    <2>1. stList' \in [DOMAIN stList' -> Seq(StSocket)]
      BY <1>0, <1>2, <1>4, <1>7
    <2>2. stOf' \in [DOMAIN stOf' -> StSession]
      BY <1>0, <1>8 DEF StTypeOK
    <2> QED
      BY <1>0, <1>7, <1>8, <2>1, <2>2 DEF StTypeOK
  <1>10. StTables'
    <2>1. \A s \in DOMAIN stList' : stList'[s] # << >> /\ IsInjective(stList'[s])
      BY <1>0, <1>4, <1>6, <1>7 DEF StTablesAgree
    <2>2. ASSUME NEW x \in StSocket, NEW s \in StSession
          PROVE  (x \in DOMAIN stOf' /\ stOf'[x] = s) <=> (s \in DOMAIN stList' /\ x \in ToSet(stList'[s]))
      <3>1. (x \in DOMAIN stOf /\ stOf[x] = s) <=> (s \in DOMAIN stList /\ x \in ToSet(stList[s]))
        BY <1>0 DEF StTablesAgree
      <3>2. ToSet(old(session)) = IF session \in DOMAIN stList THEN ToSet(stList[session]) ELSE {}
        BY DEF old, ToSet
      <3> QED
        BY <1>1, <1>2, <1>5, <1>7, <1>8, <3>1, <3>2
    <2>3. \A x \in DOMAIN stOf' : stSocket'[x] \notin {"new", "rejected"}
      BY <1>0, <1>8 DEF StTypeOK, StTables
    <2> QED
      BY <2>1, <2>2, <2>3 DEF StTables, StTablesAgree
  <1>11. StDropped'
    BY <1>0, <1>8 DEF StInv, StTypeOK, StDropped
  <1>12. StCopies'
    <2> SUFFICES ASSUME NEW k \in StMessage, NEW s \in DOMAIN stList', ToSet(stTo[k]) \subseteq ToSet(stList'[s])
                 PROVE  StBegins(stTo[k], stList'[s])
      BY <1>0 DEF StCopies
    <2>1. w \notin ToSet(stTo[k])
      BY <1>0, StCallFacts
    <2>2. CASE s # session
      BY <1>7, <2>2 DEF StInv, StCopies
    <2>3. CASE s = session
      <3>1. ToSet(stTo[k]) \subseteq ToSet(old(session))
        BY <1>5, <1>7, <2>1, <2>3
      <3>2. StBegins(stTo[k], old(session))
        <4>1. CASE session \in DOMAIN stList
          BY <3>1, <4>1 DEF StInv, StCopies, old
        <4>2. CASE session \notin DOMAIN stList
          <5>1. ToSet(stTo[k]) = {} /\ old(session) = << >>
            BY <3>1, <4>2 DEF old, ToSet
          <5>2. Len(stTo[k]) = 0
            <6>1. Len(stTo[k]) \in Nat /\ ~ \E m \in 1..Len(stTo[k]) : stTo[k][m] = stTo[k][1]
              BY <5>1, StCallFacts
            <6> QED
              BY <6>1
          <5> QED
            BY <5>1, <5>2 DEF StBegins
        <4> QED
          BY <4>1, <4>2
      <3>3. Len(stTo[k]) \in Nat
        BY StCallFacts
      <3>4. Len(stTo[k]) <= Len(list) /\ \A m \in 1..Len(stTo[k]) : m \in 1..Len(old(session))
        BY <1>4, <3>2, <3>3 DEF StBegins
      <3> QED
        BY <1>4, <1>7, <2>3, <3>2, <3>4 DEF StBegins
    <2> QED
      BY <2>2, <2>3
  <1>13. StCallsSound' /\ StWritten' /\ StFails' /\ StWaits' /\ StStaysBehind'
    BY <1>0, StSocketsMove DEF StTypeOK
  <1> QED
    BY <1>9, <1>10, <1>11, <1>12, <1>13 DEF StInv

\* A socket leaves both tables.
LEMMA StDisconnectTables ==
  ASSUME StInv, NEW w \in StSocket, StDisconnect(w), UNCHANGED stTo
  PROVE  /\ DOMAIN stOf' = DOMAIN stOf \ {w}
         /\ stOf' \in [DOMAIN stOf' -> StSession] /\ stList' \in [DOMAIN stList' -> Seq(StSocket)]
         /\ DOMAIN stList' \subseteq DOMAIN stList
         /\ StTablesAgree' /\ StCopies'
  <1>0. StTypeOK /\ StTablesAgree /\ StCopies
    BY DEF StInv, StTables
  <1>1. CASE w \notin DOMAIN stOf
    <2>1. UNCHANGED <<stOf, stList>>
      BY <1>1 DEF StDisconnect
    <2>2. StTablesAgree' /\ StCopies'
      BY <1>0, <2>1 DEF StTablesAgree, StCopies
    <2> QED
      BY <1>0, <1>1, <2>1, <2>2 DEF StTypeOK
  <1>2. CASE w \in DOMAIN stOf
    <2> DEFINE s == stOf[w]
               rest == StWithout(stList[s], w)
               keep == IF rest = << >> THEN DOMAIN stList \ {s} ELSE DOMAIN stList
    <2>1. /\ stOf' = [x \in DOMAIN stOf \ {w} |-> stOf[x]]
          /\ stList' = [t \in keep |-> IF t = s THEN rest ELSE stList[t]]
      BY <1>2 DEF StDisconnect
    <2>2. s \in StSession /\ s \in DOMAIN stList /\ w \in ToSet(stList[s]) /\ stList[s] \in Seq(StSocket) /\ IsInjective(stList[s])
      BY <1>0, <1>2 DEF StTypeOK, StTablesAgree
    <2> HIDE DEF s
    <2>3. /\ rest \in Seq(StSocket) /\ IsInjective(rest) /\ ToSet(rest) = ToSet(stList[s]) \ {w}
          /\ rest = << >> <=> ToSet(stList[s]) = {w}
      BY <2>2, StWithoutSet
    <2>b. ASSUME NEW k \in StMessage, StBegins(stTo[k], stList[s]), w \notin ToSet(stTo[k])
          PROVE  StBegins(stTo[k], rest)
      <3>1. stTo[k] \in Seq(StSocket)
        BY <1>0 DEF StTypeOK
      <3> QED
        BY <2>2, <2>b, <3>1, StWithoutBegins
    <2> HIDE DEF rest
    <2>4. \A t \in keep : t \in DOMAIN stList /\ stList'[t] = IF t = s THEN rest ELSE stList[t]
      BY <2>1
    <2>5. DOMAIN stList' = keep /\ DOMAIN stOf' = DOMAIN stOf \ {w} /\ \A x \in DOMAIN stOf \ {w} : stOf'[x] = stOf[x]
      BY <2>1
    <2>6. /\ stOf' \in [DOMAIN stOf' -> StSession] /\ stList' \in [DOMAIN stList' -> Seq(StSocket)]
          /\ DOMAIN stList' \subseteq DOMAIN stList
      <3>1. stOf' \in [DOMAIN stOf' -> StSession]
        BY <1>0, <2>1 DEF StTypeOK
      <3>2. \A t \in DOMAIN stList : stList[t] \in Seq(StSocket)
        BY <1>0 DEF StTypeOK
      <3>3. stList' \in [DOMAIN stList' -> Seq(StSocket)]
        BY <2>1, <2>3, <2>4, <3>2
      <3> QED
        BY <2>4, <2>5, <3>1, <3>3
    <2>7. StTablesAgree'
      <3>1. \A t \in DOMAIN stList' : stList'[t] # << >> /\ IsInjective(stList'[t])
        BY <1>0, <2>3, <2>4, <2>5 DEF StTablesAgree
      <3>2. ASSUME NEW x \in StSocket, NEW t \in StSession
            PROVE  (x \in DOMAIN stOf' /\ stOf'[x] = t) <=> (t \in DOMAIN stList' /\ x \in ToSet(stList'[t]))
        <4>1. (x \in DOMAIN stOf /\ stOf[x] = t) <=> (t \in DOMAIN stList /\ x \in ToSet(stList[t]))
          BY <1>0 DEF StTablesAgree
        <4>2. CASE t # s
          <5>1. w \in DOMAIN stOf /\ stOf[w] # t
            BY <1>2, <4>2 DEF s
          <5>2. t \in DOMAIN stList' <=> t \in DOMAIN stList
            BY <2>5, <4>2
          <5>3. t \in DOMAIN stList' => stList'[t] = stList[t]
            BY <2>4, <2>5, <4>2
          <5> QED
            BY <2>5, <4>1, <5>1, <5>2, <5>3
        <4>3. CASE t = s /\ rest # << >>
          BY <2>3, <2>4, <2>5, <4>1, <4>3
        <4>4. CASE t = s /\ rest = << >>
          <5>1. t \notin DOMAIN stList' /\ ToSet(stList[t]) = {w}
            BY <2>3, <2>5, <4>4
          <5> QED
            BY <2>5, <4>1, <5>1
        <4> QED
          BY <4>2, <4>3, <4>4
      <3> QED
        BY <3>1, <3>2 DEF StTablesAgree
    <2>8. StCopies'
      <3> SUFFICES ASSUME NEW k \in StMessage, NEW t \in DOMAIN stList', ToSet(stTo[k]) \subseteq ToSet(stList'[t])
                   PROVE  StBegins(stTo[k], stList'[t])
        BY DEF StCopies
      <3>1. CASE t # s
        BY <1>0, <2>4, <2>5, <3>1 DEF StCopies
      <3>2. CASE t = s
        <4>1. w \notin ToSet(stTo[k]) /\ ToSet(stTo[k]) \subseteq ToSet(stList[s])
          BY <2>3, <2>4, <2>5, <3>2
        <4>2. StBegins(stTo[k], stList[s])
          BY <1>0, <2>2, <4>1 DEF StCopies
        <4> QED
          BY <2>4, <2>5, <2>b, <3>2, <4>1, <4>2
      <3> QED
        BY <3>1, <3>2
    <2> QED
      BY <2>5, <2>6, <2>7, <2>8
  <1> QED
    BY <1>1, <1>2

\* The handler of a socket ends and takes it from the tables.
LEMMA StHandlerEndsHolds ==
  ASSUME StInv, NEW w \in StSocket, StHandlerEnds(w)
  PROVE  StInv'
  <1>0. /\ stSocket[w] \in {"open", "closed"} /\ StDisconnect(w) /\ stSocket' = [stSocket EXCEPT ![w] = "over"]
        /\ UNCHANGED <<stOwner, stCall, stTo, stGot>> /\ StTypeOK /\ StTables
    BY DEF StHandlerEnds, StInv
  <1>1. /\ DOMAIN stOf' = DOMAIN stOf \ {w}
        /\ stOf' \in [DOMAIN stOf' -> StSession] /\ stList' \in [DOMAIN stList' -> Seq(StSocket)]
        /\ DOMAIN stList' \subseteq DOMAIN stList /\ StTablesAgree' /\ StCopies'
    BY <1>0, StDisconnectTables
  <1>2. StTypeOK'
    BY <1>0, <1>1 DEF StTypeOK
  <1>3. StTables'
    BY <1>0, <1>1 DEF StTypeOK, StTables
  <1>4. StDropped'
    BY <1>0, <1>1 DEF StInv, StTypeOK, StDropped
  <1>5. StCallsSound' /\ StWritten' /\ StFails' /\ StWaits' /\ StStaysBehind'
    BY <1>0, StSocketsMove DEF StTypeOK
  <1> QED
    BY <1>1, <1>2, <1>3, <1>4, <1>5 DEF StInv

-----------------------------------------------------------------------------
\* A call begins, with a copy of the list, or with nothing to do.
LEMMA StSendHolds ==
  ASSUME StInv, NEW k \in StMessage, NEW session \in StSession, NEW encodable \in BOOLEAN, StSend(k, session, encodable)
  PROVE  StInv'
  <1> DEFINE L == IF session \in DOMAIN stList THEN stList[session] ELSE << >>
             c == IF session \in DOMAIN stList THEN StNewCall("sending", encodable, L) ELSE StNewCall("done", TRUE, << >>)
  <1>0. /\ stCall[k].at = "idle" /\ (\A j \in StMessage : j < k => stCall[j].at # "idle")
        /\ UNCHANGED <<stOwner, stSocket, stList, stOf, stGot>> /\ StTypeOK /\ StTablesAgree /\ StTables
    BY DEF StSend, StInv, StTables
  <1>1. stCall[k] = StNoCall /\ stTo[k] = << >>
    BY <1>0 DEF StInv, StCallsSound, StCallRow
  <1>2. stCall' = [stCall EXCEPT ![k] = c] /\ stTo' = [stTo EXCEPT ![k] = L]
    <2>1. CASE session \in DOMAIN stList
      BY <2>1 DEF StSend
    <2>2. CASE session \notin DOMAIN stList
      <3>1. stCall' = [stCall EXCEPT ![k] = c]
        BY <2>2 DEF StSend
      <3>2. stTo' = [stTo EXCEPT ![k] = << >>]
        <4>1. stTo' = stTo /\ stTo \in [StMessage -> Seq(StSocket)]
          BY <1>0, <2>2 DEF StSend, StTypeOK
        <4> QED
          BY <1>1, <4>1
      <3> QED
        BY <2>2, <3>1, <3>2
    <2> QED
      BY <2>1, <2>2
  <1>3. /\ L \in Seq(StSocket) /\ IsInjective(L) /\ \A w \in ToSet(L) : w \in DOMAIN stOf /\ stOf[w] = session
    <2>1. CASE session \in DOMAIN stList
      <3>1. L = stList[session] /\ L \in Seq(StSocket) /\ IsInjective(L)
        BY <1>0, <2>1 DEF StTypeOK, StTablesAgree
      <3>2. \A w \in ToSet(L) : w \in StSocket
        BY <3>1 DEF ToSet
      <3> QED
        BY <1>0, <2>1, <3>1, <3>2 DEF StTablesAgree
    <2>2. CASE session \notin DOMAIN stList
      BY <2>2 DEF ToSet, IsInjective
    <2> QED
      BY <2>1, <2>2
  <1>4. /\ c \in StCall /\ c.at \in {"sending", "done"} /\ c.left = L /\ c.failed = << >> /\ c.drains = << >>
        /\ c.at = "done" => L = << >>
    BY <1>3 DEF StCall, StNewCall
  <1>5. L # << >> => session \in DOMAIN stList /\ L = stList[session]
    OBVIOUS
  <1> HIDE DEF L, c
  <1>6. /\ stCall' \in [StMessage -> StCall] /\ stCall'[k] = c /\ stTo' \in [StMessage -> Seq(StSocket)] /\ stTo'[k] = L
        /\ \A j \in StMessage \ {k} : stCall'[j] = stCall[j] /\ stTo'[j] = stTo[j]
    BY <1>0, <1>2, <1>3, <1>4 DEF StTypeOK
  <1>7. StTypeOK'
    BY <1>0, <1>6 DEF StTypeOK
  <1>8. StTables'
    BY <1>0 DEF StTables, StTablesAgree
  <1>9. /\ Len(L) \in Nat /\ DOMAIN L = 1..Len(L) /\ StTurns(stTo'[k], stCall'[k]) = 0
        /\ \A j \in StMessage \ {k} : StTurns(stTo'[j], stCall'[j]) = StTurns(stTo[j], stCall[j])
    <2>1. Len(L) \in Nat /\ DOMAIN L = 1..Len(L)
      BY <1>3
    <2>2. StTurns(stTo'[k], stCall'[k]) = Len(L) - Len(L)
      BY <1>4, <1>6 DEF StTurns
    <2>3. ASSUME NEW j \in StMessage \ {k} PROVE StTurns(stTo'[j], stCall'[j]) = StTurns(stTo[j], stCall[j])
      BY <1>6 DEF StTurns
    <2> QED
      BY <2>1, <2>2, <2>3
  <1>10. \A w \in ToSet(L) : w \in StSocket /\ stSocket[w] \notin {"new", "rejected"}
    BY <1>0, <1>3 DEF StTypeOK, StTables
  <1>11. \A j \in StMessage : j > k => stCall[j].at = "idle"
    <2>1. StMessage \subseteq Nat
      BY StAssumption
    <2> QED
      BY <1>0, <2>1 DEF StInv, StCallsSound, StCallRow
  <1>12. \A w \in StSocket : \A a \in 1..Len(stGot[w]) : stGot[w][a] # k
    BY <1>0 DEF StInv, StWritten, StWrittenRow
  <1>13. StCallsSound'
    <2>1. \A i, j \in StMessage : i < j /\ stCall'[j].at # "idle" => stCall'[i].at # "idle"
      <3> SUFFICES ASSUME NEW i \in StMessage, NEW j \in StMessage, i < j, stCall'[j].at # "idle"
                   PROVE  stCall'[i].at # "idle"
        OBVIOUS
      <3>1. CASE i = k
        BY <1>4, <1>6, <3>1
      <3>2. CASE i # k /\ j = k
        BY <1>0, <1>6, <3>2
      <3>3. CASE i # k /\ j # k
        BY <1>6, <3>3 DEF StInv, StCallsSound, StCallRow
      <3> QED
        BY <3>1, <3>2, <3>3
    <2>2. ASSUME NEW j \in StMessage PROVE StCallRow(stCall'[j], stTo'[j], stSocket)
      <3>1. CASE j = k
        <4>1. \A m \in 1..Len(L) : L[m] = L[0 + m]
          BY <1>9
        <4> QED
          BY <1>3, <1>4, <1>6, <1>9, <1>10, <3>1, <4>1 DEF StCallRow
      <3>2. CASE j # k
        <4>1. stCall'[j] = stCall[j] /\ stTo'[j] = stTo[j] /\ StTurns(stTo'[j], stCall'[j]) = StTurns(stTo[j], stCall[j])
          BY <1>6, <1>9, <3>2
        <4> QED
          BY <4>1 DEF StInv, StCallsSound
      <3> QED
        BY <3>1, <3>2
    <2> QED
      BY <1>0, <2>1, <2>2 DEF StCallsSound
  <1>14. StDropped'
    <2> SUFFICES ASSUME NEW w \in StSocket, stSocket[w] = "open", w \notin DOMAIN stOf
                 PROVE  \E j \in StMessage : ~stCall'[j].encodable /\ w \in ToSet(stTo'[j])
      BY <1>0 DEF StDropped
    <2>1. PICK j \in StMessage : ~stCall[j].encodable /\ w \in ToSet(stTo[j])
      BY DEF StInv, StDropped
    <2>2. j # k
      BY <1>1, <2>1 DEF StNoCall, StNewCall
    <2> QED
      BY <1>6, <2>1, <2>2
  <1>15. StWritten'
    <2> SUFFICES ASSUME NEW j \in StMessage, NEW w \in StSocket
                 PROVE  StWrittenRow(j, w, stCall'[j], stTo'[j], stGot[w], stSocket[w])
      BY <1>0 DEF StWritten
    <2>1. CASE j = k
      BY <1>9, <1>12, <2>1 DEF StWrittenRow
    <2>2. CASE j # k
      <3>1. stCall'[j] = stCall[j] /\ stTo'[j] = stTo[j] /\ StTurns(stTo'[j], stCall'[j]) = StTurns(stTo[j], stCall[j])
        BY <1>6, <1>9, <2>2
      <3> QED
        BY <3>1 DEF StInv, StWritten
    <2> QED
      BY <2>1, <2>2
  <1>16. StFails'
    <2>1. ToSet(<< >>) = {}
      BY DEF ToSet
    <2> QED
      BY <1>0, <1>4, <1>6, <2>1 DEF StInv, StFails
  <1>17. StWaits'
    <2> SUFFICES ASSUME NEW j \in StMessage
                 PROVE  StWaitsRow(stCall'[j], stTo'[j], stSocket)
      BY <1>0 DEF StWaits
    <2>1. CASE j = k
      BY <1>4, <1>6, <1>9, <2>1 DEF StWaitsRow
    <2>2. CASE j # k
      <3>1. stCall'[j] = stCall[j] /\ stTo'[j] = stTo[j] /\ StTurns(stTo'[j], stCall'[j]) = StTurns(stTo[j], stCall[j])
        BY <1>6, <1>9, <2>2
      <3> QED
        BY <3>1 DEF StInv, StWaits
    <2> QED
      BY <2>1, <2>2
  <1>18. StCopies'
    <2> SUFFICES ASSUME NEW j \in StMessage, NEW s \in DOMAIN stList, ToSet(stTo'[j]) \subseteq ToSet(stList[s])
                 PROVE  StBegins(stTo'[j], stList[s])
      BY <1>0 DEF StCopies
    <2>1. CASE j # k
      BY <1>6, <2>1 DEF StInv, StCopies
    <2>2. CASE j = k /\ L = << >>
      BY <1>6, <2>2 DEF StBegins, StTypeOK
    <2>3. CASE j = k /\ L # << >>
      <3>1. 1 \in DOMAIN L /\ L[1] \in ToSet(L)
        BY <1>3, <1>9, <2>3 DEF ToSet
      <3>2. L[1] \in ToSet(stList[s]) /\ s \in StSession /\ L[1] \in StSocket
        BY <1>0, <1>6, <1>10, <2>3, <3>1 DEF StTypeOK
      <3>3. s = session
        BY <1>0, <1>3, <3>1, <3>2 DEF StTablesAgree
      <3> QED
        BY <1>5, <1>6, <1>9, <2>3, <3>3 DEF StBegins
    <2> QED
      BY <2>1, <2>2, <2>3
  <1>19. StStaysBehind'
    <2> SUFFICES ASSUME NEW i \in StMessage, NEW j \in StMessage, StFollows(i, j)'
                 PROVE  /\ StBegins(stTo'[i], stTo'[j])
                        /\ stCall'[i].at = "sending" => StTurns(stTo'[j], stCall'[j]) <= StTurns(stTo'[i], stCall'[i])
                        /\ \A w \in StSocket : StWroteBefore(i, j, stGot'[w])
      BY DEF StStaysBehind
    <2>1. CASE i = k
      <3>1. k < j /\ stCall'[j].at # "idle" /\ k \in Nat /\ j \in Nat
        BY <2>1, StAssumption DEF StFollows
      <3>2. j # k /\ j > k /\ stCall[j].at # "idle"
        <4>1. j # k /\ j > k
          BY <3>1
        <4> QED
          BY <1>6, <3>1, <4>1
      <3> QED
        BY <1>11, <3>2
    <2>2. CASE i # k /\ j # k
      <3>1. StFollows(i, j)
        BY <1>0, <1>6, <2>2 DEF StFollows, StAllOpen
      <3>2. \A w : StWroteBefore(i, j, stGot'[w]) = StWroteBefore(i, j, stGot[w])
        BY <1>0 DEF StWroteBefore
      <3> QED
        BY <1>6, <1>9, <2>2, <3>1, <3>2 DEF StInv, StStaysBehind
    <2>3. CASE i # k /\ j = k
      <3>1. ToSet(stTo[i]) \subseteq ToSet(L)
        BY <1>6, <2>3 DEF StFollows
      <3>2. StBegins(stTo[i], L)
        <4>1. CASE L = << >>
          <5>1. ToSet(stTo[i]) = {}
            BY <3>1, <4>1 DEF ToSet
          <5>2. Len(stTo[i]) = 0
            <6>1. Len(stTo[i]) \in Nat /\ ~ \E m \in 1..Len(stTo[i]) : stTo[i][m] = stTo[i][1]
              BY <5>1, StCallFacts
            <6> QED
              BY <6>1
          <5> QED
            BY <1>9, <5>2 DEF StBegins
        <4>2. CASE L # << >>
          BY <1>5, <3>1, <4>2 DEF StInv, StCopies
        <4> QED
          BY <4>1, <4>2
      <3>3. StTurns(stTo[i], stCall[i]) \in Nat
        BY StCallFacts
      <3>4. \A w \in StSocket : StWroteBefore(i, j, stGot'[w])
        BY <1>0, <1>12, <2>3 DEF StWroteBefore
      <3> QED
        BY <1>6, <1>9, <2>3, <3>2, <3>3, <3>4
    <2> QED
      BY <2>1, <2>2, <2>3
  <1> QED
    BY <1>7, <1>8, <1>13, <1>14, <1>15, <1>16, <1>17, <1>18, <1>19 DEF StInv

\* A call goes on without a write: what it has behind it stays, and so do its marks.
LEMMA StCallKeeps ==
  ASSUME StInv, NEW k \in StMessage, NEW c \in StCall, stCall' = [stCall EXCEPT ![k] = c],
         c.left = stCall[k].left, c.encodable = stCall[k].encodable, stCall[k].at = "sending", c.at \in {"sending", "done"},
         c.at = "done" => c.left = << >>, c.drains = << >>,
         \A w \in ToSet(c.failed) : w \in ToSet(stCall[k].failed),
         c.at = "sending" => stCall[k].failed # << >>,
         UNCHANGED <<stSocket, stTo, stGot>>
  PROVE  StCallsSound' /\ StWritten' /\ StFails' /\ StWaits' /\ StStaysBehind' /\ stCall' \in [StMessage -> StCall]
         /\ \A j \in StMessage : stCall'[j].encodable = stCall[j].encodable
  <1>0. stSocket' = stSocket /\ stTo' = stTo /\ stGot' = stGot
    OBVIOUS
  <1>1. /\ stCall' \in [StMessage -> StCall] /\ stCall'[k] = c /\ \A j \in StMessage \ {k} : stCall'[j] = stCall[j]
    BY DEF StInv, StTypeOK
  <1>2. \A j \in StMessage : /\ stCall'[j].left = stCall[j].left /\ stCall'[j].encodable = stCall[j].encodable
                            /\ StTurns(stTo'[j], stCall'[j]) = StTurns(stTo[j], stCall[j]) /\ (stCall'[j].at = "idle" <=> stCall[j].at = "idle")
                            /\ stCall'[j].at = "sending" => stCall[j].at = "sending"
    BY <1>1 DEF StTurns
  <1>9. StTurns(stTo[k], c) = StTurns(stTo[k], stCall[k])
    BY DEF StTurns
  <1>3. StCallsSound'
    <2>1. \A i, j \in StMessage : i < j /\ stCall'[j].at # "idle" => stCall'[i].at # "idle"
      BY <1>2 DEF StInv, StCallsSound
    <2>2. ASSUME NEW j \in StMessage PROVE StCallRow(stCall'[j], stTo[j], stSocket)
      <3>1. StCallRow(stCall[j], stTo[j], stSocket)
        BY DEF StInv, StCallsSound
      <3>2. CASE j = k
        BY <1>1, <1>9, <3>1, <3>2 DEF StCallRow
      <3>3. CASE j # k
        BY <1>1, <3>1, <3>3
      <3> QED
        BY <3>2, <3>3
    <2> QED
      BY <1>2, <2>1, <2>2 DEF StCallsSound
  <1>4. StWritten'
    <2> SUFFICES ASSUME NEW j \in StMessage, NEW w \in StSocket
                 PROVE  StWrittenRow(j, w, stCall'[j], stTo[j], stGot[w], stSocket[w])
      BY <1>2 DEF StWritten
    <2>1. StWrittenRow(j, w, stCall[j], stTo[j], stGot[w], stSocket[w])
      BY DEF StInv, StWritten
    <2>2. stCall'[j].encodable = stCall[j].encodable /\ (stCall'[j].at = "idle" <=> stCall[j].at = "idle")
      BY <1>2
    <2>4. stCall'[j].left = stCall[j].left
      BY <1>2
    <2>3. StTurns(stTo[j], stCall'[j]) = StTurns(stTo[j], stCall[j])
      BY <2>4 DEF StTurns
    <2> QED
      BY <2>1, <2>2, <2>3 DEF StWrittenRow
  <1>5. StFails'
    BY <1>1, <1>2 DEF StInv, StFails
  <1>6. StWaits'
    <2> SUFFICES ASSUME NEW j \in StMessage
                 PROVE  StWaitsRow(stCall'[j], stTo[j], stSocket)
      <3>1. \A x \in StMessage : StWaitsRow(stCall'[x], stTo'[x], stSocket')
            <=> StWaitsRow(stCall'[x], stTo[x], stSocket)
        BY <1>0, <1>2
      <3> QED
        BY <3>1 DEF StWaits
    <2>1. StWaitsRow(stCall[j], stTo[j], stSocket)
      BY DEF StInv, StWaits
    <2>2. CASE j = k
      BY <1>1, <1>9, <2>1, <2>2 DEF StWaitsRow
    <2>3. CASE j # k
      BY <1>1, <2>1, <2>3
    <2> QED
      BY <2>2, <2>3
  <1>7. StStaysBehind'
    <2> SUFFICES ASSUME NEW i \in StMessage, NEW j \in StMessage, StFollows(i, j)'
                 PROVE  /\ StBegins(stTo'[i], stTo'[j])
                        /\ stCall'[i].at = "sending" => StTurns(stTo'[j], stCall'[j]) <= StTurns(stTo'[i], stCall'[i])
                        /\ \A w \in StSocket : StWroteBefore(i, j, stGot'[w])
      BY DEF StStaysBehind
    <2>1. StFollows(i, j)
      BY <1>0, <1>2 DEF StFollows, StAllOpen
    <2>2. /\ StBegins(stTo[i], stTo[j])
          /\ stCall[i].at = "sending" => StTurns(stTo[j], stCall[j]) <= StTurns(stTo[i], stCall[i])
          /\ \A w \in StSocket : StWroteBefore(i, j, stGot[w])
      BY <2>1 DEF StInv, StStaysBehind
    <2>3. ASSUME NEW w \in StSocket PROVE StWroteBefore(i, j, stGot'[w])
      BY <1>0, <2>2 DEF StWroteBefore
    <2>6. stCall'[i].left = stCall[i].left /\ stCall'[j].left = stCall[j].left
      BY <1>2
    <2>5. /\ StTurns(stTo[i], stCall'[i]) = StTurns(stTo[i], stCall[i])
          /\ StTurns(stTo[j], stCall'[j]) = StTurns(stTo[j], stCall[j])
      BY <1>2, <2>6 DEF StTurns
    <2>4. stCall'[i].at = "sending" => StTurns(stTo'[j], stCall'[j]) <= StTurns(stTo'[i], stCall'[i])
      BY <1>0, <1>2, <2>2, <2>5
    <2> QED
      BY <1>0, <2>2, <2>3, <2>4
  <1> QED
    BY <1>1, <1>2, <1>3, <1>4, <1>5, <1>6, <1>7

\* A call returns.
LEMMA StReturnHolds ==
  ASSUME StInv, NEW k \in StMessage, StReturn(k)
  PROVE  StInv'
  <1> DEFINE c == [stCall[k] EXCEPT !.at = "done", !.drains = << >>]
  <1>0. /\ stCall[k].at = "sending" /\ stCall[k].left = << >> /\ stCall[k].failed = << >> /\ stCall[k] \in StCall
        /\ stCall' = [stCall EXCEPT ![k] = c] /\ UNCHANGED <<stOwner, stSocket, stList, stOf, stTo, stGot>>
    BY StCallFacts DEF StReturn
  <1>1. /\ c \in StCall /\ c.at = "done" /\ c.left = stCall[k].left /\ c.encodable = stCall[k].encodable
        /\ c.failed = stCall[k].failed /\ c.drains = << >>
    BY <1>0 DEF StCall
  <1> HIDE DEF c
  <1>2. StCallsSound' /\ StWritten' /\ StFails' /\ StWaits' /\ StStaysBehind' /\ stCall' \in [StMessage -> StCall]
        /\ \A j \in StMessage : stCall'[j].encodable = stCall[j].encodable
    BY <1>0, <1>1, StCallKeeps
  <1>3. StTypeOK'
    BY <1>0, <1>2 DEF StInv, StTypeOK
  <1>4. StTables' /\ StCopies'
    BY <1>0 DEF StInv, StTables, StTablesAgree, StCopies
  <1>5. StDropped'
    BY <1>0, <1>2 DEF StInv, StDropped
  <1> QED
    BY <1>2, <1>3, <1>4, <1>5 DEF StInv

\* A socket whose write failed leaves the tables: it is not open, or the message could
\* not be encoded.
LEMMA StCleanUpHolds ==
  ASSUME StInv, NEW k \in StMessage, StCleanUp(k)
  PROVE  StInv'
  <1> DEFINE c == [stCall[k] EXCEPT !.failed = Tail(stCall[k].failed), !.drains = << >>]
             w == Head(stCall[k].failed)
  <1>0. /\ stCall[k].at = "sending" /\ stCall[k].failed # << >> /\ stCall[k] \in StCall /\ StDisconnect(w)
        /\ stCall' = [stCall EXCEPT ![k] = c] /\ UNCHANGED <<stOwner, stSocket, stTo, stGot>>
    BY StCallFacts DEF StCleanUp
  <1>1. stCall[k].failed \in Seq(StSocket) /\ Tail(stCall[k].failed) \in Seq(StSocket) /\ w \in StSocket
        /\ w \in ToSet(stCall[k].failed) /\ \A x \in ToSet(Tail(stCall[k].failed)) : x \in ToSet(stCall[k].failed)
    BY <1>0 DEF StCall, ToSet
  <1>2. /\ c \in StCall /\ c.at = "sending" /\ c.left = stCall[k].left /\ c.encodable = stCall[k].encodable
        /\ c.failed = Tail(stCall[k].failed) /\ c.drains = << >>
    <2> DEFINE f == Tail(stCall[k].failed)
    <2>1. f \in Seq(StSocket) /\ << >> \in Seq(StSocket)
      BY <1>1
    <2> HIDE DEF f
    <2>2. c = [stCall[k] EXCEPT !.failed = f, !.drains = << >>]
      BY DEF f
    <2> HIDE DEF c
    <2> QED
      BY <1>0, <2>1, <2>2 DEF StCall, f
  <1> HIDE DEF c, w
  <1>3. StCallsSound' /\ StWritten' /\ StFails' /\ StWaits' /\ StStaysBehind' /\ stCall' \in [StMessage -> StCall]
        /\ \A j \in StMessage : stCall'[j].encodable = stCall[j].encodable
    BY <1>0, <1>1, <1>2, StCallKeeps
  <1>4. /\ DOMAIN stOf' = DOMAIN stOf \ {w}
        /\ stOf' \in [DOMAIN stOf' -> StSession] /\ stList' \in [DOMAIN stList' -> Seq(StSocket)]
        /\ DOMAIN stList' \subseteq DOMAIN stList /\ StTablesAgree' /\ StCopies'
    BY <1>0, <1>1, StDisconnectTables
  <1>5. StTypeOK'
    BY <1>0, <1>3, <1>4 DEF StInv, StTypeOK
  <1>6. StTables'
    BY <1>0, <1>4 DEF StInv, StTables
  <1>7. StDropped'
    <2> SUFFICES ASSUME NEW x \in StSocket, stSocket[x] = "open", x \notin DOMAIN stOf'
                 PROVE  \E j \in StMessage : ~stCall'[j].encodable /\ x \in ToSet(stTo[j])
      BY <1>0 DEF StDropped
    <2>1. CASE x = w
      BY <1>1, <1>3, <2>1 DEF StInv, StFails
    <2>2. CASE x # w
      BY <1>3, <1>4, <2>2 DEF StInv, StDropped
    <2> QED
      BY <2>1, <2>2
  <1> QED
    BY <1>3, <1>4, <1>5, <1>6, <1>7 DEF StInv

\* Where another call is in a list, before and after a call was appended to it.
LEMMA StAppended ==
  ASSUME NEW got \in Seq(StMessage), NEW k \in StMessage
  PROVE  /\ Append(got, k) \in Seq(StMessage) /\ Len(Append(got, k)) = Len(got) + 1 /\ Len(got) \in Nat
         /\ Append(got, k)[Len(got) + 1] = k
         /\ \A a \in 1..Len(got) : a \in 1..Len(Append(got, k)) /\ Append(got, k)[a] = got[a]
         /\ \A a \in 1..Len(Append(got, k)) : a \in 1..Len(got) \/ a = Len(got) + 1
  <1>1. /\ Append(got, k) \in Seq(StMessage) /\ Len(Append(got, k)) = Len(got) + 1 /\ Len(got) \in Nat
        /\ Append(got, k)[Len(got) + 1] = k
        /\ \A a \in 1..Len(got) : Append(got, k)[a] = got[a]
    BY AppendProperties
  <1>2. \A n \in Nat : (\A a \in 1..n : a \in 1..(n + 1)) /\ (\A a \in 1..(n + 1) : a \in 1..n \/ a = n + 1)
    OBVIOUS
  <1> QED
    BY <1>1, <1>2

\* A call writes to the next socket of its copy. It does not overtake an earlier call
\* over the same sockets: that one would wait for the same socket to drain, and is
\* drained first.
LEMMA StWriteHolds ==
  ASSUME StInv, NEW k \in StMessage, StWrite(k)
  PROVE  StInv'
  <1> DEFINE w == Head(stCall[k].left)
             works == stSocket[w] = "open" /\ stCall[k].encodable
             failed == IF works THEN stCall[k].failed ELSE Append(stCall[k].failed, w)
             drains == IF works THEN <<w>> ELSE << >>
             c == [stCall[k] EXCEPT !.left = Tail(stCall[k].left), !.failed = failed, !.drains = drains]
             to == stTo[k]
             n == StTurns(to, stCall[k])
  <1>0. /\ stCall[k].at = "sending" /\ stCall[k].left # << >> /\ StDrained(k)
        /\ stCall' = [stCall EXCEPT ![k] = c]
        /\ stGot' = (IF works THEN [stGot EXCEPT ![w] = Append(stGot[w], k)] ELSE stGot)
        /\ stOwner' = stOwner /\ stSocket' = stSocket /\ stList' = stList /\ stOf' = stOf /\ stTo' = stTo
    BY DEF StWrite
  <1>1. /\ to \in Seq(StSocket) /\ Len(to) \in Nat /\ stCall[k] \in StCall /\ n \in 0..Len(to)
        /\ (\A m \in 1..Len(to) : to[m] \in ToSet(to) /\ to[m] \in StSocket)
        /\ (\A m, l \in 1..Len(to) : to[m] = to[l] => m = l)
    BY StCallFacts
  <1> DEFINE left == stCall[k].left
  <1>2. /\ left \in Seq(StSocket) /\ Len(left) \in Nat /\ Len(left) > 0 /\ w = left[1]
        /\ Tail(left) \in Seq(StSocket) /\ Len(Tail(left)) = Len(left) - 1
        /\ \A m \in 1..(Len(left) - 1) : Tail(left)[m] = left[m + 1]
    <2>1. left \in Seq(StSocket)
      BY <1>1 DEF StCall
    <2>2. left # << >>
      BY <1>0
    <2> HIDE DEF left
    <2>3. Len(left) \in Nat /\ Len(left) > 0
      BY <2>1, <2>2
    <2>4. Head(left) = left[1] /\ Tail(left) \in Seq(StSocket) /\ Len(Tail(left)) = Len(left) - 1
          /\ \A m \in 1..(Len(left) - 1) : Tail(left)[m] = left[m + 1]
      BY <2>1, <2>2, <2>3, HeadTailProperties
    <2> QED
      BY <2>1, <2>3, <2>4 DEF left
  <1>3. n = Len(to) - Len(left) /\ \A m \in 1..Len(left) : left[m] = to[n + m]
    BY DEF StInv, StCallsSound, StCallRow, StTurns
  <1> HIDE DEF left, to, n, w, works, failed, drains, c
  <1>4. n \in Nat /\ n + 1 \in 1..Len(to) /\ w = to[n + 1] /\ (\A m \in 1..n : m \in 1..Len(to) /\ m # n + 1)
    BY <1>1, <1>2, <1>3
  <1>5. w \in StSocket /\ w \in ToSet(to) /\ \A m \in 1..n : to[m] # w
    BY <1>1, <1>4
  <1>6. /\ c \in StCall /\ c.at = "sending" /\ c.encodable = stCall[k].encodable /\ c.left = Tail(left)
        /\ c.failed = failed /\ c.drains = drains
    <2>1. stCall[k].failed \in Seq(StSocket)
      BY <1>1 DEF StCall
    <2>2. failed \in Seq(StSocket) /\ drains \in Seq(StSocket)
      BY <1>5, <2>1 DEF failed, drains
    <2>3. c = [stCall[k] EXCEPT !.left = Tail(left), !.failed = failed, !.drains = drains]
      BY DEF c, left
    <2> QED
      BY <1>0, <1>1, <1>2, <2>2, <2>3 DEF StCall
  <1>7. StTurns(to, c) = n + 1
    <2>1. StTurns(to, c) = Len(to) - (Len(left) - 1)
      BY <1>2, <1>6 DEF StTurns
    <2> QED
      BY <1>1, <1>2, <1>3, <2>1
  <1>8. /\ stCall' \in [StMessage -> StCall] /\ stCall'[k] = c /\ \A j \in StMessage \ {k} : stCall'[j] = stCall[j]
    BY <1>0, <1>6 DEF StInv, StTypeOK
  <1>9. \A j \in StMessage : stCall'[j].encodable = stCall[j].encodable /\ stCall'[j].at = stCall[j].at
    BY <1>0, <1>6, <1>8
  <1>10. /\ stGot' \in [StSocket -> Seq(StMessage)] /\ \A x \in StSocket : stGot[x] \in Seq(StMessage)
         /\ \A x \in StSocket \ {w} : stGot'[x] = stGot[x]
         /\ stGot'[w] = (IF works THEN Append(stGot[w], k) ELSE stGot[w])
    <2>1. stGot \in [StSocket -> Seq(StMessage)]
      BY DEF StInv, StTypeOK
    <2>2. stGot[w] \in Seq(StMessage) /\ Append(stGot[w], k) \in Seq(StMessage)
      BY <1>5, <2>1
    <2> QED
      BY <1>0, <1>5, <2>1, <2>2
  <1>11. \A a \in 1..Len(stGot[w]) : stGot[w][a] # k
    <2>1. StWrittenRow(k, w, stCall[k], to, stGot[w], stSocket[w])
      BY <1>5 DEF StInv, StWritten, to
    <2> QED
      BY <1>5, <2>1 DEF StWrittenRow, n
  <1>12. ASSUME NEW j \in StMessage \ {k}, NEW x \in StSocket
         PROVE  /\ Len(stGot[x]) \in Nat /\ Len(stGot'[x]) \in Nat
                /\ \A a \in 1..Len(stGot[x]) : stGot[x][a] = j => a \in 1..Len(stGot'[x]) /\ stGot'[x][a] = j
                /\ \A a \in 1..Len(stGot'[x]) : stGot'[x][a] = j => a \in 1..Len(stGot[x]) /\ stGot[x][a] = j
    <2>1. CASE x = w /\ works
      BY <1>10, <2>1, StAppended
    <2>2. CASE ~(x = w /\ works)
      BY <1>10, <2>2
    <2> QED
      BY <2>1, <2>2
  <1>13. StTypeOK'
    BY <1>0, <1>8, <1>10 DEF StInv, StTypeOK
  <1>14. StTables' /\ StCopies'
    BY <1>0 DEF StInv, StTables, StTablesAgree, StCopies
  <1>15. StDropped'
    BY <1>0, <1>9 DEF StInv, StDropped
  <1>16. StCallsSound'
    <2>1. \A i, j \in StMessage : i < j /\ stCall'[j].at # "idle" => stCall'[i].at # "idle"
      BY <1>9 DEF StInv, StCallsSound
    <2>2. ASSUME NEW j \in StMessage PROVE StCallRow(stCall'[j], stTo[j], stSocket)
      <3>1. StCallRow(stCall[j], stTo[j], stSocket)
        BY DEF StInv, StCallsSound
      <3>2. CASE j = k
        <4>1. \A m \in 1..Len(c.left) : c.left[m] = to[(n + 1) + m]
          <5> SUFFICES ASSUME NEW m \in 1..(Len(left) - 1) PROVE Tail(left)[m] = to[(n + 1) + m]
            BY <1>2, <1>6
          <5>1. m + 1 \in 1..Len(left) /\ n + (m + 1) = (n + 1) + m
            BY <1>2, <1>4
          <5> QED
            BY <1>2, <1>3, <5>1
        <4>2. Len(c.left) <= Len(to)
          BY <1>1, <1>2, <1>3, <1>4, <1>6
        <4>3. IsInjective(to) /\ \A x \in ToSet(to) : stSocket[x] \notin {"new", "rejected"}
          BY <3>1, <3>2 DEF StCallRow, to
        <4>4. StCallRow(c, to, stSocket)
          BY <1>6, <1>7, <4>1, <4>2, <4>3 DEF StCallRow
        <4> QED
          BY <1>8, <3>2, <4>4 DEF to
      <3>3. CASE j # k
        BY <1>8, <3>1, <3>3
      <3> QED
        BY <3>2, <3>3
    <2> QED
      BY <1>0, <2>1, <2>2 DEF StCallsSound
  <1>17. StWritten'
    <2> SUFFICES ASSUME NEW j \in StMessage, NEW x \in StSocket
                 PROVE  StWrittenRow(j, x, stCall'[j], stTo[j], stGot'[x], stSocket[x])
      BY <1>0 DEF StWritten
    <2>1. StWrittenRow(j, x, stCall[j], stTo[j], stGot[x], stSocket[x])
      BY DEF StInv, StWritten
    <2>2. CASE j # k
      <3>1. stCall'[j] = stCall[j]
        BY <1>8, <2>2
      <3>2. StWrittenRow(j, x, stCall[j], stTo[j], stGot'[x], stSocket[x])
        BY <1>12, <2>1, <2>2 DEF StWrittenRow
      <3> QED
        BY <3>1, <3>2
    <2>3. CASE j = k /\ x # w
      <3>1. (\E m \in 1..(n + 1) : to[m] = x) <=> (\E m \in 1..n : to[m] = x)
        BY <1>4, <2>3
      <3>2. StWrittenRow(k, x, c, to, stGot[x], stSocket[x])
        BY <1>0, <1>6, <1>7, <2>1, <2>3, <3>1 DEF StWrittenRow, to, n
      <3> QED
        BY <1>8, <1>10, <2>3, <3>2 DEF to
    <2>4. CASE j = k /\ x = w /\ works
      <3>1. stGot'[w] = Append(stGot[w], k) /\ stGot[w] \in Seq(StMessage)
        BY <1>5, <1>10, <2>4
      <3>2. /\ Len(stGot[w]) + 1 \in 1..Len(stGot'[w]) /\ stGot'[w][Len(stGot[w]) + 1] = k
            /\ \A a \in 1..Len(stGot'[w]) : stGot'[w][a] = k => a = Len(stGot[w]) + 1
        BY <1>11, <3>1, StAppended
      <3>3. n + 1 \in 1..(n + 1)
        BY <1>4
      <3>4. StWrittenRow(k, w, c, to, stGot'[w], stSocket[w])
        BY <1>4, <1>6, <1>7, <2>4, <3>2, <3>3 DEF StWrittenRow, works
      <3> QED
        BY <1>8, <2>4, <3>4 DEF to
    <2>5. CASE j = k /\ x = w /\ ~works
      <3>1. stGot'[w] = stGot[w]
        BY <1>10, <2>5
      <3>2. StWrittenRow(k, w, c, to, stGot[w], stSocket[w])
        BY <1>6, <1>11, <2>5 DEF StWrittenRow, works
      <3> QED
        BY <1>8, <2>5, <3>1, <3>2 DEF to
    <2> QED
      BY <2>2, <2>3, <2>4, <2>5
  <1>18. StFails'
    <2> SUFFICES ASSUME NEW j \in StMessage, NEW x \in ToSet(stCall'[j].failed)
                 PROVE  x \in ToSet(stTo[j]) /\ (stSocket[x] = "open" => ~stCall[j].encodable)
      BY <1>0, <1>9 DEF StFails
    <2>1. CASE j # k \/ works
      <3>1. stCall'[j].failed = stCall[j].failed
        BY <1>6, <1>8, <2>1 DEF failed
      <3> QED
        BY <3>1 DEF StInv, StFails
    <2>2. CASE j = k /\ ~works
      <3>1. stCall'[j].failed = Append(stCall[k].failed, w)
        BY <1>6, <1>8, <2>2 DEF failed
      <3>2. stCall[k].failed \in Seq(StSocket)
        BY <1>1 DEF StCall
      <3>3. x \in ToSet(stCall[k].failed) \/ x = w
        <4> DEFINE f == stCall[k].failed
        <4>1. f \in Seq(StSocket)
          BY <3>2
        <4> HIDE DEF f
        <4>2. x \in ToSet(Append(f, w))
          BY <3>1 DEF f
        <4>3. ToSet(Append(f, w)) \subseteq ToSet(f) \cup {w}
          BY <1>5, <4>1 DEF ToSet
        <4> QED
          BY <4>2, <4>3 DEF f
      <3>4. CASE x = w
        BY <1>5, <2>2, <3>4 DEF works, to
      <3>5. CASE x \in ToSet(stCall[k].failed)
        BY <2>2, <3>5 DEF StInv, StFails
      <3> QED
        BY <3>3, <3>4, <3>5
    <2> QED
      BY <2>1, <2>2
  <1>19. StWaits'
    <2> SUFFICES ASSUME NEW j \in StMessage PROVE StWaitsRow(stCall'[j], stTo[j], stSocket)
      <3>1. \A x \in StMessage : StWaitsRow(stCall'[x], stTo'[x], stSocket') <=> StWaitsRow(stCall'[x], stTo[x], stSocket)
        BY <1>0
      <3> QED
        BY <3>1 DEF StWaits
    <2>1. StWaitsRow(stCall[j], stTo[j], stSocket)
      BY DEF StInv, StWaits
    <2>2. CASE j = k
      <3>1. n + 1 # 0 /\ n + 1 \in 1..(n + 1) /\ \A m \in 1..n : m \in 1..(n + 1)
        BY <1>4
      <3>2. ASSUME c.encodable, \A m \in 1..(n + 1) : stSocket[to[m]] = "open"
            PROVE  c.failed = << >> /\ c.drains = <<to[n + 1]>>
        <4>1. works
          BY <1>4, <1>6, <3>1, <3>2 DEF works
        <4>2. stCall[k].failed = << >>
          BY <1>0, <1>6, <2>1, <2>2, <3>1, <3>2 DEF StWaitsRow, n, to
        <4> QED
          BY <1>4, <1>6, <4>1, <4>2 DEF failed, drains
      <3>3. StWaitsRow(c, to, stSocket)
        BY <1>7, <3>1, <3>2 DEF StWaitsRow
      <3> QED
        BY <1>8, <2>2, <3>3 DEF to
    <2>3. CASE j # k
      BY <1>8, <2>1, <2>3
    <2> QED
      BY <2>2, <2>3
  <1>20. StStaysBehind'
    <2> SUFFICES ASSUME NEW i \in StMessage, NEW j \in StMessage, StFollows(i, j)'
                 PROVE  /\ StBegins(stTo[i], stTo[j])
                        /\ stCall'[i].at = "sending" => StTurns(stTo[j], stCall'[j]) <= StTurns(stTo[i], stCall'[i])
                        /\ \A x \in StSocket : StWroteBefore(i, j, stGot'[x])
      BY <1>0 DEF StStaysBehind
    <2>1. StFollows(i, j)
      BY <1>0, <1>9 DEF StFollows, StAllOpen
    <2>2. /\ StBegins(stTo[i], stTo[j])
          /\ stCall[i].at = "sending" => StTurns(stTo[j], stCall[j]) <= StTurns(stTo[i], stCall[i])
          /\ \A x \in StSocket : StWroteBefore(i, j, stGot[x])
      BY <2>1 DEF StInv, StStaysBehind
    <2>3. /\ i < j /\ i \in Nat /\ j \in Nat /\ i # j /\ StTurns(stTo[i], stCall[i]) \in 0..Len(stTo[i])
          /\ StTurns(stTo[j], stCall[j]) \in Nat /\ Len(stTo[i]) \in Nat
      <3>1. StMessage \subseteq Nat
        BY StAssumption
      <3>2. i < j
        BY <2>1 DEF StFollows
      <3> QED
        BY <3>1, <3>2, StCallFacts
    <2>4. CASE i # k /\ j # k
      <3>1. ASSUME NEW x \in StSocket PROVE StWroteBefore(i, j, stGot'[x])
        BY <1>12, <2>2, <2>4 DEF StWroteBefore
      <3> QED
        BY <1>8, <2>2, <2>4, <3>1
    <2>5. CASE i = k
      <3>1. StTurns(stTo[j], stCall[j]) <= n
        BY <1>0, <2>2, <2>5 DEF n, to
      <3>2. \A a \in 1..Len(stGot[w]) : stGot[w][a] # j
        <4> SUFFICES ASSUME NEW a \in 1..Len(stGot[w]), stGot[w][a] = j PROVE FALSE
          OBVIOUS
        <4>1. StWrittenRow(j, w, stCall[j], stTo[j], stGot[w], stSocket[w])
          BY <1>5 DEF StInv, StWritten
        <4>2. PICK m \in 1..StTurns(stTo[j], stCall[j]) : stTo[j][m] = w
          BY <4>1 DEF StWrittenRow
        <4>3. m \in 1..n /\ m \in 1..Len(to)
          BY <1>4, <2>3, <3>1
        <4>4. stTo[j][m] = to[m]
          BY <2>2, <2>5, <4>3 DEF StBegins, to
        <4> QED
          BY <1>5, <4>2, <4>3, <4>4
      <3>3. ASSUME NEW x \in StSocket PROVE StWroteBefore(i, j, stGot'[x])
        <4>1. CASE x = w
          BY <1>12, <2>3, <2>5, <3>2, <4>1 DEF StWroteBefore
        <4>2. CASE x # w
          BY <1>10, <2>2, <4>2
        <4> QED
          BY <4>1, <4>2
      <3>4. StTurns(stTo[j], stCall'[j]) <= StTurns(to, c)
        <4>1. stCall'[j] = stCall[j]
          BY <1>8, <2>3, <2>5
        <4> QED
          BY <1>4, <1>7, <2>3, <3>1, <4>1
      <3> QED
        BY <1>8, <2>2, <2>5, <3>3, <3>4 DEF to
    <2>6. CASE j = k
      <3>1. ASSUME NEW x \in StSocket PROVE StWroteBefore(i, k, stGot'[x])
        <4>1. CASE x = w /\ works
          <5>1. stGot'[w] = Append(stGot[w], k) /\ stGot[w] \in Seq(StMessage)
            BY <1>5, <1>10, <4>1
          <5>2. \A a, b \in 1..Len(stGot'[w]) : stGot'[w][a] = i /\ stGot'[w][b] = k => a \in 1..Len(stGot[w]) /\ b = Len(stGot[w]) + 1
            BY <1>11, <2>3, <2>6, <5>1, StAppended
          <5>3. \A l \in Nat : \A a \in 1..l : a < l + 1
            OBVIOUS
          <5>4. Len(stGot[w]) \in Nat
            BY <5>1
          <5> QED
            BY <4>1, <5>2, <5>3, <5>4 DEF StWroteBefore
        <4>2. CASE ~(x = w /\ works)
          BY <1>10, <2>2, <2>6, <4>2
        <4> QED
          BY <4>1, <4>2
      <3>2. ASSUME stCall[i].at = "sending" PROVE n + 1 <= StTurns(stTo[i], stCall[i])
        <4> DEFINE t == StTurns(stTo[i], stCall[i])
        <4>1. n <= t /\ t \in Nat /\ t \in 0..Len(stTo[i])
          BY <2>2, <2>3, <2>6, <3>2 DEF n, to
        <4>2. ASSUME t = n PROVE FALSE
          <5>1. i \in StMessage \ {k} /\ ~StRuns(i)
            BY <1>0, <2>3, <2>6 DEF StDrained
          <5>2. StWaitsRow(stCall[i], stTo[i], stSocket) /\ StWaitsRow(stCall[k], to, stSocket)
            BY DEF StInv, StWaits, to
          <5>3. n # 0 /\ n > 0 /\ n \in 1..n
            <6>1. n # 0
              BY <3>2, <4>2, <5>1, <5>2 DEF StWaitsRow, StRuns
            <6> QED
              BY <1>4, <6>1
          <5>4. /\ StAllOpen(i) /\ stCall[i].encodable /\ stCall[k].encodable
            BY <2>1, <2>6 DEF StFollows
          <5>5. \A m \in 1..n : stSocket[stTo[i][m]] = "open" /\ to[m] = stTo[i][m]
            <6>1. \A m \in 1..n : m \in 1..Len(stTo[i])
              BY <2>3, <4>1, <4>2
            <6> QED
              BY <2>2, <2>6, <5>4, <6>1 DEF StAllOpen, StBegins, to
          <5>6. stCall[i].drains = <<to[n]>>
            BY <3>2, <4>2, <5>2, <5>3, <5>4, <5>5 DEF StWaitsRow
          <5>7. stCall[k].drains = <<to[n]>>
            BY <1>0, <5>2, <5>3, <5>4, <5>5 DEF StWaitsRow, n
          <5> DEFINE y == to[n]
          <5>8. y \in StSocket /\ stSocket[y] = "open" /\ stTo[i][n] = y
            BY <1>1, <1>4, <5>3, <5>5
          <5> HIDE DEF y
          <5>9. StWroteBefore(k, i, stGot[y])
            BY <1>0, <5>1, <5>6, <5>7, <5>8 DEF StDrained, y
          <5>10. StWroteBefore(i, k, stGot[y])
            BY <2>2, <2>6, <5>8
          <5>11. StWrittenRow(i, y, stCall[i], stTo[i], stGot[y], stSocket[y]) /\ StWrittenRow(k, y, stCall[k], to, stGot[y], stSocket[y])
            BY <5>8 DEF StInv, StWritten, to
          <5>12. PICK a \in 1..Len(stGot[y]) : stGot[y][a] = i
            BY <4>2, <5>3, <5>4, <5>8, <5>11 DEF StWrittenRow
          <5>13. PICK b \in 1..Len(stGot[y]) : stGot[y][b] = k
            BY <5>3, <5>4, <5>8, <5>11 DEF StWrittenRow, n, y
          <5>14. a < b /\ b < a
            BY <5>9, <5>10, <5>12, <5>13 DEF StWroteBefore
          <5>15. Len(stGot[y]) \in Nat /\ a \in Nat /\ b \in Nat
            <6>1. Len(stGot[y]) \in Nat
              BY <1>10, <5>8
            <6> QED
              BY <6>1
          <5> QED
            BY <5>14, <5>15
        <4> HIDE DEF t
        <4>3. n # t
          BY <4>2
        <4>4. n + 1 <= t
          BY <1>4, <4>1, <4>3
        <4> QED
          BY <4>4 DEF t
      <3>3. stCall'[i].at = "sending" => StTurns(to, c) <= StTurns(stTo[i], stCall'[i])
        <4>1. stCall'[i] = stCall[i]
          BY <1>8, <2>3, <2>6
        <4> QED
          BY <1>7, <3>2, <4>1
      <3> QED
        BY <1>8, <2>2, <2>6, <3>1, <3>3 DEF to
    <2> QED
      BY <2>4, <2>5, <2>6
  <1> QED
    BY <1>13, <1>14, <1>15, <1>16, <1>17, <1>18, <1>19, <1>20 DEF StInv

\* Every step of the sockets keeps the invariant.
LEMMA StHolds == StInv /\ [StNext]_stVars => StInv'
  <1> SUFFICES ASSUME StInv, [StNext]_stVars PROVE StInv'
    OBVIOUS
  <1>1. CASE StNext
    <2>1. CASE \E w \in StSocket : StClose(w) \/ StHandlerEnds(w)
      BY <2>1, StCloseHolds, StHandlerEndsHolds
    <2>2. CASE StGoesOn
      BY <2>2, StHandlerEndsHolds, StWriteHolds, StCleanUpHolds, StReturnHolds DEF StGoesOn
    <2>3. ASSUME NEW w \in StSocket, NEW t \in {"valid", "refused"}, NEW u \in StUser, NEW s \in StSession \cup {"unknown"},
                 StRejected(w, t, u, s) \/ StConnect(w, t, u, s)
          PROVE  StInv'
      <3>1. CASE StRejected(w, t, u, s)
        <4>1. /\ stSocket[w] = "new" /\ stSocket' = [stSocket EXCEPT ![w] = "rejected"]
              /\ UNCHANGED <<stOwner, stList, stOf, stCall, stTo, stGot>>
          BY <3>1 DEF StRejected
        <4> QED
          BY <4>1, StRejectedHolds
      <3>2. CASE StConnect(w, t, u, s)
        <4>1. StCloseCode(t, u, s) = 1000
          BY <3>2 DEF StConnect
        <4>2. s \in StSession
          BY <4>1 DEF StCloseCode
        <4> QED
          BY <3>2, <4>2, StConnectHolds
      <3> QED
        BY <2>3, <3>1, <3>2
    <2>4. ASSUME NEW k \in StMessage, NEW s \in StSession, NEW b \in BOOLEAN, StSend(k, s, b) PROVE StInv'
      BY <2>4, StSendHolds
    <2> QED
      BY <1>1, <2>1, <2>2, <2>3, <2>4 DEF StNext
  <1>2. CASE UNCHANGED stVars
    <2>1. /\ stOwner' = stOwner /\ stSocket' = stSocket /\ stList' = stList /\ stOf' = stOf /\ stCall' = stCall
          /\ stTo' = stTo /\ stGot' = stGot
      BY <1>2 DEF stVars
    <2>2. StTypeOK' /\ StTables' /\ StDropped' /\ StCopies'
      BY <2>1 DEF StInv, StTypeOK, StTables, StTablesAgree, StDropped, StCopies
    <2>3. StCallsSound' /\ StWritten' /\ StFails' /\ StWaits' /\ StStaysBehind'
      BY <2>1 DEF StInv, StCallsSound, StWritten, StFails, StWaits, StStaysBehind, StFollows, StAllOpen
    <2> QED
      BY <2>2, <2>3 DEF StInv
  <1> QED
    BY <1>1, <1>2

-----------------------------------------------------------------------------
\* Webhooks.

\* What the deliveries have recorded so far.
WhAnswers == whRecorded["accepted"] + whRecorded["refused"]

\* A copy is of a count that the history had reached when it was made, and while no
\* two deliveries overlapped it is of the count as it is.
WhCopies ==
  /\ \A d \in WhDelivery : whAt[d] = "waiting" /\ whRow.there =>
       whCopy[d].delivered <= WhAnswers /\ whCopy[d].failed <= whRecorded["error"]
  /\ ~whOverlapped =>
       \A d \in WhDelivery : whAt[d] = "waiting" =>
         /\ whCopy[d].delivered = whRow.delivered /\ whCopy[d].failed = whRow.failed
         /\ \A e \in WhDelivery : whAt[e] = "waiting" => e = d

\* Webhooks: what is proved inductive. A delivery that is out knows what the webhook was
\* when it left, which is what says whose change wins.
WhInv == WhTypeOK /\ WhUserWins /\ WhCounts /\ WhCopies

\* It holds before the first delivery.
LEMMA WhStart == WhInit => WhInv
  <1> SUFFICES ASSUME WhInit PROVE WhInv
    OBVIOUS
  <1> USE DEF WhInit, WhNew, WhEnd
  <1>1. WhTypeOK
    <2>1. WhNew \in WhRowType
      BY DEF WhRowType
    <2>2. whSet \in [enabled : BOOLEAN, secret : 0..1]
      OBVIOUS
    <2>3. whRow \in WhRowType /\ whCopy \in [WhDelivery -> WhRowType]
      BY <2>1 DEF WhInit
    <2>4. whRecorded \in [WhEnd -> Nat]
      OBVIOUS
    <2>5. whAt \in [WhDelivery -> {"idle", "waiting", "done"}] /\ whBy \in [WhDelivery -> {"trigger", "test"}]
      OBVIOUS
    <2> QED
      BY <2>2, <2>3, <2>4, <2>5 DEF WhTypeOK
  <1>2. WhUserWins
    BY DEF WhUserWins
  <1>3. WhCounts
    <2>1. whRow.delivered = 0 /\ whRow.failed = 0
      OBVIOUS
    <2>2. whRecorded["accepted"] = 0 /\ whRecorded["refused"] = 0 /\ whRecorded["error"] = 0
      OBVIOUS
    <2> QED
      BY <2>1, <2>2 DEF WhCounts
  <1>4. WhCopies
    BY DEF WhCopies
  <1> QED
    BY <1>1, <1>2, <1>3, <1>4 DEF WhInv

\* Deliveries, their answers and the user's changes keep it.
LEMMA WhHolds == WhInv /\ [WhNext]_whVars => WhInv'
  <1> SUFFICES ASSUME WhInv, [WhNext]_whVars PROVE WhInv'
    OBVIOUS
  <1> USE DEF WhInv, WhTypeOK, WhRowType, WhUserWins, WhCounts, WhCopies, WhAnswers, WhEnd
  <1>1. ASSUME NEW b \in BOOLEAN, WhUpdate(b)
        PROVE  WhInv'
    BY <1>1 DEF WhUpdate
  <1>2. CASE WhRotate
    <2>1. whRow.secret = 0 /\ whSet.secret = 0
      BY <1>2 DEF WhRotate
    <2>2. whRow' = [whRow EXCEPT !.secret = 1] /\ whSet' = [whSet EXCEPT !.secret = 1]
      BY <1>2, <2>1 DEF WhRotate
    <2>3. whSet' \in [enabled : BOOLEAN, secret : 0..1] /\ whSet'.secret = 1 /\ whSet'.enabled = whSet.enabled
      BY <2>2 DEF WhTypeOK
    <2>4. whRow' \in WhRowType /\ whRow'.secret = 1 /\ whRow'.enabled = whRow.enabled
          /\ whRow'.there = whRow.there /\ whRow'.delivered = whRow.delivered /\ whRow'.failed = whRow.failed
      BY <2>2 DEF WhTypeOK, WhRowType
    <2>5. UNCHANGED <<whCopy, whAt, whBy, whRecorded, whLasting, whOverlapped>>
      BY <1>2 DEF WhRotate
    <2> QED
      BY <2>3, <2>4, <2>5
  <1>3. CASE WhDelete
    BY <1>3 DEF WhDelete
  <1>4. ASSUME NEW d \in WhDelivery, NEW by \in {"trigger", "test"}, WhDeliver(d, by)
        PROVE  WhInv'
    BY <1>4 DEF WhDeliver
  <1>5. ASSUME NEW d \in WhDelivery, NEW end \in WhEnd, WhEnds(d, end)
        PROVE  WhInv'
    BY <1>5 DEF WhEnds, WhCounted
  <1>6. CASE UNCHANGED whVars
    BY <1>6 DEF whVars
  <1> QED
    BY <1>1, <1>2, <1>3, <1>4, <1>5, <1>6 DEF WhNext

-----------------------------------------------------------------------------
\* Plugins.

\* No plugin that is there was registered on one that is leaving.
PlOnFirmGround ==
  /\ \A p \in plThere : plBase[p] \subseteq PlNeeds[p] \ {p} /\ \A q \in plBase[p] : ~PlLeaving(q)
  /\ \A o \in PlOp : plOp[o].kind = "uninstall" => plOp[o].at = "shutdown"

\* Plugins: what is enabled is up itself, and nobody that is there was registered on
\* one that is leaving.
PlInv == PlTypeOK /\ PlSound /\ PlOnFirmGround

\* It holds before the first plugin.
LEMMA PlStart == PlInit => PlInv
  BY DEF PlInit, PlInv, PlTypeOK, PlSound, PlEnabledIsUp, PlUninstallSafe, PlOnFirmGround, PlNoOp

\* What an operation is, and what it is not.
LEMMA PlIdle ==
  ASSUME PlTypeOK, NEW o \in PlOp
  PROVE  /\ plOp[o].at = "idle" => plOp[o].kind = "none"
         /\ plOp[o].at # "idle" => plOp[o] \in PlOperation
  BY DEF PlTypeOK, PlNoOp, PlOperation

\* A plugin is registered on plugins that are there.
LEMMA PlRegisterHolds ==
  ASSUME PlInv, NEW p \in PlPlugin, NEW v \in PlVersion, NEW instance \in BOOLEAN, PlRegister(p, v, instance)
  PROVE  PlInv'
  <1>0. /\ PlTypeOK /\ PlEnabledIsUp /\ PlUninstallSafe /\ PlOnFirmGround
        /\ plThere' = plThere \cup {p} /\ plOp' = plOp
        /\ plUp' = [plUp EXCEPT ![p] = "new"]
    BY DEF PlInv, PlSound, PlRegister
  <1>1. /\ plInfo[p].nth + 1 \in Nat /\ v \in Nat
        /\ plInfo' = [plInfo EXCEPT ![p] = [nth |-> plInfo[p].nth + 1, version |-> v, status |-> "installed",
                                            instance |-> instance]]
    BY PlAssumption DEF PlInv, PlTypeOK, PlRegister
  <1>2. plBase' = [plBase EXCEPT ![p] = {q \in (PlNeeds[p] \cap plThere) \ {p} : ~PlLeaving(q)}]
    BY DEF PlRegister
  <1>3. PlTypeOK'
    BY <1>0, <1>1, <1>2 DEF PlTypeOK
  <1>4. PlEnabledIsUp'
    BY <1>0, <1>1 DEF PlTypeOK, PlEnabledIsUp, PlReloads, PlIs
  <1>5. PlUninstallSafe'
    BY <1>0, <1>2 DEF PlTypeOK, PlUninstallSafe
  <1>6. PlOnFirmGround'
    BY <1>0, <1>2 DEF PlTypeOK, PlOnFirmGround, PlLeaving
  <1> QED
    BY <1>3, <1>4, <1>5, <1>6 DEF PlInv, PlSound

\* An operation begins to wait for a hook: nothing that is there changes, but for the
\* status that a reload gives.
LEMMA PlAwaitsHolds ==
  ASSUME PlInv, NEW o \in PlOp, NEW p \in plThere, NEW kind \in {"enable", "disable", "reload", "uninstall"},
         NEW at \in {"initialize", "shutdown"}, plOp[o].at = "idle", PlAwaits(o, kind, p, at),
         IF kind = "reload" THEN PlStatus(p, "updating") ELSE UNCHANGED plInfo,
         kind = "uninstall" => at = "shutdown" /\ PlDependents(p) = {}, UNCHANGED <<plThere, plUp, plBase>>
  PROVE  PlInv'
  <1> DEFINE op == [kind |-> kind, plugin |-> p, nth |-> plInfo[p].nth, at |-> at]
  <1>0. /\ PlTypeOK /\ PlEnabledIsUp /\ PlUninstallSafe /\ PlOnFirmGround /\ plOp[o].kind = "none"
        /\ p \in PlPlugin /\ plOp' = [plOp EXCEPT ![o] = op]
    BY PlIdle DEF PlInv, PlSound, PlTypeOK, PlAwaits
  <1>1. op \in PlOperation /\ op.kind = kind /\ op.plugin = p /\ op.at = at /\ op.nth = plInfo[p].nth
    BY <1>0 DEF PlTypeOK, PlOperation
  <1>2. plInfo' = IF kind = "reload" THEN [plInfo EXCEPT ![p].status = "updating"] ELSE plInfo
    BY DEF PlStatus
  <1>3. /\ plInfo' \in [PlPlugin -> [nth : Nat, version : Nat, instance : BOOLEAN,
                                    status : {"installed", "enabled", "disabled", "error", "updating"}]]
        /\ \A q \in PlPlugin : /\ plInfo'[q].nth = plInfo[q].nth /\ plInfo'[q].instance = plInfo[q].instance
                               /\ plInfo'[q].status = IF kind = "reload" /\ q = p THEN "updating" ELSE plInfo[q].status
    BY <1>0, <1>2 DEF PlTypeOK
  <1> HIDE DEF op
  <1>4. plOp' \in [PlOp -> PlOperation \cup {PlNoOp}] /\ plOp'[o] = op /\ \A e \in PlOp \ {o} : plOp'[e] = plOp[e]
    BY <1>0, <1>1 DEF PlTypeOK
  <1>5. PlTypeOK'
    BY <1>0, <1>3, <1>4 DEF PlTypeOK
  <1>6. PlEnabledIsUp'
    <2>1. \A q \in PlPlugin : PlReloads(q) => PlReloads(q)'
      BY <1>0, <1>3, <1>4 DEF PlReloads, PlIs
    <2>2. kind = "reload" => PlReloads(p)'
      BY <1>0, <1>1, <1>3, <1>4 DEF PlReloads, PlIs
    <2> QED
      BY <1>0, <1>3, <2>1, <2>2 DEF PlEnabledIsUp, PlTypeOK
  <1>7. PlUninstallSafe'
    BY <1>0 DEF PlUninstallSafe
  <1>8. PlOnFirmGround'
    <2>1. \A q : PlLeaving(q)' => PlLeaving(q) \/ (q = p /\ kind = "uninstall")
      BY <1>1, <1>4 DEF PlLeaving
    <2>2. \A r \in plThere : kind = "uninstall" => p \notin plBase[r]
      BY <1>0 DEF PlDependents, PlOnFirmGround
    <2>3. \A e \in PlOp : plOp'[e].kind = "uninstall" => plOp'[e].at = "shutdown"
      BY <1>0, <1>1, <1>4 DEF PlOnFirmGround
    <2> QED
      BY <1>0, <2>1, <2>2, <2>3 DEF PlOnFirmGround
  <1> QED
    BY <1>5, <1>6, <1>7, <1>8 DEF PlInv, PlSound

\* Without an instance the status is all that changes.
LEMMA PlStatusHolds ==
  ASSUME PlInv, NEW p \in plThere, NEW status \in {"enabled", "disabled", "error"}, ~plInfo[p].instance \/ status = "error",
         PlStatus(p, status), UNCHANGED <<plThere, plOp, plUp, plBase>>
  PROVE  PlInv'
  <1>0. /\ PlTypeOK /\ PlEnabledIsUp /\ PlUninstallSafe /\ PlOnFirmGround /\ p \in PlPlugin
        /\ plInfo' = [plInfo EXCEPT ![p].status = status]
    BY DEF PlInv, PlSound, PlTypeOK, PlStatus
  <1>1. /\ plInfo' \in [PlPlugin -> [nth : Nat, version : Nat, instance : BOOLEAN,
                                    status : {"installed", "enabled", "disabled", "error", "updating"}]]
        /\ \A q \in PlPlugin : /\ plInfo'[q].nth = plInfo[q].nth /\ plInfo'[q].instance = plInfo[q].instance
                               /\ plInfo'[q].status = IF q = p THEN status ELSE plInfo[q].status
    BY <1>0 DEF PlTypeOK
  <1>2. PlTypeOK'
    BY <1>0, <1>1 DEF PlTypeOK
  <1>3. \A q \in PlPlugin : PlReloads(q)' = PlReloads(q)
    BY <1>1 DEF PlReloads, PlIs
  <1>4. PlEnabledIsUp'
    BY <1>0, <1>1, <1>3 DEF PlTypeOK, PlEnabledIsUp
  <1>5. PlUninstallSafe' /\ PlOnFirmGround'
    BY <1>0 DEF PlUninstallSafe, PlOnFirmGround, PlLeaving
  <1> QED
    BY <1>2, <1>4, <1>5 DEF PlInv, PlSound

\* The requests to enable, disable and reload.
LEMMA PlRequestsHold ==
  ASSUME PlInv, NEW o \in PlOp, NEW p \in PlPlugin, PlEnable(o, p) \/ PlDisable(o, p) \/ PlReload(o, p)
  PROVE  PlInv'
  <1>1. CASE PlEnable(o, p)
    <2>1. CASE PlDependenciesMet(p) /\ plInfo[p].instance
      BY <1>1, <2>1, PlAwaitsHolds DEF PlEnable
    <2>2. CASE ~(PlDependenciesMet(p) /\ plInfo[p].instance)
      <3> DEFINE status == IF PlDependenciesMet(p) THEN "enabled" ELSE "error"
      <3>1. status \in {"enabled", "disabled", "error"} /\ (~plInfo[p].instance \/ status = "error")
        BY <2>2
      <3>2. p \in plThere /\ PlStatus(p, status) /\ UNCHANGED <<plThere, plOp, plUp, plBase>>
        BY <1>1, <2>2 DEF PlEnable
      <3> HIDE DEF status
      <3> QED
        BY <3>1, <3>2, PlStatusHolds
    <2> QED
      BY <2>1, <2>2
  <1>2. CASE PlDisable(o, p)
    <2>1. CASE plInfo[p].instance
      BY <1>2, <2>1, PlAwaitsHolds DEF PlDisable
    <2>2. CASE ~plInfo[p].instance
      BY <1>2, <2>2, PlStatusHolds DEF PlDisable
    <2> QED
      BY <2>1, <2>2
  <1>3. CASE PlReload(o, p)
    <2>1. CASE plInfo[p].instance
      BY <1>3, <2>1, PlAwaitsHolds DEF PlReload
    <2>2. CASE ~plInfo[p].instance
      BY <1>3, <2>2, PlStatusHolds DEF PlReload
    <2> QED
      BY <2>1, <2>2
  <1> QED
    BY <1>1, <1>2, <1>3

\* A plugin that no other depends on begins to leave.
LEMMA PlUninstallHolds ==
  ASSUME PlInv, NEW o \in PlOp, NEW p \in PlPlugin, PlUninstall(o, p)
  PROVE  PlInv'
  <1>1. CASE plInfo[p].instance
    BY <1>1, PlAwaitsHolds DEF PlUninstall
  <1>2. CASE ~plInfo[p].instance
    <2>0. /\ PlTypeOK /\ PlEnabledIsUp /\ PlUninstallSafe /\ PlOnFirmGround /\ PlDependents(p) = {}
          /\ plThere' = plThere \ {p} /\ UNCHANGED <<plOp, plInfo, plUp, plBase>>
      BY <1>2 DEF PlInv, PlSound, PlUninstall
    <2>1. PlTypeOK'
      BY <2>0 DEF PlTypeOK
    <2>2. PlEnabledIsUp'
      BY <2>0 DEF PlEnabledIsUp, PlReloads, PlIs
    <2>3. PlUninstallSafe'
      BY <2>0 DEF PlUninstallSafe, PlOnFirmGround, PlDependents
    <2>4. PlOnFirmGround'
      BY <2>0 DEF PlOnFirmGround, PlLeaving
    <2> QED
      BY <2>1, <2>2, <2>3, <2>4 DEF PlInv, PlSound
  <1> QED
    BY <1>1, <1>2

\* The hook ends: up and enabled come together, and down without disabled only in a
\* reload that goes on.
LEMMA PlHookEndsHolds ==
  ASSUME PlInv, NEW o \in PlOp, NEW good \in BOOLEAN, PlHookEnds(o, good)
  PROVE  PlInv'
  <1> DEFINE op == plOp[o]
             p == op.plugin
             again == op.kind = "reload" /\ op.at = "shutdown" /\ good
             status == IF ~good THEN "error" ELSE IF op.at = "initialize" THEN "enabled" ELSE "disabled"
  <1>0. /\ PlTypeOK /\ PlEnabledIsUp /\ PlUninstallSafe /\ PlOnFirmGround
        /\ op \in PlOperation /\ p \in PlPlugin /\ op.at \in {"initialize", "shutdown"}
        /\ status \in {"enabled", "disabled", "error"}
    BY PlIdle DEF PlInv, PlSound, PlHookEnds, PlOperation
  <1>1. /\ plOp' = [plOp EXCEPT ![o] = IF again THEN [op EXCEPT !.at = "initialize"] ELSE PlNoOp]
        /\ plUp' = IF PlIs(o, p) /\ good THEN [plUp EXCEPT ![p] = IF op.at = "initialize" THEN "up" ELSE "down"] ELSE plUp
        /\ plInfo' = IF PlIs(o, p) /\ ~again THEN [plInfo EXCEPT ![p].status = status] ELSE plInfo
        /\ plThere' = IF op.kind = "uninstall" /\ good THEN plThere \ {p} ELSE plThere
        /\ plBase' = plBase
    BY DEF PlHookEnds, PlStatus
  <1>2. /\ plInfo' \in [PlPlugin -> [nth : Nat, version : Nat, instance : BOOLEAN,
                                    status : {"installed", "enabled", "disabled", "error", "updating"}]]
        /\ \A q \in PlPlugin : /\ plInfo'[q].nth = plInfo[q].nth /\ plInfo'[q].instance = plInfo[q].instance
                               /\ plInfo'[q].status = IF q = p /\ PlIs(o, p) /\ ~again THEN status ELSE plInfo[q].status
    <2> HIDE DEF status, p, again
    <2> QED
      BY <1>0, <1>1 DEF PlTypeOK
  <1>3. /\ plUp' \in [PlPlugin -> {"new", "up", "down"}]
        /\ \A q \in PlPlugin : q # p \/ ~PlIs(o, p) \/ ~good => plUp'[q] = plUp[q]
        /\ PlIs(o, p) /\ good => plUp'[p] = IF op.at = "initialize" THEN "up" ELSE "down"
    BY <1>0, <1>1 DEF PlTypeOK
  <1>4. /\ plOp' \in [PlOp -> PlOperation \cup {PlNoOp}] /\ (\A e \in PlOp \ {o} : plOp'[e] = plOp[e])
        /\ again => plOp'[o].kind = "reload" /\ plOp'[o].plugin = p /\ plOp'[o].nth = op.nth
        /\ ~again => plOp'[o] = PlNoOp
    BY <1>0, <1>1 DEF PlTypeOK, PlOperation
  <1>5. PlTypeOK'
    BY <1>0, <1>1, <1>2, <1>3, <1>4 DEF PlTypeOK
  <1>6. PlEnabledIsUp'
    <2>1. \A q \in plThere' : q \in plThere /\ q \in PlPlugin
      BY <1>0, <1>1 DEF PlTypeOK
    <2>2. ASSUME NEW q \in plThere', PlReloads(q), q # p \/ ~PlIs(o, p) \/ again PROVE PlReloads(q)'
      <3>1. PICK e \in PlOp : plOp[e].kind = "reload" /\ plOp[e].plugin = q /\ PlIs(e, q)
        BY <2>2 DEF PlReloads
      <3>2. CASE e # o
        BY <1>2, <1>4, <2>1, <3>1, <3>2 DEF PlReloads, PlIs
      <3>3. CASE e = o
        <4>1. again /\ q = p
          BY <2>2, <3>1, <3>3
        <4> QED
          BY <1>2, <1>4, <2>1, <3>1, <3>3, <4>1 DEF PlReloads, PlIs
      <3> QED
        BY <3>2, <3>3
    <2>3. ASSUME NEW q \in plThere'
          PROVE  /\ plInfo'[q].instance /\ plInfo'[q].status = "enabled" => plUp'[q] = "up" \/ PlReloads(q)'
                 /\ plInfo'[q].status = "updating" => PlReloads(q)'
      <3>0. q \in plThere /\ q \in PlPlugin
        BY <2>1
      <3>1. CASE q = p /\ PlIs(o, p) /\ ~again
        BY <1>0, <1>2, <1>3, <3>0, <3>1
      <3>2. CASE q = p /\ PlIs(o, p) /\ again
        BY <1>2, <1>4, <2>3, <3>0, <3>2 DEF PlReloads, PlIs
      <3>3. CASE q # p \/ ~PlIs(o, p)
        BY <1>0, <1>2, <1>3, <2>2, <3>0, <3>3 DEF PlEnabledIsUp
      <3> QED
        BY <3>1, <3>2, <3>3
    <2> QED
      BY <2>3 DEF PlEnabledIsUp
  <1>7. PlUninstallSafe'
    <2>1. CASE op.kind = "uninstall" /\ good
      <3>1. PlLeaving(p)
        BY <1>0, <2>1 DEF PlLeaving, PlOnFirmGround
      <3> QED
        BY <1>0, <1>1, <2>1, <3>1 DEF PlUninstallSafe, PlOnFirmGround
    <2>2. CASE ~(op.kind = "uninstall" /\ good)
      BY <1>0, <1>1, <2>2 DEF PlUninstallSafe
    <2> QED
      BY <2>1, <2>2
  <1>8. PlOnFirmGround'
    <2>1. \A q : PlLeaving(q)' => PlLeaving(q)
      BY <1>4 DEF PlLeaving, PlNoOp
    <2>2. \A e \in PlOp : plOp'[e].kind = "uninstall" => plOp'[e].at = "shutdown"
      BY <1>0, <1>4 DEF PlOnFirmGround, PlNoOp
    <2> QED
      BY <1>0, <1>1, <2>1, <2>2 DEF PlOnFirmGround
  <1> QED
    BY <1>5, <1>6, <1>7, <1>8 DEF PlInv, PlSound

\* Requests, hooks and their ends keep the invariant.
LEMMA PlHolds == PlInv /\ [PlNext]_plVars => PlInv'
  <1> SUFFICES ASSUME PlInv, [PlNext]_plVars PROVE PlInv'
    OBVIOUS
  <1>1. CASE UNCHANGED plVars
    BY <1>1 DEF plVars, PlInv, PlTypeOK, PlSound, PlEnabledIsUp, PlUninstallSafe, PlOnFirmGround, PlReloads, PlIs, PlLeaving
  <1>2. CASE PlNext
    BY <1>2, PlRegisterHolds, PlRequestsHold, PlUninstallHolds, PlHookEndsHolds DEF PlNext
  <1> QED
    BY <1>1, <1>2

-----------------------------------------------------------------------------
\* The start of the application.

\* What the start has behind it where it is: the secrets, the database, its tables, and
\* the services that answered.
InBehind(v) ==
  CASE v = "postgres" -> {"migrations", "redis", "chroma", "collections", "serving"}
    [] v = "redis" -> {"chroma", "collections", "serving"}
    [] v = "chroma" -> {"collections", "serving"}

\* What a start has behind it where it is.
InDone ==
  /\ inAt \in {"migrations", "collections", "serving"} \cup InService => inSecret.key /\ inSecret.session
  /\ inAt \in InBehind("postgres") => inCatalog
  /\ \A v \in InService : inAt \in InBehind(v) => inPolled[v] > 0 \/ (v = "chroma" /\ InUnusable(v))
  /\ inAt = "serving" => InPlace \in inMade
  /\ inAt # "refused" => inBy = "none"

\* The seconds that a wait counted are those of its turns.
InCounted ==
  \A v \in InService :
    /\ inPolled[v] * InInterval \in Nat
    /\ inAt = v => inElapsed = inPolled[v] * InInterval
    /\ inAt \in {"gate", "secrets"} => inPolled[v] = 0
    /\ v # "postgres" /\ inAt \in {"postgres", "migrations"} => inPolled[v] = 0
    /\ v = "chroma" /\ inAt = "redis" => inPolled[v] = 0

\* The start of the application: what is behind it at each place of its sequence, and
\* that it has waited for no service longer than its timeout.
InInv == InTypeOK /\ InDone /\ InCounted /\ InWaits

\* How the time of one more poll adds up.
LEMMA InTurn == \A p, i \in Nat : p * i \in Nat /\ (p + 1) * i = p * i + i /\ 0 * i = 0
  OBVIOUS

\* It holds at the gate, whatever the configuration.
LEMMA InStart ==
  ASSUME NEW configs, configs \subseteq InConfig, InInit(configs)
  PROVE  InInv
  <1>1. InTypeOK
    BY DEF InInit, InTypeOK, InAsked, InGiven, InService
  <1>2. InDone
    BY DEF InInit, InDone, InBehind, InService
  <1>3. InCounted /\ InWaits
    BY InTurn, InAssumption DEF InInit, InCounted, InWaits, InAsked, InService
  <1> QED
    BY <1>1, <1>2, <1>3 DEF InInv

\* The secrets are read or made.
LEMMA InSecretsHold ==
  ASSUME InInv, InGate \/ InSecrets
  PROVE  InInv'
  <1>1. InTypeOK'
    <2>1. CASE InGate
      <3>1. inAt' \in {"refused", "secrets"} /\ inBy' \in {"none", "gate"} /\ inElapsed' = 0
        BY <2>1 DEF InGate, InGoTo
      <3> QED
        BY <2>1, <3>1 DEF InInv, InGate, InTypeOK, InService
    <2>2. CASE InSecrets
      <3>1. inAt' \in {"refused", "postgres"} /\ inBy' \in {"none", "secrets"} /\ inElapsed' = 0
        BY <2>2 DEF InSecrets, InGoTo
      <3>2. inSecret' \in [key : BOOLEAN, session : BOOLEAN]
        BY <2>2 DEF InInv, InTypeOK, InSecrets
      <3> QED
        BY <2>2, <3>1, <3>2 DEF InInv, InSecrets, InTypeOK, InService
    <2> QED
      BY <2>1, <2>2
  <1>2. InDone'
    BY DEF InInv, InGate, InSecrets, InTypeOK, InDone, InBehind, InGoTo, InService, InUnusable, InPlace
  <1>3. InCounted'
    BY InTurn, InAssumption DEF InInv, InGate, InSecrets, InTypeOK, InCounted, InGoTo, InService
  <1>4. InWaits'
    BY DEF InInv, InGate, InSecrets, InTypeOK, InWaits, InGoTo, InService, InUnusable
  <1> QED
    BY <1>1, <1>2, <1>3, <1>4 DEF InInv

\* A service without a URL that is of use refuses the start, or is passed over.
LEMMA InSkipsHold ==
  ASSUME InInv, NEW v \in InService, InSkips(v)
  PROVE  InInv'
  <1>0. \A w \in InService : InUnusable(w)' = InUnusable(w)
    BY DEF InSkips, InUnusable, InService
  <1>1. InTypeOK'
    BY DEF InInv, InSkips, InTypeOK, InGoTo, InService, InAfter
  <1>2. InDone'
    BY <1>0 DEF InInv, InSkips, InTypeOK, InDone, InBehind, InGoTo, InService, InAfter
  <1>3. InCounted'
    BY InTurn, InAssumption DEF InInv, InSkips, InTypeOK, InCounted, InGoTo, InService, InAfter
  <1>4. InWaits'
    BY <1>0 DEF InInv, InSkips, InTypeOK, InWaits, InCounted, InGoTo, InService, InAfter
  <1> QED
    BY <1>1, <1>2, <1>3, <1>4 DEF InInv

\* A service that did not answer in time refuses the start.
LEMMA InGivesUpHolds ==
  ASSUME InInv, NEW v \in InService, InGivesUp(v)
  PROVE  InInv'
  <1>0. \A w \in InService : InUnusable(w)' = InUnusable(w)
    BY DEF InGivesUp, InUnusable, InService
  <1>1. InTypeOK'
    BY DEF InInv, InGivesUp, InTypeOK, InGoTo, InService
  <1>2. InDone'
    BY <1>0 DEF InInv, InGivesUp, InTypeOK, InDone, InBehind, InGoTo, InService
  <1>3. InCounted'
    BY InTurn, InAssumption DEF InInv, InGivesUp, InTypeOK, InCounted, InGoTo, InService
  <1>4. InWaits'
    BY <1>0 DEF InInv, InGivesUp, InTypeOK, InWaits, InCounted, InGoTo, InService
  <1> QED
    BY <1>1, <1>2, <1>3, <1>4 DEF InInv

\* A service is polled, and the start goes on when it answers.
LEMMA InAsksHold ==
  ASSUME InInv, NEW v \in InService, NEW answers \in BOOLEAN, InAsks(v, answers)
  PROVE  InInv'
  <1> DEFINE n == inPolled[v] + 1
  <1>0. /\ n \in Nat /\ n > 0 /\ inAt = v /\ inElapsed \in Nat /\ inElapsed < InTimeout[v] /\ InInterval \in Nat \ {0}
        /\ inPolled' = [inPolled EXCEPT ![v] = n] /\ inPolled \in [InService -> Nat]
        /\ inPolled[v] * InInterval = inElapsed /\ n * InInterval = inElapsed + InInterval
        /\ InTimeout \in [InService -> Nat]
        /\ inCatalog' = (inCatalog \/ (v = "postgres" /\ answers))
        /\ UNCHANGED <<inConfig, inMade, inSecret, inStarts>>
    <2>1. /\ inAt = v /\ inElapsed < InTimeout[v] /\ inPolled' = [inPolled EXCEPT ![v] = n]
          /\ inCatalog' = (inCatalog \/ (v = "postgres" /\ answers))
          /\ UNCHANGED <<inConfig, inMade, inSecret>>
      BY DEF InAsks
    <2>2. inElapsed \in Nat /\ inPolled \in [InService -> Nat] /\ n \in Nat /\ n > 0
      BY DEF InInv, InTypeOK
    <2>3. inPolled[v] * InInterval = inElapsed
      BY <2>1 DEF InInv, InCounted
    <2>4. n * InInterval = inElapsed + InInterval
      BY <2>2, <2>3, InTurn, InAssumption
    <2>5. UNCHANGED inStarts
      BY DEF InAsks
    <2> QED
      BY <2>1, <2>2, <2>3, <2>4, <2>5, InAssumption
  <1>1. \A w \in InService : InUnusable(w)' = InUnusable(w)
    BY <1>0 DEF InUnusable, InService
  <1>2. inPolled'[v] = n /\ inPolled' \in [InService -> Nat] /\ \A w \in InService \ {v} : inPolled'[w] = inPolled[w]
    BY <1>0
  <1>3. inBy' = "none"
    <2>1. inBy = "none"
      BY <1>0 DEF InInv, InDone, InService
    <2>2. InAfter(v) # "refused"
      BY DEF InAfter, InService
    <2> QED
      BY <2>1, <2>2 DEF InAsks, InGoTo
  <1> HIDE DEF n
  <1>w. InWaits'
    <2> SUFFICES ASSUME NEW w \in InService
                 PROVE  /\ inPolled'[w] * InInterval < InTimeout[w] + InInterval
                        /\ InUnusable(w)' => inPolled'[w] = 0
      BY <1>3 DEF InWaits, InService
    <2>1. CASE w = v
      <3>1. ~InUnusable(v)
        BY DEF InAsks
      <3> QED
        BY <1>0, <1>1, <1>2, <2>1, <3>1, InAssumption
    <2>2. CASE w # v
      <3>1. inPolled'[w] = inPolled[w]
        BY <1>2, <2>2
      <3>2. inPolled[w] * InInterval < InTimeout[w] + InInterval /\ (InUnusable(w) => inPolled[w] = 0)
        BY DEF InInv, InWaits
      <3> QED
        BY <1>1, <3>1, <3>2
    <2> QED
      BY <2>1, <2>2
  <1>4. CASE answers
    <2>1. inAt' = InAfter(v) /\ inElapsed' = 0
      BY <1>4 DEF InAsks, InGoTo
    <2>2. InTypeOK'
      BY <1>0, <1>2, <1>3, <2>1 DEF InInv, InTypeOK, InAfter, InService
    <2>3. InDone'
      <3>1. /\ \A w \in InService : inAt \in InBehind(w) => inPolled[w] > 0 \/ (w = "chroma" /\ InUnusable(w))
            /\ inAt \in InBehind("postgres") => inCatalog
            /\ inSecret.key /\ inSecret.session
        BY <1>0 DEF InInv, InDone, InService
      <3>2. \A w \in InService : InAfter(v) \in InBehind(w) => w = v \/ inAt \in InBehind(w)
        BY <1>0 DEF InBehind, InAfter, InService
      <3>3. \A w \in InService : inPolled'[w] >= inPolled[w] /\ inPolled[w] \in Nat /\ inPolled'[v] > 0
        BY <1>0, <1>2
      <3>4. \A w \in InService : inAt' \in InBehind(w) => inPolled'[w] > 0 \/ (w = "chroma" /\ InUnusable(w)')
        BY <1>0, <1>1, <1>2, <2>1, <3>1, <3>2, <3>3
      <3>5. inAt' \in InBehind("postgres") => inCatalog'
        BY <1>0, <1>4, <2>1, <3>1 DEF InBehind, InAfter, InService
      <3>6. inAt' # "serving"
        BY <2>1 DEF InAfter, InService
      <3> QED
        BY <1>0, <1>3, <3>1, <3>4, <3>5, <3>6 DEF InDone
    <2>4. InCounted'
      BY <1>0, <1>2, <1>3, <2>1, InTurn DEF InInv, InCounted, InAfter, InService
    <2> QED
      BY <1>w, <2>2, <2>3, <2>4 DEF InInv
  <1>5. CASE ~answers
    <2>1. inAt' = v /\ inElapsed' = inElapsed + InInterval
      BY <1>0, <1>5 DEF InAsks
    <2>2. InTypeOK'
      BY <1>0, <1>2, <1>3, <2>1 DEF InInv, InTypeOK, InService
    <2>3. InDone'
      <3>1. /\ \A w \in InService : inAt \in InBehind(w) => inPolled[w] > 0 \/ (w = "chroma" /\ InUnusable(w))
            /\ inAt \in InBehind("postgres") => inCatalog
            /\ inSecret.key /\ inSecret.session
        BY <1>0 DEF InInv, InDone, InService
      <3>2. \A w \in InService : v \in InBehind(w) => w = v \/ inAt \in InBehind(w)
        BY <1>0 DEF InBehind, InAfter, InService
      <3>3. \A w \in InService : inPolled'[w] >= inPolled[w] /\ inPolled[w] \in Nat /\ inPolled'[v] > 0
        BY <1>0, <1>2
      <3>4. \A w \in InService : inAt' \in InBehind(w) => inPolled'[w] > 0 \/ (w = "chroma" /\ InUnusable(w)')
        BY <1>0, <1>1, <1>2, <2>1, <3>1, <3>2, <3>3
      <3>5. inAt' \in InBehind("postgres") => inCatalog'
        BY <1>0, <1>5, <2>1, <3>1 DEF InBehind, InAfter, InService
      <3>6. inAt' # "serving"
        BY <2>1 DEF InAfter, InService
      <3> QED
        BY <1>0, <1>3, <3>1, <3>4, <3>5, <3>6 DEF InDone
    <2>4. InCounted'
      BY <1>0, <1>2, <1>3, <2>1, InTurn DEF InInv, InCounted, InService
    <2> QED
      BY <1>w, <2>2, <2>3, <2>4 DEF InInv
  <1> QED
    BY <1>4, <1>5

\* The migrations are passed over.
LEMMA InMigratesHolds ==
  ASSUME InInv, InMigrates
  PROVE  InInv'
  <1>0. \A w \in InService : InUnusable(w)' = InUnusable(w)
    BY DEF InMigrates, InUnusable, InService
  <1>1. InTypeOK'
    BY DEF InInv, InMigrates, InTypeOK, InGoTo, InService
  <1>2. InDone'
    BY <1>0 DEF InInv, InMigrates, InTypeOK, InDone, InBehind, InGoTo, InService
  <1>3. InCounted'
    BY InTurn, InAssumption DEF InInv, InMigrates, InTypeOK, InCounted, InGoTo, InService
  <1>4. InWaits'
    BY <1>0 DEF InInv, InMigrates, InTypeOK, InWaits, InGoTo, InService
  <1> QED
    BY <1>1, <1>2, <1>3, <1>4 DEF InInv

\* The collections of the memory are made.
LEMMA InCollectsHolds ==
  ASSUME InInv, NEW good \in BOOLEAN, InCollects(good)
  PROVE  InInv'
  <1>0. (\A w \in InService : InUnusable(w)' = InUnusable(w)) /\ InPlace' = InPlace
    BY DEF InCollects, InUnusable, InService, InPlace
  <1>1. InTypeOK'
    BY DEF InInv, InCollects, InTypeOK, InGoTo, InService, InPlace
  <1>2. InDone'
    BY <1>0 DEF InInv, InCollects, InTypeOK, InDone, InBehind, InGoTo, InService
  <1>3. InCounted'
    BY InTurn, InAssumption DEF InInv, InCollects, InTypeOK, InCounted, InGoTo, InService
  <1>4. InWaits'
    BY <1>0 DEF InInv, InCollects, InTypeOK, InWaits, InGoTo, InService
  <1> QED
    BY <1>1, <1>2, <1>3, <1>4 DEF InInv

\* A start begins again from the gate.
LEMMA InRestartHolds ==
  ASSUME InInv, InRestarts
  PROVE  InInv'
  <1>1. InTypeOK'
    BY DEF InInv, InRestarts, InTypeOK, InService, InAsked, InGiven
  <1>2. InDone'
    BY DEF InInv, InRestarts, InDone, InBehind, InService
  <1>3. InCounted' /\ InWaits'
    BY InTurn, InAssumption DEF InInv, InRestarts, InTypeOK, InCounted, InWaits, InService, InAsked
  <1> QED
    BY <1>1, <1>2, <1>3 DEF InInv

\* Every step of the start keeps the invariant.
LEMMA InHolds == InInv /\ [InNext]_inVars => InInv'
  <1>1. ASSUME InInv, UNCHANGED inVars PROVE InInv'
    <2>0. UNCHANGED <<inConfig, inAt, inBy, inElapsed, inPolled, inCatalog, inMade, inSecret, inStarts>>
      BY <1>1 DEF inVars
    <2>1. \A w : InUnusable(w)' = InUnusable(w)
      BY <2>0 DEF InUnusable
    <2>2. InTypeOK' /\ InDone'
      BY <1>1, <2>0, <2>1 DEF InInv, InTypeOK, InDone, InPlace
    <2>3. InCounted' /\ InWaits'
      BY <1>1, <2>0, <2>1 DEF InInv, InCounted, InWaits
    <2> QED
      BY <2>2, <2>3 DEF InInv
  <1> QED
    BY <1>1, InSecretsHold, InSkipsHold, InGivesUpHolds, InAsksHold, InMigratesHolds, InCollectsHolds, InRestartHolds
    DEF InNext, InStep

\* No blocking check of a part of the gate fails.
GtOpen(checks) == \A c \in checks : c.passed \/ c.severity \notin {"critical", "high"}

\* The gate passes when each of its eight parts does.
LEMMA GtParts ==
  ASSUME NEW s
  PROVE  GtAllPassed(s) <=> /\ GtOpen(GtSecrets(s)) /\ GtOpen(GtDatabase(s)) /\ GtOpen(GtCache(s)) /\ GtOpen(GtRegistries(s))
                            /\ GtOpen(GtEngine(s)) /\ GtOpen(GtSandbox(s)) /\ GtOpen(GtSecurity(s))
                            /\ GtOpen(GtConfiguration(s))
  BY DEF GtAllPassed, GtChecks, GtOpen

\* Several checks pass when each of them does.
LEMMA GtFine ==
  /\ \A a, b, c : GtOpen({a, b, c}) <=> GtOpen({a}) /\ GtOpen({b}) /\ GtOpen({c})
  /\ \A a, b : GtOpen({a, b}) <=> GtOpen({a}) /\ GtOpen({b})
  <1>1. \A a, b, c : GtOpen({a, b, c}) <=> GtOpen({a}) /\ GtOpen({b}) /\ GtOpen({c})
    BY DEF GtOpen
  <1>2. \A a, b : GtOpen({a, b}) <=> GtOpen({a}) /\ GtOpen({b})
    BY DEF GtOpen
  <1> QED
    BY <1>1, <1>2

\* A check blocks when it fails and is a critical or a high one.
LEMMA GtBlocks ==
  ASSUME NEW name, NEW passed \in BOOLEAN, NEW severity
  PROVE  GtOpen({GtCheck(name, passed, severity)}) <=> passed \/ severity \notin {"critical", "high"}
  BY DEF GtOpen, GtCheck

\* The secrets that the gate passes: good ones, and in development none.
LEMMA GtSecretsOpen ==
  ASSUME NEW s \in InConfig
  PROVE  GtOpen(GtSecrets(s)) <=>
           /\ s.secret \in {"good", "secret"}
           /\ s.encryption \in {"good", "worded"} \/ (s.encryption = "missing" /\ ~s.production)
           /\ s.session = "good" \/ (s.session = "missing" /\ ~s.production)
  <1> DEFINE a == GtCheck("JWT_SECRET_KEY", s.secret \in {"good", "secret"}, "critical")
             b == IF s.encryption = "missing" /\ ~s.production
                    THEN GtCheck("ENCRYPTION_MASTER_KEY", TRUE, "medium")
                    ELSE GtCheck("ENCRYPTION_MASTER_KEY", s.encryption \in {"good", "worded"}, "critical")
             c == IF s.session = "missing" /\ ~s.production
                    THEN GtCheck("SESSION_SECRET", TRUE, "low")
                    ELSE GtCheck("SESSION_SECRET", s.session = "good", "high")
  <1>0. s.production \in BOOLEAN
    BY DEF InConfig
  <1>1. GtSecrets(s) = {a, b, c}
    BY DEF GtSecrets
  <1>2. GtOpen({a}) <=> s.secret \in {"good", "secret"}
    <2>1. (s.secret \in {"good", "secret"}) \in BOOLEAN
      BY <1>0
    <2> QED
      BY <2>1, GtBlocks
  <1>3. GtOpen({b}) <=> s.encryption \in {"good", "worded"} \/ (s.encryption = "missing" /\ ~s.production)
    <2>1. (s.encryption \in {"good", "worded"}) \in BOOLEAN /\ TRUE \in BOOLEAN
      BY <1>0
    <2>2. CASE s.encryption = "missing" /\ ~s.production
      BY <1>0, <2>1, <2>2, GtBlocks
    <2>3. CASE ~(s.encryption = "missing" /\ ~s.production)
      BY <1>0, <2>1, <2>3, GtBlocks
    <2> QED
      BY <2>2, <2>3
  <1>4. GtOpen({c}) <=> s.session = "good" \/ (s.session = "missing" /\ ~s.production)
    <2>1. (s.session = "good") \in BOOLEAN /\ TRUE \in BOOLEAN
      BY <1>0
    <2>2. CASE s.session = "missing" /\ ~s.production
      BY <1>0, <2>1, <2>2, GtBlocks
    <2>3. CASE ~(s.session = "missing" /\ ~s.production)
      BY <1>0, <2>1, <2>3, GtBlocks
    <2> QED
      BY <2>2, <2>3
  <1> HIDE DEF a, b, c
  <1>5. /\ GtOpen({a, b, c}) <=> GtOpen({a}) /\ GtOpen({b}) /\ GtOpen({c})
        /\ GtOpen({a, b}) <=> GtOpen({a}) /\ GtOpen({b})
    BY GtFine
  <1> QED
    BY <1>1, <1>2, <1>3, <1>4, <1>5

\* The stores that it passes: named, well-formed, and in production not the default
\* ones.
LEMMA GtStoresOpen ==
  ASSUME NEW s \in InConfig
  PROVE  /\ GtOpen(GtDatabase(s)) <=>
              s.database \notin {"missing", "malformed", "hostless"} /\ (s.database = "default" => ~s.production)
         /\ GtOpen(GtCache(s)) <=> s.redis # "missing"
  <1> DEFINE p == s.database # "missing" /\ (s.database = "default" => ~s.production)
             a == IF s.database = "local" /\ s.production
                    THEN GtCheck("DATABASE_URL", TRUE, "medium")
                    ELSE GtCheck("DATABASE_URL", p, "critical")
             b == GtCheck("DATABASE_CONNECTIVITY", s.database \notin {"missing", "malformed", "hostless"}, "high")
             c == IF s.redis = "local" /\ s.production
                    THEN GtCheck("REDIS_URL", TRUE, "medium")
                    ELSE GtCheck("REDIS_URL", s.redis # "missing", "high")
  <1>0. s.production \in BOOLEAN
    BY DEF InConfig
  <1>1. GtDatabase(s) = {a, b} /\ GtCache(s) = {c}
    BY DEF GtDatabase, GtCache
  <1>2. GtOpen({a}) <=> p
    <2>1. (p) \in BOOLEAN /\ TRUE \in BOOLEAN
      BY <1>0
    <2>2. CASE s.database = "local" /\ s.production
      BY <1>0, <2>1, <2>2, GtBlocks
    <2>3. CASE ~(s.database = "local" /\ s.production)
      BY <1>0, <2>1, <2>3, GtBlocks
    <2> QED
      BY <2>2, <2>3
  <1>3. GtOpen({b}) <=> s.database \notin {"missing", "malformed", "hostless"}
    <2>1. (s.database \notin {"missing", "malformed", "hostless"}) \in BOOLEAN
      BY <1>0
    <2> QED
      BY <2>1, GtBlocks
  <1>4. GtOpen({c}) <=> s.redis # "missing"
    <2>1. (s.redis # "missing") \in BOOLEAN /\ TRUE \in BOOLEAN
      BY <1>0
    <2>2. CASE s.redis = "local" /\ s.production
      BY <1>0, <2>1, <2>2, GtBlocks
    <2>3. CASE ~(s.redis = "local" /\ s.production)
      BY <1>0, <2>1, <2>3, GtBlocks
    <2> QED
      BY <2>2, <2>3
  <1> HIDE DEF a, b, c
  <1>5. /\ GtOpen({a, b, c}) <=> GtOpen({a}) /\ GtOpen({b}) /\ GtOpen({c})
        /\ GtOpen({a, b}) <=> GtOpen({a}) /\ GtOpen({b})
    BY GtFine
  <1> QED
    BY <1>1, <1>2, <1>3, <1>4, <1>5

\* The origins and the limit that it passes.
LEMMA GtSecurityOpen ==
  ASSUME NEW s \in InConfig
  PROVE  GtOpen(GtSecurity(s)) <=> s.cors \notin {"empty", "wildcard"} /\ s.rate > 0
  <1> DEFINE a == IF s.cors = "local" /\ s.production
                    THEN GtCheck("CORS_ORIGINS", TRUE, "medium")
                    ELSE GtCheck("CORS_ORIGINS", s.cors \notin {"empty", "wildcard"}, "critical")
             b == IF s.rate \in 1..9 THEN GtCheck("RATE_LIMITING", TRUE, "medium")
                    ELSE GtCheck("RATE_LIMITING", s.rate > 0, "high")
             c == GtCheck("ALLOWED_HOSTS", s.hosts \/ ~s.production, "medium")
  <1>0. s.production \in BOOLEAN /\ s.hosts \in BOOLEAN /\ s.rate \in Nat
    BY DEF InConfig
  <1>1. GtSecurity(s) = {a, b, c}
    BY DEF GtSecurity
  <1>2. GtOpen({a}) <=> s.cors \notin {"empty", "wildcard"}
    <2>1. (s.cors \notin {"empty", "wildcard"}) \in BOOLEAN /\ TRUE \in BOOLEAN
      BY <1>0
    <2>2. CASE s.cors = "local" /\ s.production
      BY <1>0, <2>1, <2>2, GtBlocks
    <2>3. CASE ~(s.cors = "local" /\ s.production)
      BY <1>0, <2>1, <2>3, GtBlocks
    <2> QED
      BY <2>2, <2>3
  <1>3. GtOpen({b}) <=> s.rate > 0
    <2>1. (s.rate > 0) \in BOOLEAN /\ TRUE \in BOOLEAN
      BY <1>0
    <2>2. CASE s.rate \in 1..9
      <3>1. b = GtCheck("RATE_LIMITING", TRUE, "medium")
        BY <2>2
      <3>2. s.rate > 0
        BY <2>2
      <3> HIDE DEF b
      <3> QED
        BY <2>1, <3>1, <3>2, GtBlocks
    <2>3. CASE ~(s.rate \in 1..9)
      <3>1. b = GtCheck("RATE_LIMITING", s.rate > 0, "high")
        BY <2>3
      <3> HIDE DEF b
      <3> QED
        BY <2>1, <3>1, GtBlocks
    <2> QED
      BY <2>2, <2>3
  <1>4. GtOpen({c})
    <2>1. (s.hosts \/ ~s.production) \in BOOLEAN
      BY <1>0
    <2> QED
      BY <2>1, GtBlocks
  <1> HIDE DEF a, b, c
  <1>5. /\ GtOpen({a, b, c}) <=> GtOpen({a}) /\ GtOpen({b}) /\ GtOpen({c})
        /\ GtOpen({a, b}) <=> GtOpen({a}) /\ GtOpen({b})
    BY GtFine
  <1> QED
    BY <1>1, <1>2, <1>3, <1>4, <1>5

\* The gate is strict, whatever the configuration.
LEMMA InStrict ==
  ASSUME inConfig \in InConfig
  PROVE  GtStrict
  <1> DEFINE c == [inConfig EXCEPT !.production = TRUE]
             d == [inConfig EXCEPT !.production = FALSE]
  <1>1. /\ c \in InConfig /\ d \in InConfig /\ c.production = TRUE /\ d.production = FALSE
        /\ c.secret = d.secret /\ c.encryption = d.encryption /\ c.session = d.session /\ c.database = d.database
        /\ c.redis = d.redis /\ c.cors = d.cors /\ c.rate = d.rate
    BY DEF InConfig
  <1>2. c.raises = d.raises /\ c.sandbox = d.sandbox /\ c.named = d.named
    BY DEF InConfig
  <1>3. /\ GtRegistries(c) = GtRegistries(d) /\ GtEngine(c) = GtEngine(d) /\ GtSandbox(c) = GtSandbox(d)
        /\ GtConfiguration(c) = GtConfiguration(d)
    BY <1>2 DEF GtRegistries, GtEngine, GtSandbox, GtConfiguration
  <1> HIDE DEF c, d
  <1>4. GtAllPassed(c) => GtAllPassed(d)
    BY <1>1, <1>3, GtParts, GtSecretsOpen, GtStoresOpen, GtSecurityOpen
  <1>5. inConfig.production /\ GtAllPassed(inConfig) =>
          SvAllPassed(inConfig) \/ inConfig.secret = "secret" \/ inConfig.encryption = "worded"
    <2>1. inConfig.production \in BOOLEAN /\ inConfig.cors \in {"good", "empty", "wildcard", "local"}
      BY DEF InConfig
    <2> QED
      BY <2>1, GtParts, GtSecretsOpen, GtStoresOpen, GtSecurityOpen DEF SvAllPassed
  <1> QED
    BY <1>4, <1>5 DEF GtStrict, c, d

\* The invariant and the gate say what the run checks.
LEMMA InIsSound == InInv => InSound
  <1> SUFFICES ASSUME InInv PROVE InSound
    OBVIOUS
  <1>1. InServesReady
    BY DEF InInv, InDone, InBehind, InServesReady, InService
  <1>2. GtStrict
    BY InStrict DEF InInv, InTypeOK
  <1> QED
    BY <1>1, <1>2 DEF InInv, InSound

-----------------------------------------------------------------------------
\* Rate limits and tokens.

\* The requests that are not in the log are a minute old.
RlLogged ==
  \A c \in RlClient : \A i \in 1..Len(rlAccepted[c]) \ rlLog[c] : rlNow - rlAccepted[c][i] >= RlMinute

\* The requests of a client that were let in within the minute that begins at t.
RlBelow(c, t) == {i \in 1..Len(rlAccepted[c]) : t <= rlAccepted[c][i] /\ rlAccepted[c][i] <= t + RlMinute - 1}

\* However a window of a minute is laid over the time, no more requests were let in
\* within it than the limit.
RlBounded == \A c \in RlClient, t \in Nat : Cardinality(RlBelow(c, t)) <= RlLimit

\* A token that is there was generated, and expires with its lifetime.
RlTokensGiven ==
  /\ DOMAIN rlTokens \subseteq DOMAIN rlGiven
  /\ \A x \in DOMAIN rlGiven : rlGiven[x] \in Nat
  /\ \A x \in DOMAIN rlTokens : rlTokens[x] = rlGiven[x] + RlLifetime

\* The limiter: what it lets in is bounded because its log has every request of the last
\* minute.
RlInv == RlTypeOK /\ RlLogged /\ RlBounded /\ RlTokensGiven /\ RlTokensLive

\* It holds before the first request.
LEMMA RlStart == RlInit => RlInv
  <1> SUFFICES ASSUME RlInit PROVE RlInv
    OBVIOUS
  <1> USE RlAssumption DEF RlInit
  <1>1. DOMAIN << >> = {}
    OBVIOUS
  <1>2. RlTypeOK
    BY <1>1 DEF RlTypeOK
  <1>3. RlLogged
    BY DEF RlLogged
  <1>4. RlBounded
    <2>1. \A c \in RlClient, t \in Nat : RlBelow(c, t) = {}
      BY DEF RlBelow
    <2> QED
      BY <2>1, FS_EmptySet DEF RlBounded
  <1>5. RlTokensGiven
    BY <1>1 DEF RlTokensGiven
  <1>6. RlTokensLive
    BY <1>1 DEF RlTokensLive
  <1> QED
    BY <1>2, <1>3, <1>4, <1>5, <1>6 DEF RlInv

\* A request changes the times of one client, by one request of now.
LEMMA RlRequestHolds ==
  ASSUME RlInv, NEW c \in RlClient, RlRequest(c)
  PROVE  RlTypeOK' /\ RlLogged' /\ RlBounded'
  <1> DEFINE acc == rlAccepted[c]
             n == Len(acc) + 1
  <1>0. /\ rlNow \in 0..RlEnd /\ rlAccepted \in [RlClient -> Seq(0..rlNow)]
        /\ DOMAIN rlLog = RlClient /\ \A d \in RlClient : rlLog[d] \subseteq 1..Len(rlAccepted[d])
        /\ DOMAIN rlTokens \subseteq RlToken /\ DOMAIN rlValid \subseteq DOMAIN rlGiven
        /\ rlNow \in Nat /\ RlMinute \in Nat \ {0} /\ RlLimit \in Nat \ {0}
    BY RlAssumption DEF RlInv, RlTypeOK
  <1>1. acc \in Seq(0..rlNow) /\ n \in Nat /\ rlLog[c] \subseteq 1..Len(acc) /\ Len(acc) \in Nat
        /\ \A i \in 1..Len(acc) : acc[i] \in 0..rlNow
    BY <1>0
  <1>2. UNCHANGED <<rlNow, rlTokens, rlGiven, rlValid>>
    BY DEF RlRequest
  <1>3. IsFiniteSet(RlRecent(c)) /\ RlRecent(c) \subseteq 1..Len(acc)
    <2>1. IsFiniteSet(1..Len(acc))
      BY <1>1, FS_Interval
    <2>2. RlRecent(c) \subseteq 1..Len(acc)
      BY <1>1 DEF RlRecent
    <2> QED
      BY <2>1, <2>2, FS_Subset
  <1>4. \A i \in 1..Len(acc) : i \notin RlRecent(c) => rlNow - acc[i] >= RlMinute
    BY <1>0, <1>1 DEF RlRecent, RlInv, RlLogged
  <1>5. CASE Cardinality(RlRecent(c)) < RlLimit
    <2>1. rlAccepted' = [rlAccepted EXCEPT ![c] = Append(acc, rlNow)]
          /\ rlLog' = [rlLog EXCEPT ![c] = RlRecent(c) \cup {n}]
      BY <1>5 DEF RlRequest
    <2>2. /\ rlAccepted'[c] = Append(acc, rlNow) /\ \A d \in RlClient \ {c} : rlAccepted'[d] = rlAccepted[d]
          /\ rlLog'[c] = RlRecent(c) \cup {n} /\ \A d \in RlClient \ {c} : rlLog'[d] = rlLog[d]
      BY <1>0, <2>1
    <2>3. /\ Len(rlAccepted'[c]) = n /\ rlAccepted'[c][n] = rlNow
          /\ \A i \in 1..Len(acc) : rlAccepted'[c][i] = acc[i]
      BY <1>1, <2>2
    <2>4. RlTypeOK'
      <3>1. Append(acc, rlNow) \in Seq(0..rlNow)
        BY <1>0, <1>1
      <3>2. rlAccepted' \in [RlClient -> Seq(0..rlNow)]
        BY <1>0, <2>1, <3>1
      <3>3. \A d \in RlClient : rlLog'[d] \subseteq 1..Len(rlAccepted'[d])
        <4>1. \A l \in Nat : 1..l \cup {l + 1} \subseteq 1..(l + 1)
          OBVIOUS
        <4>2. rlLog'[c] \subseteq 1..Len(rlAccepted'[c])
          BY <1>1, <1>3, <2>2, <2>3, <4>1
        <4>3. ASSUME NEW d \in RlClient \ {c} PROVE rlLog'[d] \subseteq 1..Len(rlAccepted'[d])
          BY <1>0, <2>2
        <4> QED
          BY <4>2, <4>3
      <3> QED
        BY <1>0, <1>2, <2>1, <3>2, <3>3 DEF RlTypeOK
    <2>5. RlLogged'
      <3>1. ASSUME NEW i \in 1..Len(rlAccepted'[c]) \ rlLog'[c]
            PROVE  rlNow' - rlAccepted'[c][i] >= RlMinute
        <4>1. i \in 1..Len(acc) /\ i \notin RlRecent(c)
          BY <1>1, <2>2, <2>3
        <4> QED
          BY <1>2, <1>4, <2>3, <4>1
      <3>2. ASSUME NEW d \in RlClient \ {c}, NEW i \in 1..Len(rlAccepted'[d]) \ rlLog'[d]
            PROVE  rlNow' - rlAccepted'[d][i] >= RlMinute
        BY <1>2, <2>2 DEF RlInv, RlLogged
      <3> QED
        BY <3>1, <3>2 DEF RlLogged
    <2>6. ASSUME NEW t \in Nat PROVE Cardinality(RlBelow(c, t)') <= RlLimit
      <3>1. RlBelow(c, t)' \subseteq RlBelow(c, t) \cup {n} /\ IsFiniteSet(RlBelow(c, t))
        <4>1. IsFiniteSet(RlBelow(c, t))
          <5>1. IsFiniteSet(1..Len(acc))
            BY <1>1, FS_Interval
          <5>2. RlBelow(c, t) \subseteq 1..Len(acc)
            BY DEF RlBelow
          <5> QED
            BY <5>1, <5>2, FS_Subset
        <4> QED
          BY <1>1, <2>3, <4>1 DEF RlBelow
      <3>2. CASE n \notin RlBelow(c, t)'
        <4>1. RlBelow(c, t)' \subseteq RlBelow(c, t)
          BY <3>1, <3>2
        <4>2. Cardinality(RlBelow(c, t)) \in Nat /\ Cardinality(RlBelow(c, t)') \in Nat
              /\ Cardinality(RlBelow(c, t)') <= Cardinality(RlBelow(c, t))
          BY <3>1, <4>1, FS_Subset, FS_CardinalityType
        <4> QED
          BY <1>0, <4>2 DEF RlInv, RlBounded
      <3>3. CASE n \in RlBelow(c, t)'
        <4>1. t <= rlNow /\ rlNow <= t + RlMinute - 1
          BY <2>3, <3>3 DEF RlBelow
        <4>2. RlBelow(c, t)' \subseteq RlRecent(c) \cup {n}
          <5> SUFFICES ASSUME NEW i \in 1..Len(acc), t <= acc[i], acc[i] <= t + RlMinute - 1
                       PROVE  i \in RlRecent(c)
            BY <1>1, <2>3 DEF RlBelow
          <5>1. acc[i] \in 0..rlNow
            BY <1>1
          <5>2. ~(rlNow - acc[i] >= RlMinute)
            BY <1>0, <4>1, <5>1
          <5> QED
            BY <1>4, <5>2
        <4>3. n \notin RlRecent(c)
          BY <1>1, <1>3
        <4>4. IsFiniteSet(RlRecent(c) \cup {n})
              /\ Cardinality(RlRecent(c) \cup {n}) = Cardinality(RlRecent(c)) + 1
          BY <1>3, <4>3, FS_AddElement
        <4>5. Cardinality(RlBelow(c, t)') <= Cardinality(RlRecent(c) \cup {n})
          BY <4>2, <4>4, FS_Subset
        <4>6. Cardinality(RlRecent(c)) \in Nat /\ Cardinality(RlBelow(c, t)') \in Nat
          BY <1>3, <4>2, <4>4, FS_Subset, FS_CardinalityType
        <4> QED
          BY <1>0, <1>5, <4>4, <4>5, <4>6
      <3> QED
        BY <3>2, <3>3
    <2>7. \A d \in RlClient \ {c}, t \in Nat : RlBelow(d, t)' = RlBelow(d, t)
      BY <2>2 DEF RlBelow
    <2>8. RlBounded'
      BY <2>6, <2>7 DEF RlInv, RlBounded
    <2> QED
      BY <2>4, <2>5, <2>8
  <1>6. CASE ~(Cardinality(RlRecent(c)) < RlLimit)
    <2>1. rlAccepted' = rlAccepted /\ rlLog' = [rlLog EXCEPT ![c] = RlRecent(c)]
      BY <1>6 DEF RlRequest
    <2>2. rlLog'[c] = RlRecent(c) /\ \A d \in RlClient \ {c} : rlLog'[d] = rlLog[d]
      BY <1>0, <2>1
    <2>3. RlTypeOK'
      BY <1>0, <1>2, <1>3, <2>1, <2>2 DEF RlTypeOK
    <2>4. RlLogged'
      BY <1>2, <1>4, <2>1, <2>2 DEF RlInv, RlLogged
    <2>5. RlBounded'
      BY <2>1 DEF RlInv, RlBounded, RlBelow
    <2> QED
      BY <2>3, <2>4, <2>5
  <1> QED
    BY <1>5, <1>6

\* Time passes: what is in the log gets older, and what is not is older than a minute.
LEMMA RlTickHolds ==
  ASSUME RlInv, RlTick
  PROVE  RlTypeOK' /\ RlLogged' /\ RlBounded'
  <1>0. /\ rlNow \in 0..RlEnd /\ rlAccepted \in [RlClient -> Seq(0..rlNow)]
        /\ rlNow' = rlNow + 1 /\ rlNow' \in 0..RlEnd /\ RlMinute \in Nat
        /\ UNCHANGED <<rlAccepted, rlLog, rlTokens, rlGiven, rlValid>>
    BY RlAssumption DEF RlInv, RlTypeOK, RlTick
  <1>1. \A c \in RlClient : \A i \in 1..Len(rlAccepted[c]) : rlAccepted[c][i] \in 0..rlNow
    BY <1>0
  <1>2. rlAccepted \in [RlClient -> Seq(0..(rlNow + 1))]
    BY <1>0
  <1>3. RlTypeOK'
    BY <1>0, <1>2 DEF RlInv, RlTypeOK
  <1>4. RlLogged'
    BY <1>0, <1>1 DEF RlInv, RlLogged
  <1>5. RlBounded'
    BY <1>0 DEF RlInv, RlBounded, RlBelow
  <1> QED
    BY <1>3, <1>4, <1>5

\* The tokens are a table of their own.
LEMMA RlTokensHold ==
  ASSUME RlInv, NEW x \in RlToken, RlGenerate(x) \/ RlValidate(x) \/ RlInvalidate(x)
  PROVE  RlTokensGiven' /\ RlTokensLive' /\ DOMAIN rlTokens' \subseteq RlToken
         /\ DOMAIN rlValid' \subseteq DOMAIN rlGiven'
  <1>0. /\ rlNow \in Nat /\ RlLifetime \in Nat /\ RlTokensGiven /\ RlTokensLive
        /\ DOMAIN rlTokens \subseteq RlToken /\ DOMAIN rlValid \subseteq DOMAIN rlGiven
    BY RlAssumption DEF RlInv, RlTypeOK
  <1>1. CASE RlGenerate(x)
    BY <1>0, <1>1 DEF RlGenerate, RlWith, RlWithout, RlTokensGiven, RlTokensLive
  <1>2. CASE RlInvalidate(x)
    BY <1>0, <1>2 DEF RlInvalidate, RlWithout, RlTokensGiven, RlTokensLive
  <1>3. CASE RlValidate(x) /\ rlNow > rlTokens[x]
    BY <1>0, <1>3 DEF RlValidate, RlWithout, RlTokensGiven, RlTokensLive
  <1>4. CASE RlValidate(x) /\ ~(rlNow > rlTokens[x])
    <2>1. x \in DOMAIN rlTokens /\ rlValid' = RlWith(rlValid, x, rlNow) /\ UNCHANGED <<rlTokens, rlGiven>>
      BY <1>4 DEF RlValidate
    <2>2. rlNow <= rlGiven[x] + RlLifetime
      BY <1>0, <1>4, <2>1 DEF RlTokensGiven
    <2> QED
      BY <1>0, <2>1, <2>2 DEF RlWith, RlTokensGiven, RlTokensLive
  <1> QED
    BY <1>1, <1>2, <1>3, <1>4

\* Requests, tokens and the clock keep it.
LEMMA RlHolds == RlInv /\ [RlNext]_rlVars => RlInv'
  <1> SUFFICES ASSUME RlInv, [RlNext]_rlVars PROVE RlInv'
    OBVIOUS
  <1>1. CASE RlTick
    <2>1. RlTokensGiven' /\ RlTokensLive'
      BY <1>1 DEF RlTick, RlInv, RlTokensGiven, RlTokensLive
    <2> QED
      BY <1>1, <2>1, RlTickHolds DEF RlInv
  <1>2. ASSUME NEW c \in RlClient, RlRequest(c)
        PROVE  RlInv'
    <2>1. RlTokensGiven' /\ RlTokensLive'
      BY <1>2 DEF RlRequest, RlInv, RlTokensGiven, RlTokensLive
    <2> QED
      BY <1>2, <2>1, RlRequestHolds DEF RlInv
  <1>3. ASSUME NEW x \in RlToken, RlGenerate(x) \/ RlValidate(x) \/ RlInvalidate(x)
        PROVE  RlInv'
    <2>1. UNCHANGED <<rlNow, rlAccepted, rlLog>>
      BY <1>3 DEF RlGenerate, RlValidate, RlInvalidate
    <2>2. RlLogged' /\ RlBounded'
      BY <2>1 DEF RlInv, RlLogged, RlBounded, RlBelow
    <2>3. RlTypeOK'
      BY <1>3, <2>1, RlTokensHold DEF RlInv, RlTypeOK
    <2> QED
      BY <1>3, <2>2, <2>3, RlTokensHold DEF RlInv
  <1>4. CASE UNCHANGED rlVars
    BY <1>4 DEF rlVars, RlInv, RlTypeOK, RlLogged, RlBounded, RlBelow, RlTokensGiven, RlTokensLive
  <1> QED
    BY <1>1, <1>2, <1>3, <1>4 DEF RlNext

\* It says what the run checks.
LEMMA RlIsSound == RlInv => RlSound
  <1> SUFFICES ASSUME RlInv, NEW c \in RlClient
               PROVE  /\ \A t \in 0..RlEnd : RlIn(c, t, t + RlMinute - 1) <= RlLimit
                      /\ Cardinality(RlRecent(c)) = RlIn(c, (IF rlNow < RlMinute THEN 0 ELSE rlNow - RlMinute + 1), rlNow)
    BY DEF RlInv, RlSound, RlWindow
  <1>0. /\ rlNow \in Nat /\ RlMinute \in Nat \ {0} /\ rlLog[c] \subseteq 1..Len(rlAccepted[c])
        /\ \A i \in 1..Len(rlAccepted[c]) : rlAccepted[c][i] \in 0..rlNow
    BY RlAssumption DEF RlInv, RlTypeOK
  <1>1. \A t \in 0..RlEnd : t \in Nat /\ RlIn(c, t, t + RlMinute - 1) = Cardinality(RlBelow(c, t))
    BY RlAssumption DEF RlIn, RlBelow
  <1>2. RlRecent(c) = {i \in 1..Len(rlAccepted[c]) :
                        (IF rlNow < RlMinute THEN 0 ELSE rlNow - RlMinute + 1) <= rlAccepted[c][i] /\ rlAccepted[c][i] <= rlNow}
    <2>1. ASSUME NEW i \in 1..Len(rlAccepted[c]), i \in rlLog[c], rlNow - rlAccepted[c][i] < RlMinute
          PROVE  (IF rlNow < RlMinute THEN 0 ELSE rlNow - RlMinute + 1) <= rlAccepted[c][i] /\ rlAccepted[c][i] <= rlNow
      BY <1>0, <2>1
    <2>2. ASSUME NEW i \in 1..Len(rlAccepted[c]),
                 (IF rlNow < RlMinute THEN 0 ELSE rlNow - RlMinute + 1) <= rlAccepted[c][i], rlAccepted[c][i] <= rlNow
          PROVE  i \in rlLog[c] /\ rlNow - rlAccepted[c][i] < RlMinute
      <3>1. rlNow - rlAccepted[c][i] < RlMinute
        BY <1>0, <2>2
      <3> QED
        BY <1>0, <3>1 DEF RlInv, RlLogged
    <2> QED
      BY <1>0, <2>1, <2>2 DEF RlRecent
  <1> QED
    BY <1>1, <1>2 DEF RlInv, RlBounded, RlIn

-----------------------------------------------------------------------------
\* Searches.

\* Where a search is says what it has answered and how often it asked.
WsPlaced(c) ==
  /\ wsAt[c] \in {"idle", "waiting"} => wsAnswer[c] = "none" /\ wsAsked[c] = 0
  /\ wsAt[c] \in {"asking", "backoff"} => wsAnswer[c] = "none" /\ wsAsked[c] < WsAttempts
  /\ wsAt[c] = "done" =>
       /\ wsAsked[c] <= WsAttempts
       /\ wsAnswer[c] = "fails" => wsAsked[c] = WsAttempts
       /\ wsAnswer[c] = "cached" => wsAsked[c] = 0

\* Those who wait for the bucket are in the queue, each of them once.
WsQueued ==
  /\ \A c \in WsSearch : wsAt[c] = "waiting" <=> \E i \in 1..Len(wsQueue) : wsQueue[i] = c
  /\ \A i, j \in 1..Len(wsQueue) : wsQueue[i] = wsQueue[j] => i = j

\* The tokens that were taken since a tick.
WsFrom(i) == {k \in 1..Len(wsTaken) : i <= wsTaken[k]}

\* The tokens that were taken between two ticks, both included.
WsWithin(i, j) == {k \in 1..Len(wsTaken) : i <= wsTaken[k] /\ wsTaken[k] <= j}

\* The tokens that were taken since a tick, and those that are left: one bucket, when it
\* was not refilled since; one more with the first refill, and what refilled behind that.
WsSpent ==
  \A i \in 0..wsNow :
    /\ wsRefilled < i => Cardinality(WsFrom(i)) + wsTokens <= WsBucket
    /\ wsRefilled >= i => Cardinality(WsFrom(i)) + wsTokens <= 2 * WsBucket + (wsRefilled - i)

\* Between two times no more tokens are taken than two buckets and one for each tick.
WsRate == \A i, j \in Nat : i <= j => Cardinality(WsWithin(i, j)) <= 2 * WsBucket + (j - i)

\* Searches: where each is, who waits, what the cache has, and what was taken from the
\* bucket.
WsInv ==
  /\ WsTypeOK /\ (\A c \in WsSearch : WsPlaced(c)) /\ WsQueued /\ WsCacheSound
  /\ WsSpent /\ WsRate

\* The tokens taken from a time on are finitely many, and the more the longer one looks.
LEMMA WsCounts ==
  ASSUME WsTypeOK, NEW i \in Nat
  PROVE  /\ IsFiniteSet(WsFrom(i)) /\ Cardinality(WsFrom(i)) \in Nat
         /\ \A j \in Nat : IsFiniteSet(WsWithin(i, j)) /\ Cardinality(WsWithin(i, j)) \in Nat
                           /\ Cardinality(WsWithin(i, j)) <= Cardinality(WsFrom(i))
  <1>1. IsFiniteSet(1..Len(wsTaken))
    BY FS_Interval DEF WsTypeOK
  <1>2. WsFrom(i) \subseteq 1..Len(wsTaken)
    BY DEF WsFrom
  <1>3. \A j \in Nat : WsWithin(i, j) \subseteq WsFrom(i)
    BY DEF WsFrom, WsWithin
  <1>4. IsFiniteSet(WsFrom(i))
    BY <1>1, <1>2, FS_Subset
  <1> QED
    BY <1>3, <1>4, FS_Subset, FS_CardinalityType

\* It holds with a full bucket and nobody waiting.
LEMMA WsStart == WsInit => WsInv
  <1> SUFFICES ASSUME WsInit PROVE WsInv
    OBVIOUS
  <1> USE WsAssumption DEF WsInit
  <1>1. DOMAIN << >> = {} /\ Len(<< >>) = 0
    OBVIOUS
  <1>2. WsTypeOK
    BY <1>1 DEF WsTypeOK
  <1>3. \A c \in WsSearch : WsPlaced(c)
    BY DEF WsPlaced
  <1>4. WsQueued
    BY DEF WsQueued
  <1>5. WsCacheSound
    BY <1>1 DEF WsCacheSound
  <1>6. \A i, j : WsFrom(i) = {} /\ WsWithin(i, j) = {}
    BY DEF WsFrom, WsWithin
  <1>7. \A i, j : Cardinality(WsFrom(i)) = 0 /\ Cardinality(WsWithin(i, j)) = 0
    BY <1>6, FS_EmptySet
  <1>8. WsSpent
    BY <1>7 DEF WsSpent
  <1>9. WsRate
    BY <1>7 DEF WsRate
  <1> QED
    BY <1>2, <1>3, <1>4, <1>5, <1>8, <1>9 DEF WsInv

\* A tick begins with nothing taken since, and at most a bucket.
LEMMA WsTickHolds ==
  ASSUME WsInv, WsTick
  PROVE  WsInv'
  <1>0. /\ wsNow \in Nat /\ wsNow' = wsNow + 1 /\ wsNow' \in 0..WsEnd /\ WsBucket \in Nat \ {0}
        /\ wsTokens \in 0..WsBucket /\ wsRefilled \in 0..wsNow /\ wsTaken \in Seq(0..wsNow)
        /\ UNCHANGED <<wsAt, wsQuery, wsAsked, wsAnswer, wsAge, wsQueue, wsTokens, wsRefilled, wsTaken, wsCache>>
    BY WsAssumption DEF WsInv, WsTypeOK, WsTick
  <1>1. wsTaken \in Seq(0..(wsNow + 1)) /\ \A k \in 1..Len(wsTaken) : wsTaken[k] \in 0..wsNow
    BY <1>0
  <1>2. WsTypeOK'
    BY <1>0, <1>1 DEF WsInv, WsTypeOK
  <1>3. (\A c \in WsSearch : WsPlaced(c))' /\ WsQueued' /\ WsCacheSound' /\ WsRate'
    <2>1. (\A c \in WsSearch : WsPlaced(c))'
      BY <1>0 DEF WsInv, WsPlaced
    <2>2. WsQueued'
      BY <1>0 DEF WsInv, WsQueued
    <2>3. WsCacheSound'
      BY <1>0 DEF WsInv, WsCacheSound
    <2>4. WsRate'
      BY <1>0 DEF WsInv, WsRate, WsWithin
    <2> QED
      BY <2>1, <2>2, <2>3, <2>4
  <1>4. ASSUME NEW i \in 0..wsNow'
        PROVE  /\ wsRefilled < i => Cardinality(WsFrom(i)) + wsTokens <= WsBucket
               /\ wsRefilled >= i => Cardinality(WsFrom(i)) + wsTokens <= 2 * WsBucket + (wsRefilled - i)
    <2>1. CASE i = wsNow + 1
      <3>1. WsFrom(i) = {}
        BY <1>0, <1>1, <2>1 DEF WsFrom
      <3>2. Cardinality(WsFrom(i)) = 0
        BY <3>1, FS_EmptySet
      <3> QED
        BY <1>0, <2>1, <3>2
    <2>2. CASE i \in 0..wsNow
      BY <2>2 DEF WsInv, WsSpent
    <2> QED
      BY <1>0, <2>1, <2>2
  <1>5. WsSpent'
    BY <1>0, <1>4 DEF WsSpent, WsFrom
  <1> QED
    BY <1>2, <1>3, <1>5 DEF WsInv

\* The empty bucket is filled: with one bucket at most, and with what refilled since.
LEMMA WsRefillHolds ==
  ASSUME WsInv, WsRefill
  PROVE  WsInv'
  <1>0. /\ wsNow \in Nat /\ WsBucket \in Nat \ {0} /\ wsRefilled \in 0..wsNow
        /\ wsTokens = 0 /\ wsNow > wsRefilled /\ wsRefilled' = wsNow
        /\ UNCHANGED <<wsNow, wsAt, wsQuery, wsAsked, wsAnswer, wsAge, wsQueue, wsTaken, wsCache>>
    BY WsAssumption DEF WsInv, WsTypeOK, WsRefill
  <1>1. wsTokens' \in 0..WsBucket /\ wsTokens' <= wsNow - wsRefilled
    BY <1>0 DEF WsRefill, WsLeast
  <1>2. WsTypeOK'
    BY <1>0, <1>1 DEF WsInv, WsTypeOK
  <1>3. (\A c \in WsSearch : WsPlaced(c))' /\ WsQueued' /\ WsCacheSound' /\ WsRate'
    <2>1. (\A c \in WsSearch : WsPlaced(c))'
      BY <1>0 DEF WsInv, WsPlaced
    <2>2. WsQueued'
      BY <1>0 DEF WsInv, WsQueued
    <2>3. WsCacheSound'
      BY <1>0 DEF WsInv, WsCacheSound
    <2>4. WsRate'
      BY <1>0 DEF WsInv, WsRate, WsWithin
    <2> QED
      BY <2>1, <2>2, <2>3, <2>4
  <1>4. ASSUME NEW i \in 0..wsNow
        PROVE  Cardinality(WsFrom(i)) + wsTokens' <= 2 * WsBucket + (wsNow - i)
    <2>1. Cardinality(WsFrom(i)) \in Nat
      BY <1>0, WsCounts DEF WsInv
    <2>2. /\ wsRefilled < i => Cardinality(WsFrom(i)) + 0 <= WsBucket
          /\ wsRefilled >= i => Cardinality(WsFrom(i)) + 0 <= 2 * WsBucket + (wsRefilled - i)
      BY <1>0 DEF WsInv, WsSpent
    <2> QED
      BY <1>0, <1>1, <2>1, <2>2
  <1>5. WsSpent'
    BY <1>0, <1>4 DEF WsSpent, WsFrom
  <1> QED
    BY <1>2, <1>3, <1>5 DEF WsInv

\* One token is taken now: one more since every earlier tick, and one less is left.
LEMMA WsAcquireSpends ==
  ASSUME WsInv, WsAcquire
  PROVE  WsSpent' /\ WsRate' /\ wsTaken' \in Seq(0..wsNow) /\ wsTokens' \in 0..WsBucket
  <1> DEFINE n == Len(wsTaken) + 1
  <1>0. /\ wsNow \in Nat /\ WsBucket \in Nat \ {0} /\ wsRefilled \in 0..wsNow /\ wsTaken \in Seq(0..wsNow)
        /\ wsTokens \in 0..WsBucket /\ wsTokens >= 1 /\ wsTokens' = wsTokens - 1
        /\ wsTaken' = Append(wsTaken, wsNow) /\ UNCHANGED <<wsNow, wsRefilled>>
    BY WsAssumption DEF WsInv, WsTypeOK, WsAcquire
  <1>1. /\ Len(wsTaken) \in Nat /\ Len(wsTaken') = n /\ wsTaken'[n] = wsNow
        /\ \A k \in 1..Len(wsTaken) : wsTaken'[k] = wsTaken[k] /\ wsTaken[k] \in 0..wsNow
    BY <1>0
  <1>2. wsTaken' \in Seq(0..wsNow) /\ wsTokens' \in 0..WsBucket
    BY <1>0
  <1>3. ASSUME NEW i \in 0..wsNow
        PROVE  /\ WsFrom(i)' = WsFrom(i) \cup {n} /\ IsFiniteSet(WsFrom(i)')
               /\ Cardinality(WsFrom(i)) \in Nat /\ Cardinality(WsFrom(i)') = Cardinality(WsFrom(i)) + 1
    <2>1. WsFrom(i)' = WsFrom(i) \cup {n} /\ n \notin WsFrom(i)
      BY <1>0, <1>1 DEF WsFrom
    <2>2. IsFiniteSet(WsFrom(i)) /\ Cardinality(WsFrom(i)) \in Nat
      <3>1. i \in Nat /\ WsTypeOK
        BY <1>0 DEF WsInv
      <3> QED
        BY <3>1, WsCounts
    <2>3. IsFiniteSet(WsFrom(i) \cup {n}) /\ Cardinality(WsFrom(i) \cup {n}) = Cardinality(WsFrom(i)) + 1
      <3> HIDE DEF n
      <3>1. IsFiniteSet(WsFrom(i) \cup {n})
        BY <2>2, FS_AddElement
      <3>2. Cardinality(WsFrom(i) \cup {n}) = Cardinality(WsFrom(i)) + 1
        BY <2>1, <2>2, FS_AddElement
      <3> QED
        BY <3>1, <3>2
    <2> HIDE DEF n
    <2> QED
      BY <2>1, <2>2, <2>3
  <1>4. WsSpent'
    <2> SUFFICES ASSUME NEW i \in 0..wsNow
                 PROVE  /\ wsRefilled < i => Cardinality(WsFrom(i)') + wsTokens' <= WsBucket
                        /\ wsRefilled >= i => Cardinality(WsFrom(i)') + wsTokens' <= 2 * WsBucket + (wsRefilled - i)
      BY <1>0 DEF WsSpent
    <2>1. /\ wsRefilled < i => Cardinality(WsFrom(i)) + wsTokens <= WsBucket
          /\ wsRefilled >= i => Cardinality(WsFrom(i)) + wsTokens <= 2 * WsBucket + (wsRefilled - i)
      BY DEF WsInv, WsSpent
    <2> QED
      BY <1>0, <1>3, <2>1
  <1>5. ASSUME NEW i \in Nat, NEW j \in Nat, i <= j
        PROVE  Cardinality(WsWithin(i, j)') <= 2 * WsBucket + (j - i)
    <2>1. CASE i > wsNow \/ j < wsNow
      <3>1. WsWithin(i, j)' = WsWithin(i, j)
        BY <1>0, <1>1, <2>1 DEF WsWithin
      <3> QED
        BY <1>5, <3>1 DEF WsInv, WsRate
    <2>2. CASE i <= wsNow /\ wsNow <= j
      <3>1. i \in 0..wsNow
        BY <1>0, <2>2
      <3>2. WsWithin(i, j)' \subseteq WsFrom(i)'
        BY <1>1 DEF WsWithin, WsFrom
      <3>3. Cardinality(WsWithin(i, j)') \in Nat /\ Cardinality(WsWithin(i, j)') <= Cardinality(WsFrom(i)')
        BY <1>3, <3>1, <3>2, FS_Subset, FS_CardinalityType
      <3>4. Cardinality(WsFrom(i)') + wsTokens' <= 2 * WsBucket + (wsNow - i)
        <4>1. /\ wsRefilled < i => Cardinality(WsFrom(i)') + wsTokens' <= WsBucket
              /\ wsRefilled >= i => Cardinality(WsFrom(i)') + wsTokens' <= 2 * WsBucket + (wsRefilled - i)
          BY <1>0, <1>4, <3>1 DEF WsSpent
        <4>2. Cardinality(WsFrom(i)') \in Nat
          BY <1>3, <3>1
        <4> QED
          BY <1>0, <1>2, <3>1, <4>1, <4>2
      <3> QED
        BY <1>0, <1>2, <1>3, <2>2, <3>1, <3>3, <3>4
    <2> QED
      BY <1>0, <2>1, <2>2
  <1>6. WsRate'
    BY <1>5 DEF WsRate
  <1> QED
    BY <1>2, <1>4, <1>6

\* The search at the head of the queue, and no other, leaves it.
LEMMA WsAcquireHolds ==
  ASSUME WsInv, WsAcquire
  PROVE  WsInv'
  <1> DEFINE h == Head(wsQueue)
  <1>0. /\ wsQueue \in Seq(WsSearch) /\ wsQueue # << >> /\ wsQueue' = Tail(wsQueue)
        /\ wsAt \in [WsSearch -> {"idle", "waiting", "asking", "backoff", "done"}]
        /\ wsAt' = [wsAt EXCEPT ![h] = "asking"]
        /\ UNCHANGED <<wsNow, wsQuery, wsAsked, wsAnswer, wsAge, wsRefilled, wsCache>>
    BY DEF WsInv, WsTypeOK, WsAcquire
  <1>1. /\ h \in WsSearch /\ h = wsQueue[1] /\ Len(wsQueue) \in Nat /\ Len(wsQueue) >= 1
        /\ wsQueue' \in Seq(WsSearch) /\ Len(wsQueue') = Len(wsQueue) - 1
        /\ \A i \in 1..Len(wsQueue') : wsQueue'[i] = wsQueue[i + 1]
    BY <1>0
  <1>2. wsAt[h] = "waiting" /\ WsQueued
    BY <1>0, <1>1 DEF WsInv, WsQueued
  <1>3. wsAt'[h] = "asking" /\ (\A c \in WsSearch \ {h} : wsAt'[c] = wsAt[c])
        /\ wsAt' \in [WsSearch -> {"idle", "waiting", "asking", "backoff", "done"}]
    BY <1>0, <1>1
  <1> HIDE DEF h
  <1>4. WsTypeOK'
    BY <1>0, <1>1, <1>3, WsAcquireSpends DEF WsInv, WsTypeOK
  <1>5. (\A c \in WsSearch : WsPlaced(c))'
    BY <1>0, <1>1, <1>2, <1>3, WsAssumption DEF WsInv, WsPlaced
  <1>6. WsQueued'
    <2>1. ASSUME NEW c \in WsSearch, wsAt'[c] = "waiting"
          PROVE  \E i \in 1..Len(wsQueue') : wsQueue'[i] = c
      <3>1. c # h /\ wsAt[c] = "waiting"
        BY <1>3, <2>1
      <3>2. PICK i \in 1..Len(wsQueue) : wsQueue[i] = c
        BY <1>2, <3>1 DEF WsQueued
      <3>3. i # 1 /\ i - 1 \in 1..Len(wsQueue') /\ wsQueue'[i - 1] = c
        BY <1>1, <3>1, <3>2
      <3> QED
        BY <3>3
    <2>2. ASSUME NEW c \in WsSearch, NEW i \in 1..Len(wsQueue'), wsQueue'[i] = c
          PROVE  wsAt'[c] = "waiting"
      <3>1. i + 1 \in 1..Len(wsQueue) /\ wsQueue[i + 1] = c /\ 1 \in 1..Len(wsQueue)
        BY <1>1, <2>2
      <3>2. c # h
        BY <1>1, <1>2, <3>1 DEF WsQueued
      <3> QED
        BY <1>2, <1>3, <3>1, <3>2 DEF WsQueued
    <2>3. \A i, j \in 1..Len(wsQueue') : wsQueue'[i] = wsQueue'[j] => i = j
      <3> SUFFICES ASSUME NEW i \in 1..Len(wsQueue'), NEW j \in 1..Len(wsQueue'), wsQueue'[i] = wsQueue'[j]
                   PROVE  i = j
        OBVIOUS
      <3>1. i + 1 \in 1..Len(wsQueue) /\ j + 1 \in 1..Len(wsQueue) /\ wsQueue[i + 1] = wsQueue[j + 1]
        BY <1>1
      <3>2. i + 1 = j + 1
        BY <1>2, <3>1 DEF WsQueued
      <3> QED
        BY <3>2
    <2> QED
      BY <2>1, <2>2, <2>3 DEF WsQueued
  <1>7. WsCacheSound'
    BY <1>0 DEF WsInv, WsCacheSound
  <1> QED
    BY <1>4, <1>5, <1>6, <1>7, WsAcquireSpends DEF WsInv

\* A search that is not in the queue, and goes to another place that is not.
LEMMA WsQueueStays ==
  ASSUME WsInv, NEW c \in WsSearch, NEW at \in {"idle", "asking", "backoff", "done"}, wsAt[c] # "waiting",
         wsAt' = [wsAt EXCEPT ![c] = at], UNCHANGED wsQueue
  PROVE  WsQueued'
  BY DEF WsInv, WsTypeOK, WsQueued

\* A step that leaves the bucket and the clock alone keeps what was spent.
LEMMA WsBucketStays ==
  ASSUME WsInv, UNCHANGED <<wsNow, wsTokens, wsRefilled, wsTaken>>
  PROVE  WsSpent' /\ WsRate'
  BY DEF WsInv, WsSpent, WsRate, WsFrom, WsWithin

\* A search begins: it is answered from the cache, or goes to the end of the queue.
LEMMA WsBeginHolds ==
  ASSUME WsInv, NEW c \in WsSearch, WsBegin(c)
  PROVE  WsInv'
  <1> DEFINE key == wsQuery[c]
  <1>0. /\ wsAt[c] = "idle" /\ wsNow \in Nat
        /\ wsAt \in [WsSearch -> {"idle", "waiting", "asking", "backoff", "done"}]
        /\ wsAnswer \in [WsSearch -> {"none", "cached", "found", "refused", "fails"}]
        /\ wsAge \in [WsSearch -> Nat] /\ wsAsked \in [WsSearch -> Nat] /\ wsQuery \in [WsSearch -> WsQuery]
        /\ wsQueue \in Seq(WsSearch) /\ DOMAIN wsCache \subseteq WsQuery
        /\ UNCHANGED <<wsNow, wsQuery, wsAsked, wsTokens, wsRefilled, wsTaken>>
    BY WsAssumption DEF WsInv, WsTypeOK, WsBegin
  <1>1. WsSpent' /\ WsRate'
    BY <1>0, WsBucketStays
  <1>2. wsAnswer[c] = "none" /\ wsAsked[c] = 0
    BY <1>0 DEF WsInv, WsPlaced
  <1>3. CASE key \in DOMAIN wsCache /\ ~WsExpired(key)
    <2>1. /\ wsAt' = [wsAt EXCEPT ![c] = "done"] /\ wsAnswer' = [wsAnswer EXCEPT ![c] = "cached"]
          /\ wsAge' = [wsAge EXCEPT ![c] = wsCache[key]] /\ UNCHANGED <<wsQueue, wsCache>>
      BY <1>3 DEF WsBegin, WsEnds
    <2>2. PICK d \in WsSearch : wsAnswer[d] = "found" /\ wsQuery[d] = key /\ wsAge[d] = wsCache[key]
      BY <1>3 DEF WsInv, WsCacheSound
    <2>3. d # c /\ wsCache[key] \in Nat
      BY <1>0, <1>2, <2>2
    <2> HIDE DEF key
    <2>4. WsTypeOK'
      BY <1>0, <2>1, <2>3 DEF WsInv, WsTypeOK
    <2>5. (\A e \in WsSearch : WsPlaced(e))'
      BY <1>0, <1>2, <2>1, WsAssumption DEF WsInv, WsPlaced
    <2>6. WsQueued'
      BY <1>0, <2>1, WsQueueStays
    <2>7. WsCacheSound'
      <3>1. \A e \in WsSearch \ {c} : wsAnswer'[e] = wsAnswer[e] /\ wsAge'[e] = wsAge[e]
        BY <1>0, <2>1
      <3>2. wsAnswer'[c] = "cached" /\ wsAge'[c] = wsCache[key]
        BY <1>0, <2>1
      <3>3. ASSUME NEW e \in WsSearch, wsAnswer'[e] = "cached"
            PROVE  \E f \in WsSearch : wsAnswer'[f] = "found" /\ wsQuery'[f] = wsQuery'[e] /\ wsAge'[f] = wsAge'[e]
        <4>1. CASE e = c
          BY <1>0, <2>2, <2>3, <3>1, <3>2, <4>1 DEF key
        <4>2. CASE e # c
          <5>1. PICK f \in WsSearch : wsAnswer[f] = "found" /\ wsQuery[f] = wsQuery[e] /\ wsAge[f] = wsAge[e]
            BY <3>1, <3>3, <4>2 DEF WsInv, WsCacheSound
          <5>2. f # c
            BY <1>2, <5>1
          <5> QED
            BY <1>0, <3>1, <4>2, <5>1, <5>2
        <4> QED
          BY <4>1, <4>2
      <3>4. ASSUME NEW k \in DOMAIN wsCache'
            PROVE  \E f \in WsSearch : wsAnswer'[f] = "found" /\ wsQuery'[f] = k /\ wsAge'[f] = wsCache'[k]
        <4>1. PICK f \in WsSearch : wsAnswer[f] = "found" /\ wsQuery[f] = k /\ wsAge[f] = wsCache[k]
          BY <2>1, <3>4 DEF WsInv, WsCacheSound
        <4>2. f # c
          BY <1>2, <4>1
        <4> QED
          BY <1>0, <2>1, <3>1, <4>1, <4>2
      <3> QED
        BY <3>3, <3>4 DEF WsCacheSound
    <2> QED
      BY <1>1, <2>4, <2>5, <2>6, <2>7 DEF WsInv
  <1>4. CASE ~(key \in DOMAIN wsCache /\ ~WsExpired(key))
    <2>1. /\ wsAt' = [wsAt EXCEPT ![c] = "waiting"] /\ wsQueue' = Append(wsQueue, c)
          /\ wsCache' = WsWithout(key) /\ UNCHANGED <<wsAnswer, wsAge>>
      BY <1>4 DEF WsBegin
    <2>2. DOMAIN wsCache' \subseteq DOMAIN wsCache /\ \A k \in DOMAIN wsCache' : wsCache'[k] = wsCache[k]
      BY <2>1 DEF WsWithout
    <2> HIDE DEF key
    <2>3. /\ Len(wsQueue) \in Nat /\ wsQueue' \in Seq(WsSearch) /\ Len(wsQueue') = Len(wsQueue) + 1
          /\ wsQueue'[Len(wsQueue) + 1] = c /\ \A i \in 1..Len(wsQueue) : wsQueue'[i] = wsQueue[i]
      BY <1>0, <2>1
    <2>4. WsTypeOK'
      BY <1>0, <2>1, <2>2, <2>3 DEF WsInv, WsTypeOK
    <2>5. (\A e \in WsSearch : WsPlaced(e))'
      BY <1>0, <1>2, <2>1, WsAssumption DEF WsInv, WsPlaced
    <2>6. WsQueued'
      <3>0. WsQueued /\ wsAt'[c] = "waiting" /\ \A e \in WsSearch \ {c} : wsAt'[e] = wsAt[e]
        BY <1>0, <2>1 DEF WsInv
      <3>1. \A i \in 1..Len(wsQueue) : wsQueue[i] # c
        BY <1>0, <3>0 DEF WsQueued
      <3>2. \A i \in 1..Len(wsQueue') : i = Len(wsQueue) + 1 \/ i \in 1..Len(wsQueue)
        BY <2>3
      <3>3. ASSUME NEW e \in WsSearch, wsAt'[e] = "waiting"
            PROVE  \E i \in 1..Len(wsQueue') : wsQueue'[i] = e
        <4>1. CASE e = c
          BY <2>3, <4>1
        <4>2. CASE e # c
          <5>1. PICK i \in 1..Len(wsQueue) : wsQueue[i] = e
            BY <3>0, <3>3, <4>2 DEF WsQueued
          <5> QED
            BY <2>3, <5>1
        <4> QED
          BY <4>1, <4>2
      <3>4. ASSUME NEW e \in WsSearch, NEW i \in 1..Len(wsQueue'), wsQueue'[i] = e
            PROVE  wsAt'[e] = "waiting"
        BY <2>3, <3>0, <3>2, <3>4 DEF WsQueued
      <3>5. ASSUME NEW i \in 1..Len(wsQueue'), NEW j \in 1..Len(wsQueue'), wsQueue'[i] = wsQueue'[j]
            PROVE  i = j
        BY <2>3, <3>0, <3>1, <3>2, <3>5 DEF WsQueued
      <3> QED
        BY <3>3, <3>4, <3>5 DEF WsQueued
    <2>7. WsCacheSound'
      BY <1>0, <2>1, <2>2 DEF WsInv, WsCacheSound
    <2> QED
      BY <1>1, <2>4, <2>5, <2>6, <2>7 DEF WsInv
  <1> QED
    BY <1>3, <1>4

\* An answer that is found is kept; a failure is tried again while attempts are left.
LEMMA WsAskHolds ==
  ASSUME WsInv, NEW c \in WsSearch, NEW outcome \in {"found", "refused", "fails"}, WsAsk(c, outcome)
  PROVE  WsInv'
  <1>0. /\ wsAt[c] = "asking" /\ wsNow \in Nat /\ WsAttempts \in Nat
        /\ wsAt \in [WsSearch -> {"idle", "waiting", "asking", "backoff", "done"}]
        /\ wsAnswer \in [WsSearch -> {"none", "cached", "found", "refused", "fails"}]
        /\ wsAge \in [WsSearch -> Nat] /\ wsAsked \in [WsSearch -> Nat] /\ wsQuery \in [WsSearch -> WsQuery]
        /\ DOMAIN wsCache \subseteq WsQuery
        /\ UNCHANGED <<wsNow, wsQuery, wsQueue, wsTokens, wsRefilled, wsTaken>>
    BY WsAssumption DEF WsInv, WsTypeOK, WsAsk
  <1>1. WsSpent' /\ WsRate'
    BY <1>0, WsBucketStays
  <1>2. wsAnswer[c] = "none" /\ wsAsked[c] < WsAttempts
    BY <1>0 DEF WsInv, WsPlaced
  <1>3. wsAsked' = [wsAsked EXCEPT ![c] = wsAsked[c] + 1] /\ wsAsked[c] + 1 \in Nat
    BY <1>0 DEF WsAsk
  <1>4. CASE outcome = "found"
    <2>1. /\ wsAt' = [wsAt EXCEPT ![c] = "done"] /\ wsAnswer' = [wsAnswer EXCEPT ![c] = "found"]
          /\ wsAge' = [wsAge EXCEPT ![c] = wsNow]
          /\ wsCache' = [k \in DOMAIN wsCache \cup {wsQuery[c]} |-> IF k = wsQuery[c] THEN wsNow ELSE wsCache[k]]
      BY <1>4 DEF WsAsk, WsEnds, WsMayRetry
    <2>2. WsTypeOK'
      BY <1>0, <1>3, <2>1 DEF WsInv, WsTypeOK
    <2>3. (\A e \in WsSearch : WsPlaced(e))'
      BY <1>0, <1>2, <1>3, <2>1 DEF WsInv, WsPlaced
    <2>4. WsQueued'
      BY <1>0, <2>1, WsQueueStays
    <2>5. WsCacheSound'
      <3>1. \A e \in WsSearch \ {c} : wsAnswer'[e] = wsAnswer[e] /\ wsAge'[e] = wsAge[e]
        BY <1>0, <2>1
      <3>2. wsAnswer'[c] = "found" /\ wsAge'[c] = wsNow
        BY <1>0, <2>1
      <3>3. ASSUME NEW e \in WsSearch, wsAnswer'[e] = "cached"
            PROVE  \E f \in WsSearch : wsAnswer'[f] = "found" /\ wsQuery'[f] = wsQuery'[e] /\ wsAge'[f] = wsAge'[e]
        <4>1. e # c
          BY <3>2, <3>3
        <4>2. PICK f \in WsSearch : wsAnswer[f] = "found" /\ wsQuery[f] = wsQuery[e] /\ wsAge[f] = wsAge[e]
          BY <3>1, <3>3, <4>1 DEF WsInv, WsCacheSound
        <4>3. f # c
          BY <1>2, <4>2
        <4> QED
          BY <1>0, <3>1, <4>1, <4>2, <4>3
      <3>4. ASSUME NEW k \in DOMAIN wsCache'
            PROVE  \E f \in WsSearch : wsAnswer'[f] = "found" /\ wsQuery'[f] = k /\ wsAge'[f] = wsCache'[k]
        <4>1. CASE k = wsQuery[c]
          BY <1>0, <2>1, <3>2, <4>1
        <4>2. CASE k # wsQuery[c]
          <5>1. PICK f \in WsSearch : wsAnswer[f] = "found" /\ wsQuery[f] = k /\ wsAge[f] = wsCache[k]
            BY <2>1, <3>4, <4>2 DEF WsInv, WsCacheSound
          <5>2. f # c
            BY <1>2, <5>1
          <5>3. wsCache'[k] = wsCache[k]
            BY <2>1, <4>2
          <5> QED
            BY <1>0, <3>1, <5>1, <5>2, <5>3
        <4> QED
          BY <4>1, <4>2
      <3> QED
        BY <3>3, <3>4 DEF WsCacheSound
    <2> QED
      BY <1>1, <2>2, <2>3, <2>4, <2>5 DEF WsInv
  <1>5. CASE outcome # "found"
    <2>1. CASE WsMayRetry(c, outcome)
      <3>1. wsAt' = [wsAt EXCEPT ![c] = "backoff"] /\ UNCHANGED <<wsAnswer, wsAge, wsCache>>
        BY <1>5, <2>1 DEF WsAsk
      <3>2. WsTypeOK'
        BY <1>0, <1>3, <3>1 DEF WsInv, WsTypeOK
      <3>3. wsAsked[c] + 1 < WsAttempts
        BY <2>1 DEF WsMayRetry
      <3>4. (\A e \in WsSearch : WsPlaced(e))'
        BY <1>0, <1>2, <1>3, <3>1, <3>3 DEF WsInv, WsPlaced
      <3>5. WsQueued'
        BY <1>0, <3>1, WsQueueStays
      <3>6. WsCacheSound'
        BY <1>0, <3>1 DEF WsInv, WsCacheSound
      <3> QED
        BY <1>1, <3>2, <3>4, <3>5, <3>6 DEF WsInv
    <2>2. CASE ~WsMayRetry(c, outcome)
      <3>1. /\ wsAt' = [wsAt EXCEPT ![c] = "done"] /\ wsAnswer' = [wsAnswer EXCEPT ![c] = outcome]
            /\ UNCHANGED <<wsAge, wsCache>>
        BY <1>5, <2>2 DEF WsAsk, WsEnds
      <3>2. WsTypeOK'
        BY <1>0, <1>3, <3>1 DEF WsInv, WsTypeOK
      <3>3. outcome = "fails" => wsAsked[c] + 1 = WsAttempts
        BY <1>0, <1>2, <2>2 DEF WsMayRetry
      <3>4. (\A e \in WsSearch : WsPlaced(e))'
        BY <1>0, <1>2, <1>3, <1>5, <3>1, <3>3 DEF WsInv, WsPlaced
      <3>5. WsQueued'
        BY <1>0, <3>1, WsQueueStays
      <3>6. WsCacheSound'
        <4>1. /\ \A e \in WsSearch \ {c} : wsAnswer'[e] = wsAnswer[e]
              /\ wsAnswer'[c] \notin {"found", "cached"} /\ wsAnswer[c] \notin {"found", "cached"}
          BY <1>0, <1>2, <1>5, <3>1
        <4> QED
          BY <1>0, <3>1, <4>1 DEF WsInv, WsCacheSound
      <3> QED
        BY <1>1, <3>2, <3>4, <3>5, <3>6 DEF WsInv
    <2> QED
      BY <2>1, <2>2
  <1> QED
    BY <1>4, <1>5

\* A search that backed off asks again.
LEMMA WsRetryHolds ==
  ASSUME WsInv, NEW c \in WsSearch, WsRetry(c)
  PROVE  WsInv'
  <1>0. /\ wsAt[c] = "backoff" /\ wsAt' = [wsAt EXCEPT ![c] = "asking"]
        /\ UNCHANGED <<wsNow, wsQuery, wsAsked, wsAnswer, wsAge, wsQueue, wsTokens, wsRefilled, wsTaken, wsCache>>
    BY DEF WsRetry
  <1>1. WsTypeOK'
    BY <1>0 DEF WsInv, WsTypeOK
  <1>2. (\A e \in WsSearch : WsPlaced(e))'
    BY <1>0 DEF WsInv, WsTypeOK, WsPlaced
  <1>3. WsQueued'
    BY <1>0, WsQueueStays
  <1>4. WsCacheSound'
    BY <1>0 DEF WsInv, WsCacheSound
  <1> QED
    BY <1>0, <1>1, <1>2, <1>3, <1>4, WsBucketStays DEF WsInv

\* The cache is cleared, in part or in full.
LEMMA WsClearHolds ==
  ASSUME WsInv, NEW keys, WsClear(keys)
  PROVE  WsInv'
  <1>0. /\ DOMAIN wsCache' \subseteq DOMAIN wsCache /\ \A k \in DOMAIN wsCache' : wsCache'[k] = wsCache[k]
        /\ UNCHANGED <<wsNow, wsAt, wsQuery, wsAsked, wsAnswer, wsAge, wsQueue, wsTokens, wsRefilled, wsTaken>>
    BY DEF WsClear
  <1>1. WsTypeOK'
    BY <1>0 DEF WsInv, WsTypeOK
  <1>2. (\A e \in WsSearch : WsPlaced(e))' /\ WsQueued'
    BY <1>0 DEF WsInv, WsPlaced, WsQueued
  <1>3. WsCacheSound'
    BY <1>0 DEF WsInv, WsCacheSound
  <1> QED
    BY <1>0, <1>1, <1>2, <1>3, WsBucketStays DEF WsInv

\* Every step of the searches keeps the invariant.
LEMMA WsHolds == WsInv /\ [WsNext]_wsVars => WsInv'
  <1> SUFFICES ASSUME WsInv, [WsNext]_wsVars PROVE WsInv'
    OBVIOUS
  <1>1. CASE WsGoesOn
    BY <1>1, WsTickHolds, WsRefillHolds, WsAcquireHolds, WsRetryHolds, WsAskHolds DEF WsGoesOn, WsStep
  <1>2. CASE \E c \in WsSearch : WsBegin(c)
    BY <1>2, WsBeginHolds
  <1>3. CASE \E keys \in SUBSET WsQuery : WsClear(keys)
    BY <1>3, WsClearHolds
  <1>4. CASE UNCHANGED wsVars
    <2>1. UNCHANGED <<wsNow, wsAt, wsQuery, wsAsked, wsAnswer, wsAge, wsQueue, wsTokens, wsRefilled, wsTaken, wsCache>>
      BY <1>4 DEF wsVars
    <2>2. WsTypeOK' /\ (\A e \in WsSearch : WsPlaced(e))'
      BY <2>1 DEF WsInv, WsTypeOK, WsPlaced
    <2>3. WsQueued' /\ WsCacheSound'
      BY <2>1 DEF WsInv, WsQueued, WsCacheSound
    <2> QED
      BY <2>1, <2>2, <2>3, WsBucketStays DEF WsInv
  <1> QED
    BY <1>1, <1>2, <1>3, <1>4 DEF WsNext

\* It says what the run checks.
LEMMA WsIsSound == WsInv => WsSound
  <1> SUFFICES ASSUME WsInv PROVE WsSound
    OBVIOUS
  <1>1. \A i, j : WsTakenIn(i, j) = Cardinality(WsWithin(i, j))
    BY DEF WsTakenIn, WsWithin
  <1>2. WsRateBounded
    BY <1>1, WsAssumption DEF WsInv, WsRate, WsRateBounded
  <1>3. WsRetriesSound
    <2> SUFFICES ASSUME NEW c \in WsSearch
                 PROVE  /\ wsAsked[c] <= WsAttempts
                        /\ wsAnswer[c] = "fails" => wsAsked[c] = WsAttempts
                        /\ wsAnswer[c] = "cached" => wsAsked[c] = 0
                        /\ wsAt[c] = "waiting" <=> \E i \in 1..Len(wsQueue) : wsQueue[i] = c
                        /\ \A i, j \in 1..Len(wsQueue) : wsQueue[i] = c /\ wsQueue[j] = c => i = j
      BY DEF WsRetriesSound
    <2>1. WsPlaced(c) /\ WsQueued
      BY DEF WsInv
    <2>2. wsAsked[c] \in Nat /\ WsAttempts \in Nat /\ wsAt[c] \in {"idle", "waiting", "asking", "backoff", "done"}
      BY WsAssumption DEF WsInv, WsTypeOK
    <2>3. wsAsked[c] <= WsAttempts
      BY <2>1, <2>2 DEF WsPlaced
    <2>4. wsAnswer[c] = "fails" => wsAsked[c] = WsAttempts
      BY <2>1, <2>2 DEF WsPlaced
    <2>5. wsAnswer[c] = "cached" => wsAsked[c] = 0
      BY <2>1, <2>2 DEF WsPlaced
    <2>6. wsAt[c] = "waiting" <=> \E i \in 1..Len(wsQueue) : wsQueue[i] = c
      BY <2>1 DEF WsQueued
    <2>7. \A i, j \in 1..Len(wsQueue) : wsQueue[i] = c /\ wsQueue[j] = c => i = j
      BY <2>1 DEF WsQueued
    <2> QED
      BY <2>3, <2>4, <2>5, <2>6, <2>7
  <1> QED
    BY <1>2, <1>3 DEF WsInv, WsSound

-----------------------------------------------------------------------------
\* Accounts, roles and keys.

\* A request that has registered an email.
AcHas(r, e) == acRegister[r].email = e /\ acRegister[r].at = "registered"

\* An account is that of one request, and no account that of none.
AcOwned ==
  \A e \in AcEmail :
    /\ acUser[e] = 0 => \A r \in AcRequest : ~AcHas(r, e)
    /\ acUser[e] # 0 => acUser[e] = 1 /\ \E r \in AcRequest : AcHas(r, e) /\ \A q \in AcRequest : AcHas(q, e) => q = r

\* What was answered to be revoked is no row any more.
AcGoneRows ==
  acAnswered.answer = "revoked" /\ acAnswered.permission \in AcPermission => acGranted[acAnswered.permission] = 0

\* Accounts, roles and keys: who owns an account, the rows that are gone for good, and
\* keys in their time.
AcInv == AcTypeOK /\ AcOwned /\ AcGoneRows /\ AcKeysExpire

\* It holds of an empty database.
LEMMA AcStart == AcInit => AcInv
  <1> SUFFICES ASSUME AcInit PROVE AcInv
    OBVIOUS
  <1> USE AcAssumption DEF AcInit
  <1>1. AcTypeOK
    <2>1. (CHOOSE e \in AcEmail : TRUE) \in AcEmail
      OBVIOUS
    <2> QED
      BY <2>1 DEF AcTypeOK, AcNever
  <1>2. AcOwned
    BY DEF AcOwned, AcHas
  <1>3. AcGoneRows
    BY DEF AcGoneRows
  <1>4. AcKeysExpire
    BY DEF AcKeysExpire, AcNever
  <1> QED
    BY <1>1, <1>2, <1>3, <1>4 DEF AcInv

\* Who owns an account depends on the accounts and on who has registered.
LEMMA AcSameOwners ==
  ASSUME AcOwned, acUser' = acUser, \A q \in AcRequest, f \in AcEmail : AcHas(q, f)' <=> AcHas(q, f)
  PROVE  AcOwned'
  <1> SUFFICES ASSUME NEW e \in AcEmail
               PROVE  /\ acUser[e] = 0 => \A r \in AcRequest : ~AcHas(r, e)'
                      /\ acUser[e] # 0 =>
                           acUser[e] = 1 /\ \E r \in AcRequest : AcHas(r, e)' /\ \A q \in AcRequest : AcHas(q, e)' => q = r
    BY DEF AcOwned
  <1>1. CASE acUser[e] = 0
    <2>1. \A r \in AcRequest : ~AcHas(r, e)
      BY <1>1 DEF AcOwned
    <2> QED
      BY <1>1, <2>1
  <1>2. CASE acUser[e] # 0
    <2>1. acUser[e] = 1 /\ \E r \in AcRequest : AcHas(r, e) /\ \A q \in AcRequest : AcHas(q, e) => q = r
      BY <1>2 DEF AcOwned
    <2>2. PICK r \in AcRequest : AcHas(r, e) /\ \A q \in AcRequest : AcHas(q, e) => q = r
      BY <2>1
    <2>3. AcHas(r, e)' /\ \A q \in AcRequest : AcHas(q, e)' => q = r
      BY <2>2
    <2> QED
      BY <1>2, <2>1, <2>3
  <1> QED
    BY <1>1, <1>2

\* Requests to register leave the rest as it is, and the rest leaves them.
LEMMA AcOwnedHolds == AcInv /\ [AcNext]_acVars => AcOwned'
  <1> SUFFICES ASSUME AcInv, [AcNext]_acVars PROVE AcOwned'
    OBVIOUS
  <1>0. /\ acUser \in [AcEmail -> Nat] /\ AcOwned
        /\ acRegister \in [AcRequest -> [email : AcEmail, at : {"idle", "refused", "found_none", "registered", "raised"}]]
    BY DEF AcInv, AcTypeOK
  <1>1. ASSUME NEW r \in AcRequest, AcCommit(r)
        PROVE  AcOwned'
    <2>1. PICK e \in AcEmail : e = acRegister[r].email
      BY <1>0
    <2>2. \A f \in AcEmail : ~AcHas(r, f)
      BY <1>1 DEF AcCommit, AcHas
    <2>3. \A q \in AcRequest \ {r}, f \in AcEmail : AcHas(q, f)' <=> AcHas(q, f)
      BY <1>0, <1>1 DEF AcCommit, AcHas
    <2>4. CASE acUser[e] = 0
      <3>1. acUser'[e] = 1 /\ \A f \in AcEmail \ {e} : acUser'[f] = acUser[f]
        BY <1>0, <1>1, <2>1, <2>4 DEF AcCommit, AcUnique
      <3>2. acRegister' = [acRegister EXCEPT ![r].at = "registered"]
        BY <1>1, <2>1, <2>4 DEF AcCommit, AcUnique
      <3>3. AcHas(r, e)' /\ \A f \in AcEmail \ {e} : ~AcHas(r, f)'
        BY <1>0, <2>1, <3>2 DEF AcHas
      <3>4. ASSUME NEW f \in AcEmail \ {e}
            PROVE  \A q \in AcRequest : AcHas(q, f)' <=> AcHas(q, f)
        BY <2>2, <2>3, <3>3
      <3>5. \A q \in AcRequest \ {r} : ~AcHas(q, e)'
        <4>1. \A q \in AcRequest : ~AcHas(q, e)
          BY <1>0, <2>4 DEF AcOwned
        <4> QED
          BY <2>3, <4>1
      <3> SUFFICES ASSUME NEW f \in AcEmail
                   PROVE  /\ acUser'[f] = 0 => \A q \in AcRequest : ~AcHas(q, f)'
                          /\ acUser'[f] # 0 =>
                               acUser'[f] = 1 /\ \E s \in AcRequest : AcHas(s, f)' /\ \A q \in AcRequest : AcHas(q, f)' => q = s
        BY DEF AcOwned
      <3>6. CASE f = e
        BY <3>1, <3>3, <3>5, <3>6
      <3>7. CASE f # e
        <4>1. CASE acUser[f] = 0
          <5>1. \A q \in AcRequest : ~AcHas(q, f)
            BY <1>0, <4>1 DEF AcOwned
          <5> QED
            BY <3>1, <3>4, <3>7, <4>1, <5>1
        <4>2. CASE acUser[f] # 0
          <5>1. acUser[f] = 1 /\ \E s \in AcRequest : AcHas(s, f) /\ \A q \in AcRequest : AcHas(q, f) => q = s
            BY <1>0, <4>2 DEF AcOwned
          <5>2. PICK s \in AcRequest : AcHas(s, f) /\ \A q \in AcRequest : AcHas(q, f) => q = s
            BY <5>1
          <5>3. AcHas(s, f)' /\ \A q \in AcRequest : AcHas(q, f)' => q = s
            BY <3>4, <3>7, <5>2
          <5> QED
            BY <3>1, <3>7, <5>1, <5>3
        <4> QED
          BY <4>1, <4>2
      <3> QED
        BY <3>6, <3>7
    <2>5. CASE acUser[e] # 0
      <3>1. acUser' = acUser /\ acRegister' = [acRegister EXCEPT ![r].at = "raised"]
        BY <1>1, <2>1, <2>5 DEF AcCommit, AcUnique
      <3>2. \A f \in AcEmail : ~AcHas(r, f)'
        BY <1>0, <3>1 DEF AcHas
      <3>3. \A q \in AcRequest, f \in AcEmail : AcHas(q, f)' <=> AcHas(q, f)
        BY <2>2, <2>3, <3>2
      <3> QED
        BY <1>0, <3>1, <3>3, AcSameOwners
    <2> QED
      BY <2>4, <2>5
  <1>2. ASSUME NEW r \in AcRequest, NEW e \in AcEmail, AcBegin(r, e)
        PROVE  AcOwned'
    <2>1. acUser' = acUser /\ \A q \in AcRequest \ {r}, f \in AcEmail : AcHas(q, f)' <=> AcHas(q, f)
      BY <1>0, <1>2 DEF AcBegin, AcHas
    <2>2. \A f \in AcEmail : ~AcHas(r, f) /\ ~AcHas(r, f)'
      BY <1>0, <1>2 DEF AcBegin, AcHas
    <2>3. \A q \in AcRequest, f \in AcEmail : AcHas(q, f)' <=> AcHas(q, f)
      BY <2>1, <2>2
    <2> QED
      BY <1>0, <2>1, <2>3, AcSameOwners
  <1>3. CASE UNCHANGED <<acUser, acRegister>>
    <2>1. \A q \in AcRequest, f \in AcEmail : AcHas(q, f)' <=> AcHas(q, f)
      BY <1>3 DEF AcHas
    <2> QED
      BY <1>0, <1>3, <2>1, AcSameOwners
  <1> QED
    BY <1>1, <1>2, <1>3 DEF AcNext, acVars, AcAssign, AcRevokeRole, AcGrant, AcRevoke, AcVerifyKey, AcRevokeKey,
         AcCreateKey, AcTick

\* What was answered to be revoked stays out of the rows.
LEMMA AcGoneHolds == AcInv /\ [AcNext]_acVars => AcGoneRows'
  <1> SUFFICES ASSUME AcInv, [AcNext]_acVars PROVE AcGoneRows'
    OBVIOUS
  <1>0. acGranted \in [AcPermission -> Nat] /\ AcGoneRows
    BY AcAssumption DEF AcInv, AcTypeOK
  <1> USE <1>0 DEF AcGoneRows
  <1>1. ASSUME NEW r \in AcRole, AcAssign(r) \/ AcRevokeRole(r)
        PROVE  AcGoneRows'
    BY <1>1 DEF AcAssign, AcRevokeRole
  <1>2. ASSUME NEW p \in AcPermission, AcGrant(p)
        PROVE  AcGoneRows'
    BY <1>2 DEF AcGrant
  <1>3. ASSUME NEW p \in AcPermission, AcRevoke(p)
        PROVE  AcGoneRows'
    <2>1. CASE acGranted[p] = 1
      BY <1>3, <2>1 DEF AcRevoke
    <2>2. CASE acGranted[p] # 1
      BY <1>3, <2>2 DEF AcRevoke
    <2> QED
      BY <2>1, <2>2
  <1>4. CASE UNCHANGED <<acGranted, acAnswered>>
    BY <1>4
  <1> QED
    BY <1>1, <1>2, <1>3, <1>4 DEF AcNext, acVars, AcBegin, AcCommit, AcVerifyKey, AcRevokeKey, AcCreateKey, AcTick

\* No key is used after its time.
LEMMA AcKeysHold == AcInv /\ [AcNext]_acVars => AcKeysExpire'
  <1> SUFFICES ASSUME AcInv, [AcNext]_acVars PROVE AcKeysExpire'
    OBVIOUS
  <1> USE AcAssumption DEF AcInv, AcTypeOK, AcKeysExpire
  <1>1. ASSUME NEW k \in AcKey, NEW d \in {0, 1}, AcCreateKey(k, d)
        PROVE  AcKeysExpire'
    BY <1>1 DEF AcCreateKey, AcNever
  <1>2. ASSUME NEW k \in AcKey, AcVerifyKey(k)
        PROVE  AcKeysExpire'
    BY <1>2 DEF AcVerifyKey
  <1>3. ASSUME NEW k \in AcKey, AcRevokeKey(k)
        PROVE  AcKeysExpire'
    BY <1>3 DEF AcRevokeKey
  <1>4. CASE UNCHANGED acKeys
    BY <1>4
  <1> QED
    BY <1>1, <1>2, <1>3, <1>4 DEF AcNext, acVars, AcBegin, AcCommit, AcAssign, AcRevokeRole, AcGrant, AcRevoke, AcTick

\* The types are kept by every request.
LEMMA AcTypesHold == AcTypeOK /\ [AcNext]_acVars => AcTypeOK'
  <1> SUFFICES ASSUME AcTypeOK, [AcNext]_acVars PROVE AcTypeOK'
    OBVIOUS
  <1> USE AcAssumption DEF AcTypeOK
  <1>1. ASSUME NEW r \in AcRequest, AcCommit(r)
        PROVE  AcTypeOK'
    BY <1>1 DEF AcCommit, AcUnique
  <1>2. ASSUME NEW r \in AcRequest, NEW e \in AcEmail, AcBegin(r, e)
        PROVE  AcTypeOK'
    BY <1>2 DEF AcBegin
  <1>3. ASSUME NEW r \in AcRole, AcAssign(r)
        PROVE  AcTypeOK'
    BY <1>3 DEF AcAssign
  <1>4. ASSUME NEW r \in AcRole, AcRevokeRole(r)
        PROVE  AcTypeOK'
    BY <1>4 DEF AcRevokeRole
  <1>5. ASSUME NEW p \in AcPermission, AcGrant(p)
        PROVE  AcTypeOK'
    BY <1>5 DEF AcGrant
  <1>6. ASSUME NEW p \in AcPermission, AcRevoke(p)
        PROVE  AcTypeOK'
    BY <1>6 DEF AcRevoke
  <1>7. ASSUME NEW k \in AcKey, NEW d \in {0, 1}, AcCreateKey(k, d)
        PROVE  AcTypeOK'
    BY <1>7 DEF AcCreateKey, AcNever
  <1>8. ASSUME NEW k \in AcKey, AcVerifyKey(k)
        PROVE  AcTypeOK'
    BY <1>8 DEF AcVerifyKey
  <1>9. ASSUME NEW k \in AcKey, AcRevokeKey(k)
        PROVE  AcTypeOK'
    BY <1>9 DEF AcRevokeKey
  <1>10. CASE AcTick
    BY <1>10 DEF AcTick
  <1>11. CASE UNCHANGED acVars
    BY <1>11 DEF acVars
  <1> QED
    BY <1>1, <1>2, <1>3, <1>4, <1>5, <1>6, <1>7, <1>8, <1>9, <1>10, <1>11 DEF AcNext

\* The invariant is kept by every request.
LEMMA AcHolds == AcInv /\ [AcNext]_acVars => AcInv'
  BY AcTypesHold, AcOwnedHolds, AcGoneHolds, AcKeysHold DEF AcInv

\* It says what the run checks.
LEMMA AcIsSound == AcInv => AcSound
  <1> SUFFICES ASSUME AcInv PROVE AcSound
    OBVIOUS
  <1>1. ASSUME NEW e \in AcEmail
        PROVE  /\ acUser[e] = Cardinality({r \in AcRequest : acRegister[r].email = e /\ acRegister[r].at = "registered"})
               /\ acUser[e] <= 1
    <2> DEFINE S == {r \in AcRequest : acRegister[r].email = e /\ acRegister[r].at = "registered"}
    <2>0. /\ acUser[e] = 0 => S = {}
          /\ acUser[e] # 0 => acUser[e] = 1 /\ \E r \in AcRequest : S = {r}
      <3>1. ASSUME acUser[e] # 0 PROVE acUser[e] = 1 /\ \E r \in AcRequest : S = {r}
        <4>1. PICK r \in AcRequest : AcHas(r, e) /\ \A q \in AcRequest : AcHas(q, e) => q = r
          BY <3>1 DEF AcInv, AcOwned
        <4>2. S = {r}
          BY <4>1 DEF AcHas
        <4> QED
          BY <3>1, <4>2 DEF AcInv, AcOwned
      <3>2. acUser[e] = 0 => S = {}
        BY DEF AcInv, AcOwned, AcHas
      <3> QED
        BY <3>1, <3>2
    <2> HIDE DEF S
    <2>1. acUser[e] = Cardinality(S) /\ acUser[e] <= 1
      <3>1. CASE acUser[e] = 0
        BY <2>0, <3>1, FS_EmptySet
      <3>2. CASE acUser[e] # 0
        BY <2>0, <3>2, FS_Singleton
      <3> QED
        BY <3>1, <3>2
    <2> QED
      BY <2>1 DEF S
  <1>2. AcRevoked
    <2> SUFFICES ASSUME acAnswered.answer = "revoked", acAnswered.permission \in AcPermissions
                 PROVE  \E r \in AcRole : acRoles[r] > 0 /\ acAnswered.permission \in AcOf[r]
      BY DEF AcRevoked
    <2> DEFINE p == acAnswered.permission
    <2>1. p \in AcPermission => acGranted[p] = 0
      BY DEF AcInv, AcGoneRows
    <2>2. p \notin {q \in AcPermission : acGranted[q] > 0}
      BY <2>1
    <2>3. p \in UNION {AcOf[r] : r \in {q \in AcRole : acRoles[q] > 0}}
      BY <2>2 DEF AcPermissions
    <2> QED
      BY <2>3
  <1> QED
    BY <1>1, <1>2 DEF AcInv, AcSound, AcOneAccount

-----------------------------------------------------------------------------
\* The memory.

\* The memory: no entry is lost but to an earlier plan with the same id.
MeInv == MeTypeOK /\ MeKeptSound /\ MePlansKept

\* Where a string that is put together of two, with a character between them, has its
\* characters from.
LEMMA MeSpelled ==
  ASSUME NEW C, NEW s \in Seq(C), NEW p \in Seq(C), NEW w, NEW u \in Seq(C), Len(u) = 1, u[1] = w
  PROVE  /\ (s \o u) \o p \in Seq(C) /\ Len((s \o u) \o p) = Len(s) + 1 + Len(p)
         /\ \A i \in 1..Len(s) : ((s \o u) \o p)[i] = s[i]
         /\ ((s \o u) \o p)[Len(s) + 1] = w
         /\ \A j \in 1..Len(p) : ((s \o u) \o p)[Len(s) + 1 + j] = p[j]
  <1>0. Len(s) \in Nat /\ Len(p) \in Nat
    OBVIOUS
  <1> DEFINE h == s \o u
  <1>1. /\ h \in Seq(C) /\ Len(h) = Len(s) + 1
        /\ \A i \in 1..(Len(s) + 1) : h[i] = IF i <= Len(s) THEN s[i] ELSE u[i - Len(s)]
    BY ConcatProperties
  <1> HIDE DEF h
  <1>2. /\ h \o p \in Seq(C) /\ Len(h \o p) = Len(h) + Len(p)
        /\ \A i \in 1..(Len(h) + Len(p)) : (h \o p)[i] = IF i <= Len(h) THEN h[i] ELSE p[i - Len(h)]
    <2>1. h \in Seq(C)
      BY <1>1
    <2> QED
      BY <2>1, ConcatProperties
  <1>3. ASSUME NEW i \in 1..(Len(s) + 1) PROVE (h \o p)[i] = h[i]
    <2>1. i \in 1..(Len(h) + Len(p)) /\ i <= Len(h)
      BY <1>0, <1>1
    <2> QED
      BY <1>2, <2>1
  <1>4. ASSUME NEW j \in 1..Len(p) PROVE (h \o p)[Len(s) + 1 + j] = p[j]
    <2>1. Len(s) + 1 + j \in 1..(Len(h) + Len(p)) /\ ~(Len(s) + 1 + j <= Len(h)) /\ Len(s) + 1 + j - Len(h) = j
      BY <1>0, <1>1
    <2> QED
      BY <1>2, <2>1
  <1>5. Len(s) + 1 \in 1..(Len(s) + 1) /\ ~(Len(s) + 1 <= Len(s)) /\ Len(s) + 1 - Len(s) = 1
    BY <1>0
  <1>6. h[Len(s) + 1] = w
    BY <1>1, <1>5
  <1>7. \A i \in 1..Len(s) : i \in 1..(Len(s) + 1) /\ i <= Len(s)
    BY <1>0
  <1>8. \A i \in 1..Len(s) : h[i] = s[i]
    BY <1>1, <1>7
  <1>9. Len(h \o p) = Len(s) + 1 + Len(p)
    BY <1>1, <1>2
  <1>10. (h \o p)[Len(s) + 1] = w
    BY <1>3, <1>5, <1>6
  <1>11. \A i \in 1..Len(s) : (h \o p)[i] = s[i]
    BY <1>3, <1>7, <1>8
  <1> QED
    BY <1>2, <1>4, <1>9, <1>10, <1>11 DEF h

\* The id of a plan.
LEMMA MeIdSpelled ==
  ASSUME NEW s \in Seq(MeChar), NEW p \in Seq(MeChar)
  PROVE  /\ MeId(s, p) \in Seq(MeChar) /\ Len(MeId(s, p)) = Len(s) + 1 + Len(p)
         /\ \A i \in 1..Len(s) : MeId(s, p)[i] = s[i]
         /\ MeId(s, p)[Len(s) + 1] = MeMark
         /\ \A j \in 1..Len(p) : MeId(s, p)[Len(s) + 1 + j] = p[j]
  <1>1. <<MeMark>> \in Seq(MeChar) /\ Len(<<MeMark>>) = 1 /\ <<MeMark>>[1] = MeMark
    BY MeAssumption
  <1>2. MeId(s, p) = (s \o <<MeMark>>) \o p
    BY DEF MeId
  <1>3. /\ (s \o <<MeMark>>) \o p \in Seq(MeChar) /\ Len((s \o <<MeMark>>) \o p) = Len(s) + 1 + Len(p)
        /\ \A i \in 1..Len(s) : ((s \o <<MeMark>>) \o p)[i] = s[i]
        /\ ((s \o <<MeMark>>) \o p)[Len(s) + 1] = MeMark
        /\ \A j \in 1..Len(p) : ((s \o <<MeMark>>) \o p)[Len(s) + 1 + j] = p[j]
    <2> DEFINE u == <<MeMark>>
    <2>1. u \in Seq(MeChar) /\ Len(u) = 1 /\ u[1] = MeMark
      BY <1>1
    <2> HIDE DEF u
    <2>2. /\ (s \o u) \o p \in Seq(MeChar) /\ Len((s \o u) \o p) = Len(s) + 1 + Len(p)
          /\ \A i \in 1..Len(s) : ((s \o u) \o p)[i] = s[i]
          /\ ((s \o u) \o p)[Len(s) + 1] = MeMark
          /\ \A j \in 1..Len(p) : ((s \o u) \o p)[Len(s) + 1 + j] = p[j]
      BY <2>1, MeSpelled
    <2> QED
      BY <2>2 DEF u
  <1> QED
    BY <1>2, <1>3

\* Sessions have no "_" in their ids: the id of a plan of one cannot begin with a longer
\* one.
LEMMA MeNotLonger ==
  ASSUME NEW s \in MeSession, NEW t \in MeSession, NEW p \in Seq(MeChar), NEW q \in Seq(MeChar),
         MeId(s, p) = MeId(t, q)
  PROVE  ~(Len(s) < Len(t))
  <1> SUFFICES ASSUME Len(s) < Len(t) PROVE FALSE
    OBVIOUS
  <1>1. s \in Seq(MeChar) /\ t \in Seq(MeChar) /\ \A i \in 1..Len(t) : t[i] # MeMark
    BY MeAssumption
  <1>2. Len(s) + 1 \in 1..Len(t)
    BY <1>1
  <1>3. MeId(s, p)[Len(s) + 1] = MeMark /\ \A i \in 1..Len(t) : MeId(t, q)[i] = t[i]
    BY <1>1, MeIdSpelled
  <1>4. MeId(t, q)[Len(s) + 1] = t[Len(s) + 1]
    BY <1>2, <1>3
  <1> QED
    BY <1>1, <1>2, <1>3, <1>4

\* So the ids of the plans of sessions are as good as pairs.
LEMMA MeIdsOfSessions ==
  ASSUME NEW s \in MeSession, NEW t \in MeSession, NEW p \in Seq(MeChar), NEW q \in Seq(MeChar),
         MeId(s, p) = MeId(t, q)
  PROVE  s = t /\ p = q
  <1>1. s \in Seq(MeChar) /\ t \in Seq(MeChar) /\ Len(s) \in Nat /\ Len(t) \in Nat /\ Len(p) \in Nat /\ Len(q) \in Nat
    BY MeAssumption
  <1>2. Len(s) = Len(t)
    <2>1. ~(Len(s) < Len(t)) /\ ~(Len(t) < Len(s))
      BY MeNotLonger
    <2> QED
      BY <1>1, <2>1
  <1>3. Len(p) = Len(q)
    <2>1. Len(MeId(s, p)) = Len(s) + 1 + Len(p) /\ Len(MeId(t, q)) = Len(t) + 1 + Len(q)
      BY <1>1, MeIdSpelled
    <2>2. Len(s) + 1 + Len(p) = Len(t) + 1 + Len(q)
      BY <2>1
    <2> QED
      BY <1>1, <1>2, <2>2
  <1>4. /\ \A i \in 1..Len(s) : MeId(s, p)[i] = s[i]
        /\ \A i \in 1..Len(t) : MeId(t, q)[i] = t[i]
        /\ \A j \in 1..Len(p) : MeId(s, p)[Len(s) + 1 + j] = p[j]
        /\ \A j \in 1..Len(q) : MeId(t, q)[Len(t) + 1 + j] = q[j]
    BY <1>1, MeIdSpelled
  <1>5. \A i \in 1..Len(s) : s[i] = t[i]
    BY <1>2, <1>4
  <1>6. \A j \in 1..Len(p) : p[j] = q[j]
    BY <1>2, <1>3, <1>4
  <1> QED
    BY <1>1, <1>2, <1>3, <1>5, <1>6, SeqEqual

\* Two entries of sessions that have the same id are the same.
LEMMA MeSameOfSessions ==
  ASSUME NEW a \in MeEntry, NEW b \in MeEntry, MeSameId(a, b), a.session \in MeSession, b.session \in MeSession
  PROVE  a = b
  <1>1. a.plan \in Seq(MeChar) /\ b.plan \in Seq(MeChar)
    <2>1. a.plan \in MePlan \cup {<< >>} /\ b.plan \in MePlan \cup {<< >>}
      BY DEF MeEntry
    <2>2. << >> \in Seq(MeChar) /\ MePlan \subseteq Seq(MeChar)
      BY MeAssumption
    <2> QED
      BY <2>1, <2>2
  <1>2. a.session = b.session /\ a.plan = b.plan /\ a.kind = b.kind
    BY <1>1, MeIdsOfSessions DEF MeSameId
  <1> QED
    BY <1>2 DEF MeEntry

\* A plan that is lost, and the earlier one that has its id.
MeLost(earlier, lost) ==
  /\ MeSameId(earlier, lost)
  /\ earlier.session \in MeSession /\ lost.session \in MeSession => earlier = lost

\* It holds of an empty memory.
LEMMA MeStart == MeInit => MeInv
  <1> SUFFICES ASSUME MeInit PROVE MeInv
    OBVIOUS
  <1>0. /\ meMade = << >> /\ Len(meMade) = 0 /\ meGone = {} /\ meIgnored = {}
        /\ meKept = [k \in MeKind |-> {}]
    BY DEF MeInit
  <1>1. meMade \in Seq(MeEntry)
    BY <1>0
  <1>2. MeTypeOK
    BY <1>0, <1>1 DEF MeTypeOK
  <1>3. MeKeptSound
    BY <1>0 DEF MeKeptSound
  <1>4. MePlansKept
    BY <1>0 DEF MePlansKept, MeKind
  <1> QED
    BY <1>2, <1>3, <1>4 DEF MeInv

\* What is stored is kept with its kind, unless an earlier plan has its id.
LEMMA MeStoreHolds ==
  ASSUME MeInv, NEW kind \in MeKind, NEW session \in MeName, NEW plan \in MePlan, MeStore(kind, session, plan)
  PROVE  MeInv'
  <1> DEFINE entry == MeEntryOf(kind, session, IF kind = "plan" THEN plan ELSE << >>)
             n == Len(meMade) + 1
  <1>0. /\ meMade \in Seq(MeEntry) /\ Len(meMade) \in Nat /\ meKept \in [MeKind -> SUBSET (1..Len(meMade))]
        /\ meGone \subseteq 1..Len(meMade) /\ meIgnored \subseteq 1..Len(meMade)
        /\ entry \in MeEntry /\ entry.kind = kind
        /\ meMade' = Append(meMade, entry) /\ meGone' = meGone
    BY DEF MeInv, MeTypeOK, MeStore, MeEntry, MeEntryOf
  <1>1. IF MeTaken(entry) THEN meIgnored' = meIgnored \cup {n} /\ meKept' = meKept
        ELSE meKept' = [meKept EXCEPT ![kind] = meKept[kind] \cup {n}] /\ meIgnored' = meIgnored
    BY DEF MeStore
  <1> HIDE DEF entry
  <1>2. /\ meMade' \in Seq(MeEntry) /\ Len(meMade') = n /\ meMade'[n] = entry
        /\ \A m \in 1..Len(meMade) : meMade'[m] = meMade[m]
    BY <1>0
  <1>3. n \in Nat /\ n \notin 1..Len(meMade) /\ 1..n = 1..Len(meMade) \cup {n} /\ 1..Len(meMade') = 1..n
    BY <1>0, <1>2
  <1>4. MeKeptSound /\ MePlansKept
    BY DEF MeInv
  <1>5. \A k \in MeKind : meKept[k] \subseteq 1..Len(meMade)
    BY <1>0
  <1> HIDE DEF n
  <1>6. CASE MeTaken(entry)
    <2>1. meIgnored' = meIgnored \cup {n} /\ meKept' = meKept
      BY <1>1, <1>6
    <2>2. MeTypeOK'
      BY <1>0, <1>2, <1>3, <2>1 DEF MeTypeOK
    <2>3. MeKeptSound'
      <3>1. ASSUME NEW m \in 1..Len(meMade'), NEW k \in MeKind
            PROVE  m \in meKept'[k] <=> k = meMade'[m].kind /\ m \notin meGone' /\ m \notin meIgnored'
        <4>1. CASE m = n
          BY <1>3, <1>5, <2>1, <4>1
        <4>2. CASE m # n
          <5>1. m \in 1..Len(meMade)
            BY <1>3, <4>2
          <5> QED
            BY <1>0, <1>2, <1>4, <2>1, <4>2, <5>1 DEF MeKeptSound
        <4> QED
          BY <4>1, <4>2
      <3>2. meGone' \cap meIgnored' = {}
        BY <1>0, <1>3, <1>4, <2>1 DEF MeKeptSound
      <3> QED
        BY <1>0, <3>1, <3>2 DEF MeKeptSound
    <2>4. MePlansKept'
      <3>1. PICK e \in meKept["plan"] : MeSameId(meMade[e], entry)
        BY <1>6 DEF MeTaken
      <3>2. e \in 1..Len(meMade) /\ e \in 1..(n - 1)
        BY <1>5, <3>1 DEF MeKind, n
      <3>3. ASSUME NEW i \in meIgnored'
            PROVE  \E m \in 1..(i - 1) : MeLost(meMade'[m], meMade'[i])
        <4>1. CASE i = n
          <5>1. MeLost(meMade[e], entry)
            BY <1>0, <3>1, <3>2, MeSameOfSessions DEF MeLost
          <5> QED
            BY <1>2, <3>2, <4>1, <5>1
        <4>2. CASE i # n
          <5>1. i \in meIgnored /\ i \in 1..Len(meMade)
            BY <1>0, <2>1, <4>2
          <5>2. PICK m \in 1..(i - 1) : MeLost(meMade[m], meMade[i])
            BY <1>4, <5>1 DEF MePlansKept, MeLost
          <5>3. m \in 1..Len(meMade)
            BY <1>0, <5>1
          <5> QED
            BY <1>2, <5>1, <5>2, <5>3
        <4> QED
          BY <4>1, <4>2
      <3>4. \A i, m \in meKept'["plan"] : i # m => ~MeSameId(meMade'[i], meMade'[m])
        BY <1>2, <1>4, <1>5, <2>1 DEF MePlansKept, MeKind
      <3> QED
        BY <3>3, <3>4 DEF MePlansKept, MeLost
    <2> QED
      BY <2>2, <2>3, <2>4 DEF MeInv
  <1>7. CASE ~MeTaken(entry)
    <2>1. meKept' = [meKept EXCEPT ![kind] = meKept[kind] \cup {n}] /\ meIgnored' = meIgnored
      BY <1>1, <1>7
    <2>2. \A k \in MeKind : meKept'[k] = IF k = kind THEN meKept[k] \cup {n} ELSE meKept[k]
      BY <1>0, <2>1
    <2>3. MeTypeOK'
      BY <1>0, <1>2, <1>3, <2>1, <2>2 DEF MeTypeOK
    <2>4. MeKeptSound'
      <3>1. ASSUME NEW m \in 1..Len(meMade'), NEW k \in MeKind
            PROVE  m \in meKept'[k] <=> k = meMade'[m].kind /\ m \notin meGone' /\ m \notin meIgnored'
        <4>1. CASE m = n
          BY <1>0, <1>2, <1>3, <1>5, <2>1, <2>2, <4>1
        <4>2. CASE m # n
          <5>1. m \in 1..Len(meMade)
            BY <1>3, <4>2
          <5> QED
            BY <1>0, <1>2, <1>4, <2>1, <2>2, <4>2, <5>1 DEF MeKeptSound
        <4> QED
          BY <4>1, <4>2
      <3>2. meGone' \cap meIgnored' = {}
        BY <1>0, <1>4, <2>1 DEF MeKeptSound
      <3> QED
        BY <1>0, <3>1, <3>2 DEF MeKeptSound
    <2>5. MePlansKept'
      <3>1. ASSUME NEW i \in meIgnored'
            PROVE  \E m \in 1..(i - 1) : MeLost(meMade'[m], meMade'[i])
        <4>1. i \in meIgnored /\ i \in 1..Len(meMade)
          BY <1>0, <2>1
        <4>2. PICK m \in 1..(i - 1) : MeLost(meMade[m], meMade[i])
          BY <1>4, <4>1 DEF MePlansKept, MeLost
        <4>3. m \in 1..Len(meMade)
          BY <1>0, <4>1
        <4> QED
          BY <1>2, <4>1, <4>2, <4>3
      <3>2. ASSUME NEW i \in meKept["plan"], kind = "plan"
            PROVE  ~MeSameId(entry, meMade[i]) /\ ~MeSameId(meMade[i], entry)
        BY <1>7 DEF MeTaken, MeSameId
      <3>3. ASSUME NEW i \in meKept'["plan"], NEW m \in meKept'["plan"], i # m
            PROVE  ~MeSameId(meMade'[i], meMade'[m])
        <4>1. (i = n /\ kind = "plan") \/ i \in meKept["plan"]
          BY <2>2 DEF MeKind
        <4>2. (m = n /\ kind = "plan") \/ m \in meKept["plan"]
          BY <2>2 DEF MeKind
        <4>3. CASE i \in meKept["plan"] /\ m \in meKept["plan"]
          BY <1>2, <1>4, <1>5, <3>3, <4>3 DEF MePlansKept, MeKind
        <4>4. CASE i = n /\ kind = "plan" /\ m \in meKept["plan"]
          BY <1>2, <1>5, <3>2, <4>4 DEF MeKind
        <4>5. CASE m = n /\ kind = "plan" /\ i \in meKept["plan"]
          BY <1>2, <1>5, <3>2, <4>5 DEF MeKind
        <4> QED
          BY <3>3, <4>1, <4>2, <4>3, <4>4, <4>5
      <3> QED
        BY <3>1, <3>3 DEF MePlansKept, MeLost
    <2> QED
      BY <2>3, <2>4, <2>5 DEF MeInv
  <1> QED
    BY <1>6, <1>7

\* Entries are removed, of every kind some, and counted among those that are gone.
LEMMA MeRemoveHolds ==
  ASSUME MeInv, NEW gone \in [MeKind -> SUBSET (1..Len(meMade))], \A k \in MeKind : gone[k] \subseteq meKept[k],
         meKept' = [k \in MeKind |-> meKept[k] \ gone[k]],
         \A n : n \in meGone' <=> n \in meGone \/ \E k \in MeKind : n \in gone[k],
         UNCHANGED <<meMade, meIgnored>>
  PROVE  MeInv'
  <1>1. MeTypeOK /\ MeKeptSound /\ MePlansKept
    BY DEF MeInv
  <1>2. MeTypeOK'
    BY <1>1 DEF MeTypeOK
  <1>3. MeKeptSound'
    <2>1. ASSUME NEW n \in 1..Len(meMade), NEW k \in MeKind
          PROVE  n \in meKept'[k] <=> k = meMade[n].kind /\ n \notin meGone' /\ n \notin meIgnored
      <3>1. n \in meKept[k] <=> k = meMade[n].kind /\ n \notin meGone /\ n \notin meIgnored
        BY <1>1 DEF MeKeptSound
      <3>2. \A j \in MeKind : n \in gone[j] => j = meMade[n].kind
        BY <1>1 DEF MeKeptSound
      <3>3. n \in meKept'[k] <=> n \in meKept[k] /\ n \notin gone[k]
        OBVIOUS
      <3> QED
        BY <3>1, <3>2, <3>3
    <2>2. meGone' \cap meIgnored = {}
      <3> SUFFICES ASSUME NEW n \in meIgnored, NEW k \in MeKind, n \in gone[k] PROVE FALSE
        BY <1>1 DEF MeKeptSound
      <3>1. n \in 1..Len(meMade) /\ n \in meKept[k]
        BY <1>1 DEF MeTypeOK
      <3> QED
        BY <1>1, <3>1 DEF MeKeptSound
    <2> QED
      BY <2>1, <2>2 DEF MeKeptSound
  <1>4. MePlansKept'
    <2>1. "plan" \in MeKind /\ meKept'["plan"] \subseteq meKept["plan"]
      BY DEF MeKind
    <2> QED
      BY <1>1, <2>1 DEF MePlansKept
  <1> QED
    BY <1>2, <1>3, <1>4 DEF MeInv

\* One entry is deleted.
LEMMA MeDeleteHolds ==
  ASSUME MeInv, NEW kind \in MeKind, NEW n, MeDelete(kind, n)
  PROVE  MeInv'
  <1> DEFINE gone == [k \in MeKind |-> IF k = kind THEN {n} ELSE {}]
  <1>0. meKept \in [MeKind -> SUBSET (1..Len(meMade))]
    BY DEF MeInv, MeTypeOK
  <1>1. gone \in [MeKind -> SUBSET (1..Len(meMade))] /\ \A k \in MeKind : gone[k] \subseteq meKept[k]
    BY <1>0 DEF MeDelete
  <1>2. meKept' = [k \in MeKind |-> meKept[k] \ gone[k]]
    BY <1>0 DEF MeDelete
  <1>3. \A m : m \in meGone' <=> m \in meGone \/ \E k \in MeKind : m \in gone[k]
    BY DEF MeDelete
  <1>4. UNCHANGED <<meMade, meIgnored>>
    BY DEF MeDelete
  <1> HIDE DEF gone
  <1> QED
    BY <1>1, <1>2, <1>3, <1>4, MeRemoveHolds

\* A session is cleared, of each kind or of none that fails.
LEMMA MeClearHolds ==
  ASSUME MeInv, NEW session, NEW fails, MeClear(session, fails)
  PROVE  MeInv'
  <1> DEFINE gone == [k \in MeKind |-> IF k \in fails THEN {} ELSE MeOf(k, session)]
  <1>0. meKept \in [MeKind -> SUBSET (1..Len(meMade))]
    BY DEF MeInv, MeTypeOK
  <1>1. gone \in [MeKind -> SUBSET (1..Len(meMade))] /\ \A k \in MeKind : gone[k] \subseteq meKept[k]
    BY <1>0 DEF MeOf
  <1>2. meKept' = [k \in MeKind |-> meKept[k] \ gone[k]]
    BY <1>0 DEF MeClear
  <1>3. \A m : m \in meGone' <=> m \in meGone \/ \E k \in MeKind : m \in gone[k]
    BY DEF MeClear
  <1>4. UNCHANGED <<meMade, meIgnored>>
    BY DEF MeClear
  <1> HIDE DEF gone
  <1> QED
    BY <1>1, <1>2, <1>3, <1>4, MeRemoveHolds

\* Every operation of the memory keeps the invariant.
LEMMA MeHolds == MeInv /\ [MeNext]_meVars => MeInv'
  <1> SUFFICES ASSUME MeInv, [MeNext]_meVars PROVE MeInv'
    OBVIOUS
  <1>1. CASE UNCHANGED meVars
    BY <1>1 DEF meVars, MeInv, MeTypeOK, MeKeptSound, MePlansKept
  <1>2. CASE \E s \in MeName, p \in MePlan :
               (\E k \in MeKind : MeStore(k, s, p)) \/ (\E k \in {"conversation", "plan", "fix"} : MeRequestStore(k, s, p))
    BY <1>2, MeStoreHolds DEF MeRequestStore, MeKind
  <1>3. CASE (\E k \in MeKind, n \in 1..Len(meMade) : MeDelete(k, n))
             \/ \E s \in MeSession : \E fails \in {{}, {"code"}} : MeClear(s, fails)
    BY <1>3, MeDeleteHolds, MeClearHolds
  <1> QED
    BY <1>1, <1>2, <1>3 DEF MeNext

\* What is shown follows.
LEMMA MeIsSound == MeInv => MeSound
  <1> SUFFICES ASSUME MeInv PROVE MeSound
    OBVIOUS
  <1>1. MeTypeOK /\ MeKeptSound /\ MePlansKept
    BY DEF MeInv
  <1>2. ASSUME NEW s \in MeSession, NEW p \in MePlan, NEW n \in MeGetPlan(s, p), NEW m \in MeGetPlan(s, p)
        PROVE  n = m /\ (meMade[n].session \in MeSession => meMade[n].session = s /\ meMade[n].plan = p)
    <2>1. /\ n \in meKept["plan"] /\ MeSameId(meMade[n], MeEntryOf("plan", s, p))
          /\ m \in meKept["plan"] /\ MeSameId(meMade[m], MeEntryOf("plan", s, p))
      BY DEF MeGetPlan
    <2>2. n = m
      BY <1>1, <2>1 DEF MePlansKept, MeSameId
    <2>3. n \in 1..Len(meMade) /\ meMade[n] \in MeEntry
      BY <1>1, <2>1 DEF MeTypeOK, MeKind
    <2>4. MeEntryOf("plan", s, p) \in MeEntry /\ MeEntryOf("plan", s, p).session = s /\ MeEntryOf("plan", s, p).plan = p
      BY MeAssumption DEF MeEntryOf, MeEntry, MeKind
    <2>5. meMade[n].session \in MeSession => meMade[n] = MeEntryOf("plan", s, p)
      BY <2>1, <2>3, <2>4, MeSameOfSessions
    <2> QED
      BY <2>2, <2>4, <2>5
  <1>3. ASSUME NEW s \in MeSession, NEW n \in MeConversation(s) PROVE meMade[n].session = s
    BY DEF MeConversation, MeOf
  <1> QED
    BY <1>1, <1>2, <1>3 DEF MeSound, MeShownSound

-----------------------------------------------------------------------------
\* The components on their own.

\* No sandbox is lost but by a restart of the process or an allocation that raises,
\* whatever requests and clean-ups do (sandbox/docker.py).
THEOREM SandboxesAreKept == SbInit /\ [][SbNext]_sbVars => []SbNothingLost
  <1>1. SbInv => SbNothingLost
    BY DEF SbInv
  <1> QED
    BY <1>1, SbStart, SbHolds, PTL

\* The tables of sockets agree, nobody is dropped but for a message that cannot be
\* encoded, and messages are delivered, once and in order (streaming/ws_manager.py).
THEOREM StreamsAreSound == StInit /\ [][StNext]_stVars => []StSound
  BY StStart, StHolds, StIsSound, PTL

\* The user's change to a webhook wins over that of a delivery that left before it, and
\* each answer is counted (integrations/webhooks).
THEOREM WebhooksAreSound == WhInit /\ [][WhNext]_whVars => []WhSound
  <1>1. WhInv => WhSound
    BY DEF WhInv, WhSound
  <1> QED
    BY <1>1, WhStart, WhHolds, PTL

\* However the operations on plugins overlap, an enabled plugin with an instance is
\* initialized, unless it is being reloaded, and none is removed from under a plugin that
\* was registered on it (plugins/system/manager.py).  That what an enabled plugin needs is
\* enabled is not among it.
THEOREM PluginsAreSound == PlInit /\ [][PlNext]_plVars => []PlSound
  <1>1. PlInv => PlSound
    BY DEF PlInv
  <1> QED
    BY <1>1, PlStart, PlHolds, PTL

\* What serves has its secrets, its database and its collections and has asked the
\* services, nobody is waited for beyond the timeout, and the gate lets into production
\* nothing that it would not let into development, for every configuration there is
\* (init.py, security/deployment_gate.py).  Of the tables of the database it says nothing.
THEOREM StartsAreSound ==
  ASSUME NEW CONSTANT configs, configs \subseteq InConfig
  PROVE  InInit(configs) /\ [][InNext]_inVars => []InSound
  <1>1. InInit(configs) => InInv
    BY InStart
  <1> QED
    BY <1>1, InHolds, InIsSound, PTL

\* No minute has more requests than the limit, wherever it begins, and tokens are
\* accepted in their lifetime only.
THEOREM LimitsAreSound == RlInit /\ [][RlNext]_rlVars => []RlSound
  BY RlStart, RlHolds, RlIsSound, PTL

\* What is answered from the cache was found, retries end, and the bucket bounds what is
\* asked between any two ticks.
THEOREM SearchesAreSound == WsInit /\ [][WsNext]_wsVars => []WsSound
  BY WsStart, WsHolds, WsIsSound, PTL

\* One account for each email, no permission after it was revoked, no key after its time.
THEOREM AccessIsSound == AcInit /\ [][AcNext]_acVars => []AcSound
  BY AcStart, AcHolds, AcIsSound, PTL

\* No entry of the memory is lost, but to an earlier plan with the same id, which is of
\* the same session if both are sessions; and what is shown of a session is its own
\* (memory/chromadb.py).
THEOREM MemoriesAreSound == MeInit /\ [][MeNext]_meVars => []MeSound
  BY MeStart, MeHolds, MeIsSound, PTL

-----------------------------------------------------------------------------
\* The specification that the runs check: one component moves, the others rest.

\* The invariants of the components, whichever of them moves.
ServicesInv ==
  part \in Parts /\ SbInv /\ StInv /\ WhInv /\ PlInv /\ InInv /\ RlInv /\ WsInv /\ AcInv /\ MeInv

\* The configurations that the runs start from are configurations.
LEMMA ConfigsAreConfigs == MCConfigs \subseteq InConfig /\ {MCGood} \subseteq InConfig
  <1>1. MCGood \in InConfig
    BY DEF MCGood, InConfig
  <1>2. [MCGood EXCEPT !.production = TRUE] \in InConfig
    BY <1>1 DEF InConfig
  <1>3. ASSUME NEW c \in InConfig, NEW x \in MCVary(c) PROVE x \in InConfig
    <2>1. DOMAIN MCRanges = {"secret", "encryption", "session", "database", "redis", "chroma", "raises", "sandbox",
                             "cors", "rate", "hosts", "named", "generates"}
      BY DEF MCRanges
    <2>2. PICK f \in DOMAIN MCRanges : x \in {[c EXCEPT ![f] = v] : v \in MCRanges[f]}
      BY DEF MCVary
    <2>3. PICK v \in MCRanges[f] : x = [c EXCEPT ![f] = v]
      BY <2>2
    <2>4. CASE f = "secret"
      BY <2>3, <2>4 DEF MCRanges, InConfig
    <2>5. CASE f = "encryption"
      BY <2>3, <2>5 DEF MCRanges, InConfig
    <2>6. CASE f = "session"
      BY <2>3, <2>6 DEF MCRanges, InConfig
    <2>7. CASE f = "database"
      BY <2>3, <2>7 DEF MCRanges, InConfig
    <2>8. CASE f = "redis"
      BY <2>3, <2>8 DEF MCRanges, InConfig
    <2>9. CASE f = "chroma"
      BY <2>3, <2>9 DEF MCRanges, InConfig
    <2>10. CASE f = "raises"
      BY <2>3, <2>10 DEF MCRanges, InConfig
    <2>11. CASE f = "sandbox"
      BY <2>3, <2>11 DEF MCRanges, InConfig
    <2>12. CASE f = "cors"
      BY <2>3, <2>12 DEF MCRanges, InConfig
    <2>13. CASE f = "rate"
      BY <2>3, <2>13 DEF MCRanges, InConfig
    <2>14. CASE f = "hosts"
      BY <2>3, <2>14 DEF MCRanges, InConfig
    <2>15. CASE f = "named"
      BY <2>3, <2>15 DEF MCRanges, InConfig
    <2>16. CASE f = "generates"
      BY <2>3, <2>16 DEF MCRanges, InConfig
    <2> QED
      BY <2>1, <2>2, <2>4, <2>5, <2>6, <2>7, <2>8, <2>9, <2>10, <2>11, <2>12, <2>13, <2>14, <2>15, <2>16
  <1> QED
    BY <1>1, <1>2, <1>3 DEF MCConfigs

\* Each component starts with its invariant.
LEMMA ServicesStart == Init => ServicesInv
  <1> SUFFICES ASSUME Init PROVE ServicesInv
    OBVIOUS
  <1>1. part \in Parts /\ SbInit /\ StInit /\ WhInit /\ PlInit /\ RlInit /\ WsInit /\ AcInit /\ MeInit
    BY DEF Init
  <1>2. InInit(MCConfigs) \/ InInit({MCGood})
    BY DEF Init
  <1>3. InInv
    BY <1>2, ConfigsAreConfigs, InStart
  <1> QED
    BY <1>1, <1>3, SbStart, StStart, WhStart, PlStart, RlStart, WsStart, AcStart, MeStart DEF ServicesInv

\* A step is one of each component, or leaves it as it is.
LEMMA ServicesSteps ==
  ASSUME [Next]_vars
  PROVE  /\ part' = part
         /\ [SbNext]_sbVars /\ [StNext]_stVars /\ [WhNext]_whVars /\ [PlNext]_plVars /\ [InNext]_inVars
         /\ [RlNext]_rlVars /\ [WsNext]_wsVars /\ [AcNext]_acVars /\ [MeNext]_meVars
  BY DEF Next, vars

\* The invariants are kept.
LEMMA ServicesHold == ServicesInv /\ [Next]_vars => ServicesInv'
  <1> SUFFICES ASSUME ServicesInv, [Next]_vars PROVE ServicesInv'
    OBVIOUS
  <1>1. part' \in Parts
    BY ServicesSteps DEF ServicesInv
  <1>2. SbInv' /\ StInv' /\ WhInv' /\ PlInv' /\ InInv'
    BY ServicesSteps, SbHolds, StHolds, WhHolds, PlHolds, InHolds DEF ServicesInv
  <1>3. RlInv' /\ WsInv' /\ AcInv' /\ MeInv'
    BY ServicesSteps, RlHolds, WsHolds, AcHolds, MeHolds DEF ServicesInv
  <1> QED
    BY <1>1, <1>2, <1>3 DEF ServicesInv

\* In every state the variables of each component have their types.
THEOREM ServicesTyped == Spec => []TypeOK
  <1>1. ServicesInv => TypeOK
    <2> SUFFICES ASSUME ServicesInv PROVE TypeOK
      OBVIOUS
    <2>1. SbTypeOK /\ StTypeOK /\ WhTypeOK /\ PlTypeOK /\ InTypeOK /\ RlTypeOK /\ WsTypeOK /\ AcTypeOK /\ MeTypeOK
      BY DEF ServicesInv, SbInv, StInv, WhInv, PlInv, InInv, RlInv, WsInv, AcInv, MeInv
    <2>2. part \in Parts
      BY DEF ServicesInv
    <2> QED
      BY <2>1, <2>2 DEF Parts, TypeOK
  <1> QED
    BY <1>1, ServicesStart, ServicesHold, PTL DEF Spec

\* The tables of long-lived objects are sound: sandboxes accounted for, sockets and
\* messages in order, the user's webhooks, and no plugin removed from under another.
THEOREM TablesStaySound == Spec => []TablesSound
  <1>1. ServicesInv => TablesSound
    <2> SUFFICES ASSUME ServicesInv PROVE TablesSound
      OBVIOUS
    <2>1. SbNothingLost /\ WhSound /\ PlSound
      BY DEF ServicesInv, SbInv, WhInv, WhSound, PlInv
    <2>2. StSound
      BY StIsSound DEF ServicesInv
    <2> QED
      BY <2>1, <2>2 DEF TablesSound
  <1> QED
    BY <1>1, ServicesStart, ServicesHold, PTL DEF Spec

\* What is counted and checked over time is sound: starts, limits, searches.
THEOREM ClocksStaySound == Spec => []ClocksSound
  <1>1. ServicesInv => ClocksSound
    BY InIsSound, RlIsSound, WsIsSound DEF ServicesInv, ClocksSound
  <1> QED
    BY <1>1, ServicesStart, ServicesHold, PTL DEF Spec

\* What is stored for users is sound: accounts, roles, keys and the memory.
THEOREM RecordsStaySound == Spec => []RecordsSound
  <1>1. ServicesInv => RecordsSound
    BY AcIsSound, MeIsSound DEF ServicesInv, RecordsSound
  <1> QED
    BY <1>1, ServicesStart, ServicesHold, PTL DEF Spec
=============================================================================
