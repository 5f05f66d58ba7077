------------------------------- MODULE Streams ------------------------------
(***************************************************************************)
(* Websockets: the endpoint (api/ws.py) and the ConnectionManager that     *)
(* executions and the supervisor send their events through                 *)
(* (streaming/ws_manager.py).  Its lock is never held over an await, so    *)
(* nobody ever waits for it, and each section under it is part of a step.  *)
(***************************************************************************)
EXTENDS Naturals, Sequences, SequencesExt

CONSTANTS
  StSession,  \* sessions
  StSocket,   \* websockets, each of one handler
  StMessage,  \* 1, 2, ...: calls of send_to_session, in the order they are made
  StUser      \* users that have a token

ASSUME StAssumption == StMessage \subseteq Nat

VARIABLES
  stOwner,    \* the owner of each session, "nobody" for one without
  stSocket,   \* the sockets: new, rejected, open, closed by the peer, or over, its handler returned
  stList,     \* _connections: session to its sockets
  stOf,       \* _connection_sessions: socket to session
  stCall,     \* the calls: the sockets left, those that failed, the one that is drained
  stTo,       \* the sockets that each call set out to reach
  stGot       \* what was written to each socket, in order

stVars == <<stOwner, stSocket, stList, stOf, stCall, stTo, stGot>>

StNewCall(at, encodable, list) ==
  [at |-> at, encodable |-> encodable, left |-> list, failed |-> << >>, drains |-> << >>]

StNoCall == StNewCall("idle", TRUE, << >>)

StInit ==
  /\ stOwner \in [StSession -> StUser \cup {"nobody"}]
  /\ stSocket = [w \in StSocket |-> "new"]
  /\ stList = << >> /\ stOf = << >>
  /\ stCall = [k \in StMessage |-> StNoCall]
  /\ stTo = [k \in StMessage |-> << >>]
  /\ stGot = [w \in StSocket |-> << >>]

\* The event loop runs a call until what it wrote has to be drained: one that has only
\* begun, or whose last write failed, goes on at once.
StRuns(k) == stCall[k].at = "sending" /\ stCall[k].drains = << >>
StFree == \A k \in StMessage : ~StRuns(k)

\* authenticate_websocket, as the code that the socket is closed with: 1000 lets in.
StCloseCode(token, user, session) ==
  CASE token # "valid" -> 4001
    [] session \notin StSession -> 4004
    [] stOwner[session] \notin {user, "nobody"} -> 4003
    [] OTHER -> 1000

StRejected(w, token, user, session) ==
  /\ StFree
  /\ stSocket[w] = "new"
  /\ StCloseCode(token, user, session) # 1000
  /\ stSocket' = [stSocket EXCEPT ![w] = "rejected"]
  /\ UNCHANGED <<stOwner, stList, stOf, stCall, stTo, stGot>>

StConnect(w, token, user, session) ==
  /\ StFree
  /\ stSocket[w] = "new"
  /\ StCloseCode(token, user, session) = 1000
  /\ stSocket' = [stSocket EXCEPT ![w] = "open"]
  /\ stOf' = [x \in DOMAIN stOf \cup {w} |-> IF x = w THEN session ELSE stOf[x]]
  /\ stList' = [s \in DOMAIN stList \cup {session} |->
                  LET old == IF s \in DOMAIN stList THEN stList[s] ELSE << >> IN
                  IF s = session THEN Append(old, w) ELSE old]
  /\ UNCHANGED <<stOwner, stCall, stTo, stGot>>

\* The peer goes away; what is written from then on fails.
StClose(w) ==
  /\ StFree
  /\ stSocket[w] = "open"
  /\ stSocket' = [stSocket EXCEPT ![w] = "closed"]
  /\ UNCHANGED <<stOwner, stList, stOf, stCall, stTo, stGot>>

\* A list without a socket, which it has at most once.
StWithout(list, w) ==
  IF w \in ToSet(list) THEN RemoveAt(list, CHOOSE i \in DOMAIN list : list[i] = w) ELSE list

\* Mutant: the socket keeps its own entry.
StDisconnectHalf(w) ==
  /\ stList' = [s \in DOMAIN stList |-> StWithout(stList[s], w)]
  /\ UNCHANGED stOf

\* disconnect: the second one of a socket finds nothing.  A session without sockets
\* loses its entry.
StDisconnect(w) ==
  IF w \notin DOMAIN stOf THEN UNCHANGED <<stOf, stList>>
  ELSE LET s == stOf[w]
           rest == StWithout(stList[s], w)
           keep == IF rest = << >> THEN DOMAIN stList \ {s} ELSE DOMAIN stList
       IN
       /\ stOf' = [x \in DOMAIN stOf \ {w} |-> stOf[x]]
       /\ stList' = [t \in keep |-> IF t = s THEN rest ELSE stList[t]]

\* The handler receives that its socket is closed, or something that it cannot
\* handle, after which the socket is closed as well.
StHandlerEnds(w) ==
  /\ StFree
  /\ stSocket[w] \in {"open", "closed"}
  /\ StDisconnect(w)
  /\ stSocket' = [stSocket EXCEPT ![w] = "over"]
  /\ UNCHANGED <<stOwner, stCall, stTo, stGot>>

\* send_to_session: nothing for a session without an entry, or a copy of the list.
StSend(k, session, encodable) ==
  /\ StFree
  /\ stCall[k].at = "idle" /\ \A j \in StMessage : j < k => stCall[j].at # "idle"
  /\ IF session \notin DOMAIN stList
       THEN stCall' = [stCall EXCEPT ![k] = StNewCall("done", TRUE, << >>)] /\ UNCHANGED stTo
       ELSE /\ stCall' = [stCall EXCEPT ![k] = StNewCall("sending", encodable, stList[session])]
            /\ stTo' = [stTo EXCEPT ![k] = stList[session]]
  /\ UNCHANGED <<stOwner, stSocket, stList, stOf, stGot>>

\* Each call writes to a socket at most once.
StWroteBefore(i, j, got) == \A a, b \in 1..Len(got) : got[a] = i /\ got[b] = j => a < b

\* Who writes to a socket goes on when the socket is drained; those who wait for the
\* same one go on in the order in which they wrote.
StDrained(k) ==
  /\ \A j \in StMessage \ {k} : ~StRuns(j)
  /\ \A w \in StSocket, j \in StMessage \ {k} :
       stCall[k].drains = <<w>> /\ stCall[j].drains = <<w>> => StWroteBefore(k, j, stGot[w])

\* One turn of the loop over the copy.
StWrite(k) ==
  LET w == Head(stCall[k].left)
      works == stSocket[w] = "open" /\ stCall[k].encodable
  IN
  /\ stCall[k].at = "sending" /\ stCall[k].left # << >>
  /\ StDrained(k)
  /\ stCall' = [stCall EXCEPT ![k] = [stCall[k] EXCEPT !.left = Tail(@),
                                                       !.failed = IF works THEN @ ELSE Append(@, w),
                                                       !.drains = IF works THEN <<w>> ELSE << >>]]
  /\ stGot' = IF works THEN [stGot EXCEPT ![w] = Append(@, k)] ELSE stGot
  /\ UNCHANGED <<stOwner, stSocket, stList, stOf, stTo>>

\* After the loop, those that failed are disconnected one after the other, without
\* a suspension in between.  Their handlers are not told.
StCleanUp(k) ==
  /\ stCall[k].at = "sending" /\ stCall[k].left = << >> /\ stCall[k].failed # << >>
  /\ StDrained(k)
  /\ StDisconnect(Head(stCall[k].failed))
  /\ stCall' = [stCall EXCEPT ![k] = [stCall[k] EXCEPT !.failed = Tail(@), !.drains = << >>]]
  /\ UNCHANGED <<stOwner, stSocket, stTo, stGot>>

StReturn(k) ==
  /\ stCall[k].at = "sending" /\ stCall[k].left = << >> /\ stCall[k].failed = << >>
  /\ StDrained(k)
  /\ stCall' = [stCall EXCEPT ![k] = [stCall[k] EXCEPT !.at = "done", !.drains = << >>]]
  /\ UNCHANGED <<stOwner, stSocket, stList, stOf, stTo, stGot>>

StGoesOn == \/ \E w \in StSocket : stSocket[w] = "closed" /\ StHandlerEnds(w)
            \/ \E k \in StMessage : StWrite(k) \/ StCleanUp(k) \/ StReturn(k)

StNext ==
  \/ StGoesOn
  \/ \E w \in StSocket : StClose(w) \/ StHandlerEnds(w)
  \/ \E w \in StSocket, t \in {"valid", "refused"}, u \in StUser, s \in StSession \cup {"unknown"} :
       StRejected(w, t, u, s) \/ StConnect(w, t, u, s)
  \/ \E k \in StMessage, s \in StSession, b \in BOOLEAN : StSend(k, s, b)
-----------------------------------------------------------------------------
StCall == [at : {"idle", "sending", "done"}, encodable : BOOLEAN,
           left : Seq(StSocket), failed : Seq(StSocket), drains : Seq(StSocket)]

StTypeOK ==
  /\ stOwner \in [StSession -> StUser \cup {"nobody"}]
  /\ stSocket \in [StSocket -> {"new", "rejected", "open", "closed", "over"}]
  /\ DOMAIN stList \subseteq StSession /\ stList \in [DOMAIN stList -> Seq(StSocket)]
  /\ DOMAIN stOf \subseteq StSocket /\ stOf \in [DOMAIN stOf -> StSession]
  /\ stCall \in [StMessage -> StCall]
  /\ stTo \in [StMessage -> Seq(StSocket)] /\ stGot \in [StSocket -> Seq(StMessage)]

\* The two tables say the same, and there is no entry without sockets, whichever of
\* a handler and the calls that failed on a socket removes it first.
StTablesAgree ==
  /\ \A s \in DOMAIN stList : stList[s] # << >> /\ IsInjective(stList[s])
  /\ \A w \in StSocket, s \in StSession :
       (w \in DOMAIN stOf /\ stOf[w] = s) <=> (s \in DOMAIN stList /\ w \in ToSet(stList[s]))

\* A call reaches every socket that it set out to reach and that stayed open, once.
StDelivered ==
  \A k \in StMessage : stCall[k].at = "done" /\ stCall[k].encodable =>
    \A w \in ToSet(stTo[k]) :
      stSocket[w] = "open" =>
        \E i \in 1..Len(stGot[w]) : \A j \in 1..Len(stGot[w]) : stGot[w][j] = k <=> j = i

\* A socket is dropped while it is open only by a message that cannot be encoded.
StDropped ==
  \A w \in StSocket : stSocket[w] = "open" /\ w \notin DOMAIN stOf =>
    \E k \in StMessage : ~stCall[k].encodable /\ w \in ToSet(stTo[k])

\* Two messages reach a socket in the order in which they were sent, unless another
\* socket that the first one set out to reach was closed or dropped meanwhile: nobody
\* waits for that one, and the second message overtakes the first there.
StInOrder ==
  \A w \in StSocket : \A i, j \in 1..Len(stGot[w]) :
    i < j /\ stGot[w][i] > stGot[w][j] =>
      \E x \in ToSet(stTo[stGot[w][j]]) : stSocket[x] # "open" \/ x \notin ToSet(stTo[stGot[w][i]])

StSound == StTablesAgree /\ StDelivered /\ StDropped /\ StInOrder

\* A socket that was closed is forgotten.
StForgotten == \A w \in StSocket : stSocket[w] = "closed" ~> w \notin DOMAIN stOf
=============================================================================
