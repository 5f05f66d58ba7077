----------------------- MODULE ByokConnections_proofs -----------------------
(***************************************************************************)
(* Proofs about ByokConnections, for any number of connections, providers, *)
(* nicknames and keys, any limit, and any finite number of clients.        *)
(***************************************************************************)
EXTENDS ByokConnections, FiniteSetTheorems, TLAPS

Columns == {"provider", "nickname", "key", "isDefault", "status"}

\* What each operation writes: a request that loaded a row to change one column of it
\* writes no other.
Writes(op) ==
  CASE op = "update"      -> {"key", "status", "nickname"}
    [] op = "verify"      -> {"status"}
    [] op = "set_default" -> {"isDefault"}
    [] OTHER              -> {}

Updates(op, set) ==
  /\ DOMAIN set \subseteq Writes(op)
  /\ "key" \in DOMAIN set => set["key"] \in Key
  /\ "nickname" \in DOMAIN set => set["nickname"] \in Nickname \cup {NoNickname}
  /\ "isDefault" \in DOMAIN set => set["isDefault"] = TRUE
  /\ "status" \in DOMAIN set => set["status"] \in {"pending", "verified", "failed"}

ReqOK(r) ==
  /\ r.op = "create" => r.set \in Row /\ r.target = NoConnection /\ r.others = {}
  /\ r.op \in Op \ {"create"} => r.target \in Connection
  /\ r.op \in {"update", "verify", "set_default"} => Updates(r.op, r.set)
  /\ r.op # "set_default" => r.others = {}

TInv ==
  /\ TypeOK
  /\ req = [q \in Client |-> req[q]]
  /\ \A q \in Client : ReqOK(req[q])

\* The columns of a row, and that a row that is absent has none of them.
LEMMA RowColumns ==
  ASSUME NEW r \in Row
  PROVE  /\ r = [col \in Columns |-> r[col]] /\ DOMAIN r = Columns
         /\ r["provider"] \in Provider /\ r["nickname"] \in Nickname \cup {NoNickname}
         /\ r["key"] \in Key /\ r["isDefault"] \in BOOLEAN
         /\ r["status"] \in {"pending", "verified", "failed"}
         /\ r # Absent
  BY DEF Row, Columns, Absent

LEMMA RowOfColumns ==
  ASSUME NEW r, r = [col \in Columns |-> r[col]],
         r["provider"] \in Provider, r["nickname"] \in Nickname \cup {NoNickname},
         r["key"] \in Key, r["isDefault"] \in BOOLEAN,
         r["status"] \in {"pending", "verified", "failed"}
  PROVE  r \in Row
  BY DEF Row, Columns

LEMMA PresentRows ==
  ASSUME TypeOK
  PROVE  \A c \in Connection : c \in Present <=> row[c] \in Row
  BY RowColumns DEF TypeOK, Present

\* An UPDATE leaves a row, with what it does not set as it was.
LEMMA WrittenRow ==
  ASSUME TypeOK, NEW c \in Present, NEW op \in {"update", "verify", "set_default"}, NEW set, Updates(op, set)
  PROVE  /\ Written(c, set) \in Row
         /\ \A col \in Columns : Written(c, set)[col] = IF col \in DOMAIN set THEN set[col] ELSE row[c][col]
  <1> DEFINE w == Written(c, set)
  <1>1. row[c] \in Row
    BY PresentRows DEF Present
  <1>2. Writes(op) \subseteq Columns
    BY DEF Writes, Columns
  <1>3. w = [col \in Columns |-> IF col \in DOMAIN set THEN set[col] ELSE row[c][col]]
    <2>1. DOMAIN set \cup DOMAIN row[c] = Columns
      BY <1>1, <1>2, RowColumns DEF Updates
    <2> QED BY <2>1 DEF Written
  <1>4. /\ w = [col \in Columns |-> w[col]]
        /\ \A col \in Columns : w[col] = IF col \in DOMAIN set THEN set[col] ELSE row[c][col]
    BY <1>3
  <1> HIDE DEF w
  <1>5. w["provider"] \in Provider /\ w["nickname"] \in Nickname \cup {NoNickname} /\ w["key"] \in Key
        /\ w["isDefault"] \in BOOLEAN /\ w["status"] \in {"pending", "verified", "failed"}
    BY <1>1, <1>4, RowColumns DEF Updates, Columns, Writes
  <1> QED BY <1>4, <1>5, RowOfColumns DEF w

\* What a request that loaded c is going to write.
LEMMA DirtyColumns ==
  ASSUME NEW copy \in Row, NEW new \in Row, NEW op \in {"update", "verify", "set_default"},
         \A col \in Columns \ Writes(op) : new[col] = copy[col],
         op = "set_default" => new["isDefault"] = TRUE
  PROVE  Updates(op, Dirty(copy, new))
  <1> DEFINE set == Dirty(copy, new)
  <1>1. DOMAIN set = {col \in Columns : new[col] # copy[col]}
    BY RowColumns DEF Dirty
  <1>2. \A col \in DOMAIN set : set[col] = new[col]
    BY DEF Dirty
  <1>3. DOMAIN set \subseteq Writes(op)
    BY <1>1
  <1> HIDE DEF set
  <1>4. op # "set_default" => "isDefault" \notin DOMAIN set
    BY <1>3 DEF Writes
  <1>5. QED
    BY <1>2, <1>3, <1>4, RowColumns DEF Updates, set

\* One request changes, and the rows are what they were, or it is answered.
LEMMA RequestSet ==
  ASSUME TInv, NEW q \in Client, NEW r, req' = [req EXCEPT ![q] = r], ReqOK(r),
         r.op \in Op \cup {"idle"}, r.target \in Connection \cup {NoConnection}, r.others \subseteq Connection,
         row' \in [Connection -> Row \cup {Absent}]
  PROVE  TInv'
  <1>1. req' = [p \in Client |-> IF p = q THEN r ELSE req[p]]
    BY DEF TInv
  <1>2. req' = [p \in Client |-> req'[p]] /\ req'[q] = r /\ \A p \in Client \ {q} : req'[p] = req[p]
    BY <1>1
  <1>3. \A p \in Client : ReqOK(req'[p])
    BY <1>2 DEF TInv
  <1>4. TypeOK'
    BY <1>2 DEF TInv, TypeOK
  <1> QED BY <1>2, <1>3, <1>4 DEF TInv

LEMMA AnsweredOK ==
  ASSUME TInv, NEW q \in Client, Answered(q), row' \in [Connection -> Row \cup {Absent}]
  PROVE  TInv'
  <1>1. ReqOK(Idle) /\ Idle.op = "idle" /\ Idle.target = NoConnection /\ Idle.others = {}
    BY DEF Idle, Doing, ReqOK, Op
  <1> QED BY <1>1, RequestSet DEF Answered

\* What an operation may make of a row that it loaded.
Changes(op, c, new, others) ==
  /\ op \in {"update", "verify", "set_default"} /\ c \in Present /\ new \in Row
  /\ \A col \in Columns \ Writes(op) : new[col] = row[c][col]
  /\ op = "set_default" => new["isDefault"] = TRUE
  /\ others \subseteq Connection /\ (op # "set_default" => others = {})

LEMMA LoadOK ==
  ASSUME TInv, NEW q \in Client, NEW op, NEW c, NEW new, NEW others,
         Load(q, op, c, new, others), Changes(op, c, new, others)
  PROVE  TInv'
  <1> DEFINE r == Doing(op, c, Dirty(row[c], new), others)
  <1>1. row[c] \in Row /\ c \in Connection
    BY PresentRows DEF Present, TInv, Changes
  <1>2. Updates(op, Dirty(row[c], new))
    BY <1>1, DirtyColumns DEF Changes
  <1>3. r.op = op /\ r.target = c /\ r.set = Dirty(row[c], new) /\ r.others = others
    BY DEF Doing
  <1>4. req' = [req EXCEPT ![q] = r] /\ row' = row
    BY DEF Load
  <1> HIDE DEF r
  <1>5. ReqOK(r)
    BY <1>1, <1>2, <1>3 DEF ReqOK, Changes
  <1>6. op \in Op
    BY DEF Op, Changes
  <1> QED BY <1>1, <1>3, <1>4, <1>5, <1>6, RequestSet DEF TInv, TypeOK, Changes

LEMMA UpdateLoadOK ==
  ASSUME TInv, NEW q \in Client, NEW c \in Connection, UpdateLoad(q, c)
  PROVE  TInv'
  <1>1. PICK k \in Key \cup {NoKey}, n \in Nickname \cup {NoNickname} :
          Load(q, "update", c,
               [row[c] EXCEPT !.key = IF k = NoKey THEN @ ELSE k,
                              !.status = IF k = NoKey THEN @ ELSE "pending",
                              !.nickname = IF n = NoNickname THEN @ ELSE n], {})
    BY DEF UpdateLoad
  <1> DEFINE new == [row[c] EXCEPT !.key = IF k = NoKey THEN @ ELSE k,
                                   !.status = IF k = NoKey THEN @ ELSE "pending",
                                   !.nickname = IF n = NoNickname THEN @ ELSE n]
  <1>2. c \in Present /\ row[c] \in Row
    BY PresentRows DEF UpdateLoad, TInv
  <1>3. new \in Row /\ new.provider = row[c].provider /\ new.isDefault = row[c].isDefault
    BY <1>2 DEF Row
  <1> HIDE DEF new
  <1>4. Changes("update", c, new, {})
    BY <1>2, <1>3 DEF Columns, Writes, Changes
  <1>5. Load(q, "update", c, new, {})
    BY <1>1 DEF new
  <1> QED BY <1>4, <1>5, LoadOK

LEMMA VerifyLoadOK ==
  ASSUME TInv, NEW q \in Client, NEW c \in Connection, NEW accepted \in BOOLEAN, VerifyLoad(q, c, accepted)
  PROVE  TInv'
  <1> DEFINE new == [row[c] EXCEPT !.status = IF accepted THEN "verified" ELSE "failed"]
  <1>1. c \in Present /\ row[c] \in Row
    BY PresentRows DEF VerifyLoad, TInv
  <1>2. new \in Row /\ \A col \in Columns \ Writes("verify") : new[col] = row[c][col]
    BY <1>1 DEF Row, Columns, Writes
  <1>3. Load(q, "verify", c, new, {})
    BY DEF VerifyLoad
  <1> HIDE DEF new
  <1>4. Changes("verify", c, new, {})
    BY <1>1, <1>2 DEF Changes
  <1> QED BY <1>3, <1>4, LoadOK

LEMMA SetDefaultLoadOK ==
  ASSUME TInv, NEW q \in Client, NEW c \in Connection, SetDefaultLoad(q, c)
  PROVE  TInv'
  <1> DEFINE new == [row[c] EXCEPT !.isDefault = TRUE]
             others == Defaults(row[c].provider) \ {c}
  <1>1. c \in Present /\ row[c] \in Row
    BY PresentRows DEF SetDefaultLoad, TInv
  <1>2. /\ new \in Row /\ new["isDefault"] = TRUE
        /\ \A col \in Columns \ Writes("set_default") : new[col] = row[c][col]
    BY <1>1 DEF Row, Columns, Writes
  <1>3. Load(q, "set_default", c, new, others)
    BY DEF SetDefaultLoad
  <1>4. others \in SUBSET Connection
    BY DEF Defaults, Present
  <1> HIDE DEF new, others
  <1>5. Changes("set_default", c, new, others)
    BY <1>1, <1>2, <1>4 DEF Changes
  <1> QED BY <1>3, <1>5, LoadOK

LEMMA DeleteLoadOK ==
  ASSUME TInv, NEW q \in Client, NEW c \in Connection, DeleteLoad(q, c)
  PROVE  TInv'
  <1> DEFINE r == Doing("delete", c, Dirty(row[c], row[c]), {})
  <1>1. req' = [req EXCEPT ![q] = r] /\ row' = row
    BY DEF DeleteLoad, Load
  <1>2. r.op = "delete" /\ r.target = c /\ r.others = {}
    BY DEF Doing
  <1> HIDE DEF r
  <1>3. ReqOK(r)
    BY <1>2 DEF ReqOK
  <1> QED BY <1>1, <1>2, <1>3, RequestSet DEF TInv, TypeOK, Op

LEMMA CreateLoadOK ==
  ASSUME TInv, NEW q \in Client, CreateLoad(q)
  PROVE  TInv'
  <1>1. PICK s \in Row : req' = [req EXCEPT ![q] = Doing("create", NoConnection, s, {})]
    BY DEF CreateLoad
  <1> DEFINE r == Doing("create", NoConnection, s, {})
  <1>2. r.op = "create" /\ r.target = NoConnection /\ r.set = s /\ r.others = {}
    BY DEF Doing
  <1>3. req' = [req EXCEPT ![q] = r] /\ row' = row
    BY <1>1 DEF CreateLoad
  <1> HIDE DEF r
  <1>4. ReqOK(r)
    BY <1>2 DEF ReqOK
  <1> QED BY <1>2, <1>3, <1>4, RequestSet DEF TInv, TypeOK, Op

LEMMA CreateCommitOK ==
  ASSUME TInv, NEW q \in Client, CreateCommit(q)
  PROVE  TInv'
  <1>1. req[q].set \in Row
    BY DEF CreateCommit, TInv, ReqOK
  <1>2. row' \in [Connection -> Row \cup {Absent}]
    BY <1>1 DEF CreateCommit, TInv, TypeOK
  <1> QED BY <1>2, AnsweredOK DEF CreateCommit

\* The row of each connection after an UPDATE that does not fail.
LEMMA UpdatedRows ==
  ASSUME TInv, NEW q \in Client, UpdateCommit(q), ~Fails(q)
  PROVE  LET c == req[q].target  others == req[q].others IN
         /\ c \in Present /\ others \subseteq Present
         /\ Updates(req[q].op, req[q].set)
         /\ row' \in [Connection -> Row \cup {Absent}]
         /\ row'[c] = Written(c, req[q].set) /\ row'[c] \in Row
         /\ \A d \in others \ {c} : row'[d] = [row[d] EXCEPT !.isDefault = FALSE] /\ row'[d] \in Row
         /\ \A d \in Connection \ (others \cup {c}) : row'[d] = row[d]
  <1> DEFINE c == req[q].target
             others == req[q].others
  <1>1. /\ req[q].op \in {"update", "verify", "set_default"}
        /\ row' = [d \in Connection |-> IF d = c THEN Written(d, req[q].set)
                                        ELSE IF d \in others THEN [row[d] EXCEPT !.isDefault = FALSE]
                                        ELSE row[d]]
    BY DEF UpdateCommit
  <1>2. c \in Present /\ others \subseteq Present /\ Present \subseteq Connection
    BY DEF Fails, Present
  <1>3. Updates(req[q].op, req[q].set)
    BY <1>1 DEF TInv, ReqOK
  <1> HIDE DEF c, others
  <1>4. Written(c, req[q].set) \in Row
    BY <1>1, <1>2, <1>3, WrittenRow DEF TInv
  <1>5. \A d \in others : row[d] \in Row /\ [row[d] EXCEPT !.isDefault = FALSE] \in Row
    BY <1>2, PresentRows DEF TInv, Row
  <1>6. \A d \in Connection : row[d] \in Row \cup {Absent}
    BY DEF TInv, TypeOK
  <1> QED BY <1>1, <1>2, <1>3, <1>4, <1>5, <1>6 DEF c, others

LEMMA UpdateCommitOK ==
  ASSUME TInv, NEW q \in Client, UpdateCommit(q)
  PROVE  TInv'
  <1>1. row' \in [Connection -> Row \cup {Absent}]
    <2>1. CASE Fails(q)
      BY <2>1 DEF UpdateCommit, TInv, TypeOK
    <2>2. CASE ~Fails(q)
      BY <2>2, UpdatedRows
    <2> QED BY <2>1, <2>2
  <1> QED BY <1>1, AnsweredOK DEF UpdateCommit

LEMMA DeleteCommitOK ==
  ASSUME TInv, NEW q \in Client, DeleteCommit(q)
  PROVE  TInv'
  <1>1. row' \in [Connection -> Row \cup {Absent}]
    BY DEF DeleteCommit, TInv, TypeOK
  <1> QED BY <1>1, AnsweredOK DEF DeleteCommit

LEMMA TInvInit == Init => TInv
  <1> SUFFICES ASSUME Init PROVE TInv
    OBVIOUS
  <1>1. \A q \in Client : req[q] = Idle
    BY DEF Init
  <1>2. Idle.op = "idle" /\ Idle.target = NoConnection /\ Idle.others = {}
    BY DEF Idle, Doing
  <1>3. \A q \in Client : ReqOK(req[q])
    BY <1>1, <1>2 DEF ReqOK, Op
  <1>4. TypeOK
    BY <1>1, <1>2 DEF Init, TypeOK
  <1> QED BY <1>3, <1>4 DEF TInv, Init

LEMMA TInvStep == TInv /\ [Next]_vars => TInv'
  <1> SUFFICES ASSUME TInv, [Next]_vars PROVE TInv'
    OBVIOUS
  <1>1. CASE UNCHANGED vars
    BY <1>1 DEF vars, TInv, TypeOK
  <1>2. ASSUME NEW q \in Client,
               \/ CreateLoad(q) \/ CreateCommit(q)
               \/ \E c \in Connection :
                    \/ UpdateLoad(q, c) \/ SetDefaultLoad(q, c) \/ DeleteLoad(q, c)
                    \/ \E accepted \in BOOLEAN : VerifyLoad(q, c, accepted)
               \/ UpdateCommit(q) \/ DeleteCommit(q)
        PROVE  TInv'
    BY <1>2, CreateLoadOK, CreateCommitOK, UpdateLoadOK, SetDefaultLoadOK, DeleteLoadOK, VerifyLoadOK,
       UpdateCommitOK, DeleteCommitOK
  <1> QED BY <1>1, <1>2 DEF Next

\* What is stored is a row or nothing, and no UPDATE brings a connection back that was
\* deleted meanwhile.
THEOREM TypeCorrect == Spec => []TypeOK
  <1>1. TInv => TypeOK
    BY DEF TInv
  <1> QED BY <1>1, TInvInit, TInvStep, PTL DEF Spec

(***************************************************************************)
(* What a step makes of the rows: nothing, a new row, one row written with *)
(* others cleared, or one row gone.                                        *)
(***************************************************************************)
Loads(q) ==
  CreateLoad(q) \/ \E c \in Connection : \/ UpdateLoad(q, c) \/ SetDefaultLoad(q, c) \/ DeleteLoad(q, c)
                                         \/ \E accepted \in BOOLEAN : VerifyLoad(q, c, accepted)

LEMMA StepCases ==
  ASSUME [Next]_vars
  PROVE  \/ UNCHANGED vars
         \/ \E q \in Client : Loads(q) \/ CreateCommit(q) \/ UpdateCommit(q) \/ DeleteCommit(q)
  BY DEF Next, Loads

LEMMA LoadsKeepRows == ASSUME NEW q \in Client, Loads(q) PROVE row' = row
  BY DEF Loads, CreateLoad, UpdateLoad, SetDefaultLoad, DeleteLoad, VerifyLoad, Load

\* A row is created where there was none, and its nickname is not taken.
LEMMA Created ==
  ASSUME TInv, NEW q \in Client, CreateCommit(q), row' # row
  PROVE  \E c \in Fresh :
           /\ c \in Connection \ Present
           /\ row'[c] = req[q].set /\ req[q].set \in Row
           /\ ~Taken(req[q].set.provider, req[q].set.nickname, NoConnection)
           /\ \A d \in Connection \ {c} : row'[d] = row[d]
           /\ Present' = Present \cup {c}
  <1>1. req[q].set \in Row /\ req[q].set # Absent
    BY RowColumns DEF CreateCommit, TInv, ReqOK
  <1>2. PICK c \in Fresh : row' = [row EXCEPT ![c] = req[q].set]
    BY DEF CreateCommit
  <1>3. c \in Connection \ Present
    BY DEF Fresh
  <1>4. row'[c] = req[q].set /\ \A d \in Connection \ {c} : row'[d] = row[d]
    BY <1>2, <1>3 DEF TInv, TypeOK
  <1>5. Present' = Present \cup {c}
    BY <1>1, <1>3, <1>4 DEF Present
  <1> QED BY <1>1, <1>3, <1>4, <1>5 DEF CreateCommit

LEMMA Deleted ==
  ASSUME TInv, NEW q \in Client, DeleteCommit(q)
  PROVE  /\ req[q].target \in Connection /\ row'[req[q].target] = Absent
         /\ \A d \in Connection \ {req[q].target} : row'[d] = row[d]
         /\ Present' = Present \ {req[q].target}
  <1>1. req[q].target \in Connection
    BY DEF DeleteCommit, TInv, ReqOK, Op
  <1>2. row'[req[q].target] = Absent /\ \A d \in Connection \ {req[q].target} : row'[d] = row[d]
    BY <1>1 DEF DeleteCommit, TInv, TypeOK
  <1> QED BY <1>1, <1>2 DEF Present

LEMMA UpdateKeepsPresent ==
  ASSUME TInv, NEW q \in Client, UpdateCommit(q)
  PROVE  Present' = Present
  <1>1. CASE Fails(q)
    BY <1>1 DEF UpdateCommit, Present
  <1>2. CASE ~Fails(q)
    <2> DEFINE c == req[q].target
               others == req[q].others
    <2>1. /\ c \in Present /\ others \subseteq Present
          /\ \A d \in others \cup {c} : row'[d] \in Row
          /\ \A d \in Connection \ (others \cup {c}) : row'[d] = row[d]
      BY <1>2, UpdatedRows
    <2>2. \A d \in others \cup {c} : row'[d] # Absent
      BY <2>1, RowColumns
    <2> HIDE DEF c, others
    <2> QED BY <2>1, <2>2 DEF Present
  <1> QED BY <1>1, <1>2

(***************************************************************************)
(* Nicknames                                                               *)
(***************************************************************************)
\* What an UPDATE makes of provider and nickname.
LEMMA UpdatedNames ==
  ASSUME TInv, NEW q \in Client, UpdateCommit(q), ~Fails(q), NEW d \in Present
  PROVE  /\ row'[d].provider = row[d].provider
         /\ row'[d].nickname = IF d = req[q].target THEN Written(d, req[q].set).nickname ELSE row[d].nickname
  <1> DEFINE c == req[q].target
             others == req[q].others
  <1>1. /\ c \in Present /\ Updates(req[q].op, req[q].set)
        /\ row'[c] = Written(c, req[q].set)
        /\ \A e \in others \ {c} : row'[e] = [row[e] EXCEPT !.isDefault = FALSE]
        /\ \A e \in Connection \ (others \cup {c}) : row'[e] = row[e]
    BY UpdatedRows
  <1>2. row[d] \in Row /\ d \in Connection
    BY PresentRows DEF TInv, Present
  <1>3. CASE d = c
    <2>1. req[q].op \in {"update", "verify", "set_default"}
      BY DEF UpdateCommit
    <2>2. "provider" \notin DOMAIN req[q].set
      BY <1>1, <2>1 DEF Updates, Writes
    <2>3. Written(c, req[q].set)["provider"] = row[c]["provider"]
      BY <1>1, <2>1, <2>2, WrittenRow DEF TInv, Columns
    <2> QED BY <1>1, <1>3, <2>3
  <1>4. CASE d # c /\ d \in others
    <2>1. row'[d] = [row[d] EXCEPT !.isDefault = FALSE]
      BY <1>1, <1>4
    <2> QED BY <1>2, <1>4, <2>1 DEF Row
  <1>5. CASE d # c /\ d \notin others
    BY <1>1, <1>2, <1>5
  <1> QED BY <1>3, <1>4, <1>5

LEMMA NicknamesStep == TInv /\ NicknamesDistinct /\ [Next]_vars => NicknamesDistinct'
  <1> SUFFICES ASSUME TInv, NicknamesDistinct, [Next]_vars,
                      NEW a \in Present', NEW b \in Present',
                      row'[a].provider = row'[b].provider, row'[a].nickname = row'[b].nickname,
                      row'[a].nickname # NoNickname
               PROVE  a = b
    BY DEF NicknamesDistinct
  <1>1. CASE row' = row
    BY <1>1 DEF NicknamesDistinct, Present
  <1>2. ASSUME NEW q \in Client, CreateCommit(q), row' # row
        PROVE  a = b
    <2>1. PICK c \in Connection \ Present :
             /\ row'[c] = req[q].set
             /\ ~Taken(req[q].set.provider, req[q].set.nickname, NoConnection)
             /\ \A d \in Connection \ {c} : row'[d] = row[d]
             /\ Present' = Present \cup {c}
      BY <1>2, Created
    <2>2. NoConnection \notin Present
      BY ByokAssumption DEF Present
    <2>3. \A d \in Present : d # c /\ row'[d] = row[d]
      BY <2>1 DEF Present
    <2>4. \A d \in Present : row[d].provider # row'[c].provider \/ row[d].nickname # row'[c].nickname
                               \/ row'[c].nickname = NoNickname
      BY <2>1, <2>2 DEF Taken
    <2> QED BY <2>1, <2>3, <2>4 DEF NicknamesDistinct
  <1>3. ASSUME NEW q \in Client, UpdateCommit(q), row' # row
        PROVE  a = b
    <2>1. ~Fails(q)
      BY <1>3 DEF UpdateCommit
    <2>2. Present' = Present
      BY <1>3, UpdateKeepsPresent
    <2> DEFINE c == req[q].target
    <2>3. \A d \in Present : /\ row'[d].provider = row[d].provider
                             /\ d # c => row'[d].nickname = row[d].nickname
                             /\ d = c => row'[d].nickname = Written(d, req[q].set).nickname
      BY <1>3, <2>1, UpdatedNames
    <2>4. ~Taken(row[c].provider, Written(c, req[q].set).nickname, c)
      BY <2>1 DEF Fails
    <2> HIDE DEF c
    <2>5. CASE a # c /\ b # c
      BY <2>2, <2>3, <2>5 DEF NicknamesDistinct
    <2>6. CASE a = c /\ b # c
      BY <2>2, <2>3, <2>4, <2>6 DEF Taken
    <2>7. CASE a # c /\ b = c
      BY <2>2, <2>3, <2>4, <2>7 DEF Taken
    <2> QED BY <2>5, <2>6, <2>7
  <1>4. ASSUME NEW q \in Client, DeleteCommit(q)
        PROVE  a = b
    <2>1. /\ \A d \in Connection \ {req[q].target} : row'[d] = row[d]
          /\ Present' = Present \ {req[q].target}
      BY <1>4, Deleted
    <2>2. \A d \in Present' : d \in Present /\ row'[d] = row[d]
      BY <2>1 DEF Present
    <2> QED BY <2>2 DEF NicknamesDistinct
  <1> QED BY <1>1, <1>2, <1>3, <1>4, StepCases, LoadsKeepRows DEF vars

\* Two connections of a provider never share a nickname: the unique index decides when
\* the row is written, however old the look at the nicknames is.
THEOREM NicknamesStayDistinct == Spec => []NicknamesDistinct
  <1>1. Init => NicknamesDistinct
    BY DEF Init, NicknamesDistinct, Present
  <1> QED BY <1>1, TInvInit, TInvStep, NicknamesStep, PTL DEF Spec

(***************************************************************************)
(* What the owner set                                                      *)
(***************************************************************************)
\* A request writes only the columns that it was to change, so that a key or a nickname
\* is never replaced by one that was read before.
THEOREM NothingBroughtBack == Spec => NothingWrittenBack
  <1> DEFINE Kept == \A c \in Connection : \A col \in {"key", "nickname"} :
                       row[c] # Absent /\ row'[c] # Absent /\ row'[c][col] # row[c][col] =>
                         \E q \in Client : /\ req[q].op = "update" /\ req[q].target = c
                                           /\ col \in DOMAIN req[q].set
                                           /\ req[q].set[col] = row'[c][col]
  <1>1. TInv /\ [Next]_vars => [Kept]_vars
    <2> SUFFICES ASSUME TInv, [Next]_vars,
                        NEW c \in Connection, NEW col \in {"key", "nickname"},
                        row[c] # Absent, row'[c] # Absent, row'[c][col] # row[c][col]
                 PROVE  \E q \in Client : /\ req[q].op = "update" /\ req[q].target = c
                                          /\ col \in DOMAIN req[q].set
                                          /\ req[q].set[col] = row'[c][col]
      OBVIOUS
    <2>1. c \in Present /\ row[c] \in Row
      BY PresentRows DEF Present, TInv
    <2>2. ASSUME NEW q \in Client, CreateCommit(q) PROVE FALSE
      <3>1. row' # row
        OBVIOUS
      <3>2. row'[c] = row[c]
        BY <2>1, <2>2, <3>1, Created DEF Present
      <3> QED BY <3>2
    <2>3. ASSUME NEW q \in Client, DeleteCommit(q) PROVE FALSE
      <3>1. row'[c] = row[c]
        BY <2>3, Deleted
      <3> QED BY <3>1
    <2>4. ASSUME NEW q \in Client, UpdateCommit(q)
          PROVE  /\ req[q].op = "update" /\ req[q].target = c
                 /\ col \in DOMAIN req[q].set
                 /\ req[q].set[col] = row'[c][col]
      <3> DEFINE set == req[q].set
      <3>1. ~Fails(q) /\ req[q].op \in {"update", "verify", "set_default"}
        BY <2>4 DEF UpdateCommit
      <3>2. /\ req[q].target \in Present /\ Updates(req[q].op, set)
            /\ row'[req[q].target] = Written(req[q].target, set)
            /\ \A d \in req[q].others \ {req[q].target} : row'[d] = [row[d] EXCEPT !.isDefault = FALSE]
            /\ \A d \in Connection \ (req[q].others \cup {req[q].target}) : row'[d] = row[d]
        BY <2>4, <3>1, UpdatedRows
      <3> HIDE DEF set
      <3>3. c = req[q].target
        <4>1. CASE c \in req[q].others \ {req[q].target}
          <5>1. row'[c] = [row[c] EXCEPT !.isDefault = FALSE]
            BY <3>2, <4>1
          <5>2. row'[c][col] = row[c][col]
            BY <2>1, <5>1 DEF Row
          <5> QED BY <5>2
        <4>2. CASE c \notin req[q].others \cup {req[q].target}
          BY <3>2, <4>2
        <4> QED BY <4>1, <4>2
      <3>4. row'[c][col] = IF col \in DOMAIN set THEN set[col] ELSE row[c][col]
        BY <3>1, <3>2, <3>3, WrittenRow DEF TInv, Columns
      <3>5. col \in DOMAIN set /\ set[col] = row'[c][col]
        BY <3>4
      <3>6. req[q].op = "update"
        BY <3>1, <3>2, <3>5 DEF Updates, Writes
      <3> QED BY <3>3, <3>5, <3>6 DEF set
    <2>5. row' # row
      OBVIOUS
    <2> QED BY <2>2, <2>3, <2>4, <2>5, StepCases, LoadsKeepRows DEF vars
  <1>2. NothingWrittenBack <=> [][Kept]_vars
    BY DEF NothingWrittenBack
  <1> QED BY <1>1, <1>2, TInvInit, TInvStep, PTL DEF Spec

(***************************************************************************)
(* The limit.  A request that is about to create was admitted below it, so *)
(* that connections and such requests together are fewer than the limit    *)
(* and the clients.                                                        *)
(***************************************************************************)
Creating == {q \in Client : req[q].op = "create"}

LInv ==
  /\ IsFiniteSet(Present)
  /\ Present # {} \/ Creating # {} =>
       Cardinality(Present) + Cardinality(Creating) < MaxProviders + Cardinality(Client)

LEMMA CreatingFinite ==
  /\ IsFiniteSet(Creating) /\ Cardinality(Creating) \in Nat /\ Cardinality(Client) \in Nat
  /\ Cardinality(Creating) <= Cardinality(Client)
  <1>1. Creating \in SUBSET Client /\ IsFiniteSet(Client)
    BY ByokAssumption DEF Creating
  <1>2. IsFiniteSet(Creating) /\ Cardinality(Creating) <= Cardinality(Client)
    BY <1>1, FS_Subset
  <1> QED BY <1>1, <1>2, FS_CardinalityType

LEMMA OneMore ==
  ASSUME NEW S, NEW x, IsFiniteSet(S)
  PROVE  /\ IsFiniteSet(S \cup {x}) /\ Cardinality(S \cup {x}) \in Nat
         /\ Cardinality(S \cup {x}) <= Cardinality(S) + 1
  <1>1. Cardinality(S) \in Nat
    BY FS_CardinalityType
  <1>2. IsFiniteSet(S \cup {x}) /\ Cardinality(S \cup {x}) = IF x \in S THEN Cardinality(S) ELSE Cardinality(S) + 1
    BY FS_AddElement
  <1> QED BY <1>1, <1>2

LEMMA OneLess ==
  ASSUME NEW S, NEW x, IsFiniteSet(S)
  PROVE  /\ IsFiniteSet(S \ {x}) /\ Cardinality(S \ {x}) \in Nat
         /\ Cardinality(S \ {x}) <= Cardinality(S)
  <1>1. Cardinality(S) \in Nat
    BY FS_CardinalityType
  <1>2. IsFiniteSet(S \ {x}) /\ Cardinality(S \ {x}) = IF x \in S THEN Cardinality(S) - 1 ELSE Cardinality(S)
    BY FS_RemoveElement
  <1>3. Cardinality(S \ {x}) \in Nat
    BY <1>2, FS_CardinalityType
  <1> QED BY <1>1, <1>2, <1>3

\* A request that loads a row is none of those.
LEMMA LoadCreating ==
  ASSUME TInv, NEW q \in Client, NEW op, NEW c, NEW new, NEW others, Load(q, op, c, new, others), op # "create"
  PROVE  Creating' = Creating
  <1> DEFINE r == Doing(op, c, Dirty(row[c], new), others)
  <1>1. req' = [req EXCEPT ![q] = r] /\ req[q] = Idle
    BY DEF Load
  <1>2. r.op # "create" /\ Idle.op # "create"
    BY DEF Doing, Idle
  <1> HIDE DEF r
  <1>3. req'[q] = r /\ \A p \in Client \ {q} : req'[p] = req[p]
    BY <1>1 DEF TInv
  <1> QED BY <1>1, <1>2, <1>3 DEF Creating

\* A request that is answered was one of those, or changes nothing here.
LEMMA AnsweredCreating ==
  ASSUME TInv, NEW q \in Client, Answered(q)
  PROVE  Creating' = Creating \ {q}
  <1>1. req'[q] = Idle /\ \A p \in Client \ {q} : req'[p] = req[p]
    BY DEF Answered, TInv
  <1>2. Idle.op = "idle"
    BY DEF Idle, Doing
  <1> QED BY <1>1, <1>2 DEF Creating

LEMMA LInvStep == TInv /\ LInv /\ [Next]_vars => LInv'
  <1> SUFFICES ASSUME TInv, LInv, [Next]_vars PROVE LInv'
    OBVIOUS
  <1> USE ByokAssumption
  <1>0. /\ IsFiniteSet(Present) /\ Cardinality(Present) \in Nat
        /\ IsFiniteSet(Creating) /\ Cardinality(Creating) \in Nat /\ Cardinality(Client) \in Nat
    BY CreatingFinite, FS_CardinalityType DEF LInv
  <1>1. CASE UNCHANGED vars
    BY <1>1 DEF vars, LInv, Present, Creating
  <1>2. ASSUME NEW q \in Client, CreateLoad(q) PROVE LInv'
    <2>1. Present' = Present /\ Cardinality(Present) < MaxProviders
      BY <1>2 DEF CreateLoad, MayCreate, Present
    <2>2. Cardinality(Creating') <= Cardinality(Client) /\ Cardinality(Creating') \in Nat
      <3>1. Creating' \in SUBSET Client
        BY DEF Creating
      <3> QED BY <3>1, FS_Subset, FS_CardinalityType
    <2> QED BY <1>0, <2>1, <2>2 DEF LInv
  <1>3. ASSUME NEW q \in Client, Loads(q), ~CreateLoad(q) PROVE LInv'
    <2>1. Present' = Present
      BY <1>3, LoadsKeepRows DEF Present
    <2>2. Creating' = Creating
      BY <1>3, LoadCreating DEF Loads, UpdateLoad, SetDefaultLoad, DeleteLoad, VerifyLoad
    <2> QED BY <2>1, <2>2 DEF LInv
  <1>4. ASSUME NEW q \in Client, CreateCommit(q) PROVE LInv'
    <2>1. q \in Creating
      BY <1>4 DEF CreateCommit, Creating
    <2>2. Cardinality(Creating') = Cardinality(Creating) - 1
      BY <1>0, <1>4, <2>1, AnsweredCreating, FS_RemoveElement DEF CreateCommit
    <2>3. CASE row' = row
      BY <1>0, <2>1, <2>2, <2>3 DEF LInv, Present
    <2>4. CASE row' # row
      <3>1. PICK c : Present' = Present \cup {c}
        BY <1>4, <2>4, Created
      <3>2. IsFiniteSet(Present') /\ Cardinality(Present') <= Cardinality(Present) + 1
            /\ Cardinality(Present') \in Nat
        BY <1>0, <3>1, OneMore
      <3> QED BY <1>0, <2>1, <2>2, <3>2 DEF LInv
    <2> QED BY <2>3, <2>4
  <1>5. ASSUME NEW q \in Client, UpdateCommit(q) PROVE LInv'
    <2>1. Present' = Present
      BY <1>5, UpdateKeepsPresent
    <2>2. Creating' = Creating
      BY <1>5, AnsweredCreating DEF UpdateCommit, Creating
    <2> QED BY <2>1, <2>2 DEF LInv
  <1>6. ASSUME NEW q \in Client, DeleteCommit(q) PROVE LInv'
    <2>1. Present' = Present \ {req[q].target}
      BY <1>6, Deleted
    <2>2. Creating' = Creating
      BY <1>6, AnsweredCreating DEF DeleteCommit, Creating
    <2>3. IsFiniteSet(Present') /\ Cardinality(Present') <= Cardinality(Present) /\ Cardinality(Present') \in Nat
      BY <1>0, <2>1, OneLess
    <2> QED BY <1>0, <2>1, <2>2, <2>3 DEF LInv
  <1> QED BY <1>1, <1>2, <1>3, <1>4, <1>5, <1>6, StepCases

\* However many requests race, the limit is exceeded by less than their number.
THEOREM LimitHolds == Spec => []LimitOvershoot
  <1>1. Init => LInv
    <2> SUFFICES ASSUME Init PROVE LInv
      OBVIOUS
    <2>1. Present = {} /\ Creating = {}
      BY DEF Init, Present, Creating, Idle, Doing
    <2> QED BY <2>1, FS_EmptySet DEF LInv
  <1>2. LInv => LimitOvershoot
    <2> SUFFICES ASSUME LInv, Present # {} PROVE Cardinality(Present) < MaxProviders + Cardinality(Client)
      BY DEF LimitOvershoot
    <2>1. Cardinality(Present) \in Nat /\ Cardinality(Creating) \in Nat /\ Cardinality(Client) \in Nat
      BY CreatingFinite, FS_CardinalityType DEF LInv
    <2> QED BY <2>1, ByokAssumption DEF LInv
  <1> QED BY <1>1, <1>2, TInvInit, TInvStep, LInvStep, PTL DEF Spec

(***************************************************************************)
(* Defaults.  Each default of a provider can be put down to the client     *)
(* that made it, and no client made two: a client that chooses a default   *)
(* clears those it has read, among them the one that it made before.       *)
(***************************************************************************)
DefaultsIn(rows, p) == {c \in Connection : rows[c] # Absent /\ rows[c].provider = p /\ rows[c].isDefault}

\* What q has read about the defaults that it made, when it is about to make one: if it
\* creates one there are none, and if it chooses one it is going to clear them.
Knows(rows, r, q, m) ==
  /\ r.op = "create" /\ r.set.isDefault => \A d \in DefaultsIn(rows, r.set.provider) : m[d] # q
  /\ r.op = "set_default" /\ r.target \in Connection /\ rows[r.target] # Absent =>
       \A d \in DefaultsIn(rows, rows[r.target].provider) : m[d] = q => d \in r.others \cup {r.target}

\* m names the client that made each default.
Makers(rows, requests, m) ==
  /\ m = [d \in Connection |-> m[d]]
  /\ \A p : \A d \in DefaultsIn(rows, p) : m[d] \in Client
  /\ \A p : \A d, e \in DefaultsIn(rows, p) : m[d] = m[e] => d = e
  /\ \A q \in Client : Knows(rows, requests[q], q, m)

DInv == \E m : Makers(row, req, m)

\* The connection c is no default that it was not.
NoNewDefault(c, rows, rows2) ==
  rows2[c] # Absent /\ rows2[c].isDefault =>
    rows[c] # Absent /\ rows[c].isDefault /\ rows2[c].provider = rows[c].provider

\* The connections that are going to be chosen are those that were loaded: ids are fresh.
TargetsKept(requests, rows, rows2) ==
  \A q \in Client : LET c == requests[q].target IN
    requests[q].op = "set_default" /\ c \in Connection /\ rows2[c] # Absent =>
      rows[c] # Absent /\ rows2[c].provider = rows[c].provider

\* A step that makes no default: who made those that remain is as before.
LEMMA MakersKept ==
  ASSUME NEW rows, NEW rows2, NEW requests, NEW requests2, NEW m, Makers(rows, requests, m),
         \A c \in Connection : NoNewDefault(c, rows, rows2), TargetsKept(requests, rows, rows2),
         \A q \in Client : requests2[q] = requests[q] \/ Knows(rows2, requests2[q], q, m)
  PROVE  Makers(rows2, requests2, m)
  <1>1. \A p : DefaultsIn(rows2, p) \subseteq DefaultsIn(rows, p)
    BY DEF DefaultsIn, NoNewDefault
  <1>2. ASSUME NEW q \in Client PROVE Knows(rows2, requests2[q], q, m)
    <2>1. CASE requests2[q] = requests[q]
      <3>1. Knows(rows, requests[q], q, m)
        BY DEF Makers
      <3> QED BY <1>1, <2>1, <3>1 DEF Knows, TargetsKept
    <2> QED BY <2>1
  <1> QED BY <1>1, <1>2 DEF Makers

\* A step of client q that makes c a default, and leaves no other that q made.
LEMMA MakersChanged ==
  ASSUME NEW rows, NEW rows2, NEW requests, NEW requests2, NEW m, Makers(rows, requests, m),
         NEW q \in Client, NEW c \in Connection,
         \A d \in Connection \ {c} : NoNewDefault(d, rows, rows2), TargetsKept(requests, rows, rows2),
         \A d \in DefaultsIn(rows2, rows2[c].provider) \ {c} : m[d] # q,
         \A p \in Client \ {q} : requests2[p] = requests[p],
         Knows(rows2, requests2[q], q, [m EXCEPT ![c] = q])
  PROVE  Makers(rows2, requests2, [m EXCEPT ![c] = q])
  <1> DEFINE n == [m EXCEPT ![c] = q]
  <1>1. n = [d \in Connection |-> n[d]] /\ n[c] = q /\ \A d \in Connection \ {c} : n[d] = m[d]
    BY DEF Makers
  <1>2. \A p : \A d \in DefaultsIn(rows2, p) \ {c} : d \in DefaultsIn(rows, p)
    BY DEF DefaultsIn, NoNewDefault
  <1>3. \A p : DefaultsIn(rows2, p) \subseteq Connection
    BY DEF DefaultsIn
  <1> HIDE DEF n
  <1>4. \A p : \A d \in DefaultsIn(rows2, p) : n[d] \in Client
    BY <1>1, <1>2, <1>3 DEF Makers
  <1>5. ASSUME NEW p, NEW d \in DefaultsIn(rows2, p), NEW e \in DefaultsIn(rows2, p), n[d] = n[e]
        PROVE  d = e
    <2>1. CASE d # c /\ e # c
      BY <1>1, <1>2, <1>3, <1>5, <2>1 DEF Makers
    <2>2. CASE d = c /\ e # c
      <3>1. p = rows2[c].provider
        BY <2>2 DEF DefaultsIn
      <3> QED BY <1>1, <1>3, <1>5, <2>2, <3>1
    <2>3. CASE d # c /\ e = c
      <3>1. p = rows2[c].provider
        BY <2>3 DEF DefaultsIn
      <3> QED BY <1>1, <1>3, <1>5, <2>3, <3>1
    <2> QED BY <2>1, <2>2, <2>3
  <1>6. ASSUME NEW p \in Client PROVE Knows(rows2, requests2[p], p, n)
    <2>1. CASE p = q
      BY <2>1 DEF n
    <2>2. CASE p # q
      <3>1. Knows(rows, requests[p], p, m) /\ requests2[p] = requests[p]
        BY <2>2 DEF Makers
      <3>2. \A x : \A d \in DefaultsIn(rows2, x) : n[d] = p => d \in DefaultsIn(rows, x) /\ m[d] = p
        BY <1>1, <1>2, <1>3, <2>2
      <3>3. requests[p].op = "set_default" /\ requests[p].target \in Connection /\ rows2[requests[p].target] # Absent =>
              /\ rows[requests[p].target] # Absent
              /\ rows2[requests[p].target].provider = rows[requests[p].target].provider
        BY DEF TargetsKept
      <3> QED BY <3>1, <3>2, <3>3 DEF Knows
    <2> QED BY <2>1, <2>2
  <1> QED BY <1>1, <1>4, <1>5, <1>6 DEF Makers, n

LEMMA DefaultsAre == ASSUME NEW p PROVE Defaults(p) = DefaultsIn(row, p)
  BY DEF Defaults, DefaultsIn, Present

LEMMA IdleKnows == ASSUME NEW rows, NEW q, NEW m PROVE Knows(rows, Idle, q, m)
  BY DEF Knows, Idle, Doing

LEMMA AnsweredRequests ==
  ASSUME TInv, NEW q \in Client, Answered(q)
  PROVE  req'[q] = Idle /\ \A p \in Client \ {q} : req'[p] = req[p]
  BY DEF Answered, TInv

\* A request is answered that made no default.
LEMMA AnsweredMakers ==
  ASSUME TInv, NEW m, Makers(row, req, m), NEW q \in Client, Answered(q),
         \A c \in Connection : NoNewDefault(c, row, row'), TargetsKept(req, row, row')
  PROVE  DInv'
  <1>1. \A p \in Client : req'[p] = req[p] \/ Knows(row', req'[p], p, m)
    BY AnsweredRequests, IdleKnows
  <1>2. Makers(row', req', m)
    BY <1>1, MakersKept
  <1> QED BY <1>2 DEF DInv

\* What a request has read that is going to make a default.
LEMMA LoadKnows ==
  ASSUME TInv, NEW m, NEW q \in Client, Loads(q)
  PROVE  \E r : req' = [req EXCEPT ![q] = r] /\ Knows(row, r, q, m)
  <1>1. CASE CreateLoad(q)
    <2>1. PICK s \in Row : /\ s.isDefault = IsFirst(s.nickname)
                           /\ req' = [req EXCEPT ![q] = Doing("create", NoConnection, s, {})]
      BY <1>1 DEF CreateLoad
    <2> DEFINE r == Doing("create", NoConnection, s, {})
    <2>2. r.op = "create" /\ r.set = s
      BY DEF Doing
    <2>3. s.isDefault => \A p : DefaultsIn(row, p) = {}
      BY <2>1 DEF IsFirst, DefaultsIn, Present
    <2>4. req' = [req EXCEPT ![q] = r]
      BY <2>1
    <2> HIDE DEF r
    <2>5. Knows(row, r, q, m)
      BY <2>2, <2>3 DEF Knows
    <2> QED BY <2>4, <2>5
  <1>2. ASSUME NEW c \in Connection, SetDefaultLoad(q, c)
        PROVE  \E r : req' = [req EXCEPT ![q] = r] /\ Knows(row, r, q, m)
    <2> DEFINE r == Doing("set_default", c, Dirty(row[c], [row[c] EXCEPT !.isDefault = TRUE]),
                          Defaults(row[c].provider) \ {c})
    <2>1. req' = [req EXCEPT ![q] = r]
      BY <1>2 DEF SetDefaultLoad, Load
    <2>2. r.op = "set_default" /\ r.target = c /\ r.others = DefaultsIn(row, row[c].provider) \ {c}
      BY DefaultsAre DEF Doing
    <2> HIDE DEF r
    <2>3. Knows(row, r, q, m)
      BY <2>2 DEF Knows
    <2> QED BY <2>1, <2>3
  <1>3. ASSUME NEW op, NEW c, NEW new, NEW others, Load(q, op, c, new, others), op \notin {"create", "set_default"}
        PROVE  \E r : req' = [req EXCEPT ![q] = r] /\ Knows(row, r, q, m)
    <2> DEFINE r == Doing(op, c, Dirty(row[c], new), others)
    <2>1. req' = [req EXCEPT ![q] = r] /\ r.op = op
      BY <1>3 DEF Load, Doing
    <2> HIDE DEF r
    <2>2. Knows(row, r, q, m)
      BY <1>3, <2>1 DEF Knows
    <2> QED BY <2>1, <2>2
  <1>4. ASSUME NEW c \in Connection, UpdateLoad(q, c)
        PROVE  \E new : Load(q, "update", c, new, {})
    BY <1>4 DEF UpdateLoad
  <1>5. ASSUME NEW c \in Connection, NEW accepted \in BOOLEAN, VerifyLoad(q, c, accepted)
        PROVE  \E new : Load(q, "verify", c, new, {})
    BY <1>5 DEF VerifyLoad
  <1>6. ASSUME NEW c \in Connection, DeleteLoad(q, c)
        PROVE  \E new : Load(q, "delete", c, new, {})
    BY <1>6 DEF DeleteLoad
  <1>7. ASSUME NEW c \in Connection, NEW op \in {"update", "verify", "delete"},
               \E new : Load(q, op, c, new, {})
        PROVE  \E r : req' = [req EXCEPT ![q] = r] /\ Knows(row, r, q, m)
    BY <1>3, <1>7
  <1> QED BY <1>1, <1>2, <1>4, <1>5, <1>6, <1>7 DEF Loads

LEMMA LoadsMakers ==
  ASSUME TInv, NEW m, Makers(row, req, m), NEW q \in Client, Loads(q)
  PROVE  DInv'
  <1>1. row' = row /\ (\A c \in Connection : NoNewDefault(c, row, row')) /\ TargetsKept(req, row, row')
    BY LoadsKeepRows DEF NoNewDefault, TargetsKept
  <1>2. PICK r : req' = [req EXCEPT ![q] = r] /\ Knows(row, r, q, m)
    BY LoadKnows
  <1>3. \A p \in Client : req'[p] = req[p] \/ Knows(row', req'[p], p, m)
    BY <1>1, <1>2 DEF TInv
  <1>4. Makers(row', req', m)
    BY <1>1, <1>3, MakersKept
  <1> QED BY <1>4 DEF DInv

LEMMA CreateCommitMakers ==
  ASSUME TInv, NEW m, Makers(row, req, m), NEW q \in Client, CreateCommit(q)
  PROVE  DInv'
  <1>0. Answered(q)
    BY DEF CreateCommit
  <1>1. CASE row' = row
    BY <1>0, <1>1, AnsweredMakers DEF NoNewDefault, TargetsKept
  <1>2. CASE row' # row
    <2>1. PICK c \in Fresh :
            /\ c \in Connection \ Present
            /\ row'[c] = req[q].set /\ req[q].set \in Row
            /\ \A d \in Connection \ {c} : row'[d] = row[d]
      BY <1>2, Created
    <2>2. req'[q] = Idle /\ \A p \in Client \ {q} : req'[p] = req[p]
      BY <1>0, AnsweredRequests
    <2>3. Knows(row, req[q], q, m) /\ req[q].op = "create"
      BY DEF Makers, CreateCommit
    <2>4. \A d \in Connection \ {c} : NoNewDefault(d, row, row')
      BY <2>1 DEF NoNewDefault
    <2>5. \A p \in Client : req[p].target # c
      BY DEF Fresh
    <2>6. TargetsKept(req, row, row')
      BY <2>1, <2>5 DEF TargetsKept
    <2>7. CASE req[q].set.isDefault
      <3>1. \A d \in DefaultsIn(row', row'[c].provider) \ {c} : d \in DefaultsIn(row, req[q].set.provider)
        BY <2>1 DEF DefaultsIn
      <3>2. \A d \in DefaultsIn(row', row'[c].provider) \ {c} : m[d] # q
        BY <2>3, <2>7, <3>1 DEF Knows
      <3>3. Knows(row', req'[q], q, [m EXCEPT ![c] = q])
        BY <2>2, IdleKnows
      <3>4. Makers(row', req', [m EXCEPT ![c] = q])
        BY <2>1, <2>2, <2>4, <2>6, <3>2, <3>3, MakersChanged
      <3> QED BY <3>4 DEF DInv
    <2>8. CASE ~req[q].set.isDefault
      <3>1. NoNewDefault(c, row, row')
        BY <2>1, <2>8 DEF NoNewDefault
      <3> QED BY <1>0, <2>4, <2>6, <3>1, AnsweredMakers
    <2> QED BY <2>7, <2>8
  <1> QED BY <1>1, <1>2

LEMMA DeleteCommitMakers ==
  ASSUME TInv, NEW m, Makers(row, req, m), NEW q \in Client, DeleteCommit(q)
  PROVE  DInv'
  <1>1. row'[req[q].target] = Absent /\ \A d \in Connection \ {req[q].target} : row'[d] = row[d]
    BY Deleted
  <1>2. (\A c \in Connection : NoNewDefault(c, row, row')) /\ TargetsKept(req, row, row')
    BY <1>1 DEF NoNewDefault, TargetsKept
  <1> QED BY <1>2, AnsweredMakers DEF DeleteCommit

LEMMA UpdateCommitMakers ==
  ASSUME TInv, NEW m, Makers(row, req, m), NEW q \in Client, UpdateCommit(q)
  PROVE  DInv'
  <1> DEFINE c == req[q].target
             others == req[q].others
             op == req[q].op
             set == req[q].set
  <1>0. Answered(q) /\ op \in {"update", "verify", "set_default"}
    BY DEF UpdateCommit
  <1>1. CASE row' = row
    BY <1>0, <1>1, AnsweredMakers DEF NoNewDefault, TargetsKept
  <1>2. CASE row' # row
    <2>1. ~Fails(q)
      BY <1>2 DEF UpdateCommit
    <2>2. /\ c \in Present /\ others \subseteq Present /\ Updates(op, set)
          /\ row'[c] = Written(c, set)
          /\ \A d \in others \ {c} : row'[d] = [row[d] EXCEPT !.isDefault = FALSE]
          /\ \A d \in Connection \ (others \cup {c}) : row'[d] = row[d]
      BY <2>1, UpdatedRows
    <2>3. \A d \in Present : row'[d].provider = row[d].provider
      BY <2>1, UpdatedNames
    <2>4. Present' = Present /\ \A d : d \in Present <=> d \in Connection /\ row[d] # Absent
      BY UpdateKeepsPresent DEF Present
    <2>5. \A d \in Connection : row'[d] # Absent => row[d] # Absent /\ row'[d].provider = row[d].provider
      BY <2>3, <2>4 DEF Present
    <2>6. \A d \in others \ {c} : row'[d].isDefault = FALSE
      <3> SUFFICES ASSUME NEW d \in others \ {c} PROVE row'[d].isDefault = FALSE
        OBVIOUS
      <3>1. row[d] \in Row
        BY <2>2, PresentRows DEF TInv, Present
      <3> QED BY <2>2, <3>1 DEF Row
    <2>7. \A d \in Connection \ {c} : NoNewDefault(d, row, row')
      BY <2>2, <2>5, <2>6 DEF NoNewDefault
    <2>8. TargetsKept(req, row, row')
      BY <2>5 DEF TargetsKept
    <2>9. CASE op # "set_default"
      <3>1. "isDefault" \notin DOMAIN set
        BY <1>0, <2>2, <2>9 DEF Updates, Writes
      <3>2. Written(c, set)["isDefault"] = row[c]["isDefault"]
        BY <1>0, <2>2, <3>1, WrittenRow DEF TInv, Columns
      <3>3. NoNewDefault(c, row, row')
        BY <2>2, <2>4, <2>5, <3>2 DEF NoNewDefault
      <3> QED BY <1>0, <2>7, <2>8, <3>3, AnsweredMakers
    <2>10. CASE op = "set_default"
      <3>1. req'[q] = Idle /\ \A p \in Client \ {q} : req'[p] = req[p]
        BY <1>0, AnsweredRequests
      <3>2. Knows(row, req[q], q, m)
        BY DEF Makers
      <3>3. \A d \in DefaultsIn(row, row[c].provider) : m[d] = q => d \in others \cup {c}
        BY <2>2, <2>4, <2>10, <3>2 DEF Knows
      <3>4. \A d \in DefaultsIn(row', row'[c].provider) \ {c} :
              d \in DefaultsIn(row, row[c].provider) /\ d \notin others
        BY <2>2, <2>3, <2>6, <2>7 DEF DefaultsIn, NoNewDefault
      <3>5. \A d \in DefaultsIn(row', row'[c].provider) \ {c} : m[d] # q
        BY <3>3, <3>4
      <3>6. Knows(row', req'[q], q, [m EXCEPT ![c] = q])
        BY <3>1, IdleKnows
      <3>7. c \in Connection
        BY <2>2 DEF Present
      <3> HIDE DEF c
      <3>8. Makers(row', req', [m EXCEPT ![c] = q])
        BY <2>7, <2>8, <3>1, <3>5, <3>6, <3>7, MakersChanged
      <3> QED BY <3>8 DEF DInv
    <2> QED BY <2>9, <2>10
  <1> QED BY <1>1, <1>2

LEMMA DInvStep == TInv /\ DInv /\ [Next]_vars => DInv'
  <1> SUFFICES ASSUME TInv, NEW m, Makers(row, req, m), [Next]_vars PROVE DInv'
    BY DEF DInv
  <1>1. CASE UNCHANGED vars
    BY <1>1 DEF vars, DInv
  <1> QED BY <1>1, StepCases, LoadsMakers, CreateCommitMakers, UpdateCommitMakers, DeleteCommitMakers

\* A provider has one default at most for each client, for no client leaves two: each
\* clears the one that it made before, and no others are its own.
THEOREM DefaultsStayBounded == Spec => []DefaultsBounded
  <1>1. Init => DInv
    <2> SUFFICES ASSUME Init PROVE DInv
      OBVIOUS
    <2>1. \A p : DefaultsIn(row, p) = {}
      BY DEF Init, DefaultsIn
    <2>2. \A q \in Client : req[q] = Idle
      BY DEF Init
    <2> DEFINE m == [d \in Connection |-> 0]
    <2>3. Makers(row, req, m)
      BY <2>1, <2>2, IdleKnows DEF Makers
    <2> QED BY <2>3 DEF DInv
  <1>2. DInv => DefaultsBounded
    <2> SUFFICES ASSUME NEW m, Makers(row, req, m), NEW p \in Provider
                 PROVE  Cardinality(Defaults(p)) <= Cardinality(Client)
      BY DEF DInv, DefaultsBounded
    <2> DEFINE f == [d \in Defaults(p) |-> m[d]]
    <2>1. Defaults(p) = DefaultsIn(row, p)
      BY DefaultsAre
    <2>2. f \in Injection(Defaults(p), Client)
      BY <2>1 DEF Makers, Injection, IsInjective
    <2> QED BY <2>2, FS_Injection, ByokAssumption
  <1> QED BY <1>1, <1>2, TInvInit, TInvStep, DInvStep, PTL DEF Spec
=============================================================================
