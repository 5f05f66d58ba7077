--------------------------- MODULE ByokConnections --------------------------
(***************************************************************************)
(* The provider connections of one user: rows that requests create,        *)
(* update, verify, choose as default and delete, each in a transaction of  *)
(* its own that reads first and writes later (READ COMMITTED, no version   *)
(* column, no SELECT ... FOR UPDATE).                                      *)
(*                                                                         *)
(* The ORM writes the columns of an object whose value differs from the    *)
(* one that was loaded.  From its flush to its commit a transaction locks  *)
(* the rows it writes, so that both are one step here; the reads of a      *)
(* request are one step too, for nothing is decided between them that the  *)
(* database does not decide again.  Users do not share rows.  Of the       *)
(* columns the owner sets, the key stands for those that no request here   *)
(* decides on as well (enabled, base_url, default_model, metadata).        *)
(***************************************************************************)
EXTENDS Naturals, FiniteSets

CONSTANTS
  Connection, Provider, Nickname, Key, Client,
  MaxProviders,            \* MAX_PROVIDERS_PER_USER
  NoNickname, NoKey, NoConnection

ASSUME ByokAssumption ==
  /\ MaxProviders \in Nat /\ IsFiniteSet(Client)
  /\ NoNickname \notin Nickname /\ NoKey \notin Key /\ NoConnection \notin Connection

VARIABLES
  row,    \* the committed rows
  req     \* the requests: what each of them has read, and is about to write

vars == <<row, req>>

Row == [provider: Provider, nickname: Nickname \cup {NoNickname}, key: Key,
        isDefault: BOOLEAN, status: {"pending", "verified", "failed"}]
Absent == [provider |-> NoConnection]

Present == {c \in Connection : row[c] # Absent}
Defaults(p) == {c \in Present : row[c].provider = p /\ row[c].isDefault}

Op == {"create", "update", "verify", "set_default", "delete"}

\* What a request has loaded, as far as it matters later: the connection, the
\* columns it is going to write, and for set_default the other defaults.
Doing(op, c, set, others) == [op |-> op, target |-> c, set |-> set, others |-> others]
Idle == Doing("idle", NoConnection, Absent, {})

Init ==
  /\ row = [c \in Connection |-> Absent]
  /\ req = [q \in Client |-> Idle]

Answered(q) == req' = [req EXCEPT ![q] = Idle]

\* The unique index on provider and nickname, in which NULLs differ.
Taken(provider, nickname, c) ==
  /\ nickname # NoNickname
  /\ \E d \in Present \ {c} : row[d].provider = provider /\ row[d].nickname = nickname

\* Mutant: every column is written back.
DirtyRow(copy, new) == new

\* The columns an UPDATE writes, with their values: those in which the object
\* differs from the row that was loaded.
Dirty(copy, new) == [col \in {d \in DOMAIN copy : new[d] # copy[d]} |-> new[col]]

Written(c, set) ==
  [col \in DOMAIN set \cup DOMAIN row[c] |-> IF col \in DOMAIN set THEN set[col] ELSE row[c][col]]

(***************************************************************************)
(* create_connection                                                       *)
(***************************************************************************)

\* Mutant: one connection more than the limit.
MayCreateOneMore == Cardinality(Present) <= MaxProviders

MayCreate == Cardinality(Present) < MaxProviders

\* The first connection becomes the default, unless it has a nickname: the count
\* is then overwritten by the result of looking for the nickname.
IsFirst(nickname) == nickname = NoNickname /\ Present = {}

CreateLoad(q) ==
  /\ req[q] = Idle
  /\ MayCreate
  /\ \E r \in Row :
       /\ r.status = "pending" /\ r.isDefault = IsFirst(r.nickname)
       /\ ~Taken(r.provider, r.nickname, NoConnection)
       /\ req' = [req EXCEPT ![q] = Doing("create", NoConnection, r, {})]
  /\ UNCHANGED row

\* Ids are made anew: none that a request in flight refers to is given out again.
Fresh == Connection \ (Present \cup UNION {{req[q].target} \cup req[q].others : q \in Client})

\* Mutant: nothing stops a second connection of one nickname.
CreateCommitDuplicate(q) ==
  /\ req[q].op = "create"
  /\ \E c \in Fresh : row' = [row EXCEPT ![c] = req[q].set]
  /\ Answered(q)

CreateCommit(q) ==
  LET r == req[q].set IN
  /\ req[q].op = "create"
  /\ IF Taken(r.provider, r.nickname, NoConnection)
     THEN UNCHANGED row
     ELSE \E c \in Fresh : row' = [row EXCEPT ![c] = r]
  /\ Answered(q)

(***************************************************************************)
(* The requests that load a connection                                     *)
(***************************************************************************)
Load(q, op, c, new, others) ==
  /\ req[q] = Idle
  /\ req' = [req EXCEPT ![q] = Doing(op, c, Dirty(row[c], new), others)]
  /\ UNCHANGED row

\* update_connection, enable and disable.  A new key waits to be verified.
UpdateLoad(q, c) ==
  /\ c \in Present
  /\ \E k \in Key \cup {NoKey}, n \in Nickname \cup {NoNickname} :
       /\ ~Taken(row[c].provider, n, c)
       /\ Load(q, "update", c,
               [row[c] EXCEPT !.key = IF k = NoKey THEN @ ELSE k,
                              !.status = IF k = NoKey THEN @ ELSE "pending",
                              !.nickname = IF n = NoNickname THEN @ ELSE n], {})

\* verify_connection: the key that was loaded is sent to the provider.  Its answer
\* is chosen here, though it arrives later.
VerifyLoad(q, c, accepted) ==
  /\ c \in Present
  /\ Load(q, "verify", c, [row[c] EXCEPT !.status = IF accepted THEN "verified" ELSE "failed"],
          {})

\* Mutant: the other defaults are left as they are.
SetDefaultLoadAlone(q, c) ==
  c \in Present /\ Load(q, "set_default", c, [row[c] EXCEPT !.isDefault = TRUE], {})

\* set_default: the default connections of the same provider are loaded as well.
SetDefaultLoad(q, c) ==
  /\ c \in Present
  /\ Load(q, "set_default", c, [row[c] EXCEPT !.isDefault = TRUE],
          Defaults(row[c].provider) \ {c})

DeleteLoad(q, c) == c \in Present /\ Load(q, "delete", c, row[c], {})

\* Mutant: an UPDATE that meets no row brings the connection back.
FailsIfTaken(q) ==
  LET c == req[q].target IN
  c \in Present /\ Taken(row[c].provider, Written(c, req[q].set).nickname, c)

\* An UPDATE that meets no row, or the unique index, fails as a whole.
Fails(q) ==
  LET c == req[q].target IN
  ~(req[q].others \cup {c} \subseteq Present)
    \/ Taken(row[c].provider, Written(c, req[q].set).nickname, c)

UpdateCommit(q) ==
  /\ req[q].op \in {"update", "verify", "set_default"}
  /\ row' = IF Fails(q) THEN row
            ELSE [d \in Connection |->
                   IF d = req[q].target THEN Written(d, req[q].set)
                   ELSE IF d \in req[q].others THEN [row[d] EXCEPT !.isDefault = FALSE]
                   ELSE row[d]]
  /\ Answered(q)

\* A connection that is gone already is deleted without an error.
DeleteCommit(q) ==
  /\ req[q].op = "delete"
  /\ row' = [row EXCEPT ![req[q].target] = Absent]
  /\ Answered(q)

Next ==
  \E q \in Client :
    \/ CreateLoad(q) \/ CreateCommit(q)
    \/ \E c \in Connection :
         \/ UpdateLoad(q, c) \/ SetDefaultLoad(q, c) \/ DeleteLoad(q, c)
         \/ \E accepted \in BOOLEAN : VerifyLoad(q, c, accepted)
    \/ UpdateCommit(q) \/ DeleteCommit(q)

Spec == Init /\ [][Next]_vars
-----------------------------------------------------------------------------
TypeOK ==
  /\ row \in [Connection -> Row \cup {Absent}]
  /\ \A q \in Client :
       /\ req[q].op \in Op \cup {"idle"}
       /\ req[q].target \in Connection \cup {NoConnection}
       /\ req[q].others \subseteq Connection

\* The limit is exceeded by less than the number of requests that race: each
\* was admitted before it, and the count is not looked at again.
LimitOvershoot == Present # {} => Cardinality(Present) < MaxProviders + Cardinality(Client)

\* A provider has one default at most for each client that races: alone, a client
\* never leaves two.
DefaultsBounded == \A p \in Provider : Cardinality(Defaults(p)) <= Cardinality(Client)

\* Two connections of a provider never share a nickname, though create and
\* update look for it long before they write.
NicknamesDistinct ==
  \A c, d \in Present : row[c].provider = row[d].provider /\ row[c].nickname = row[d].nickname
                          => c = d \/ row[c].nickname = NoNickname

\* What the owner set is changed only by a request that was to change it, never
\* by one that wrote back what it had read: a verification that takes long does
\* not bring back the key that it tried.
NothingWrittenBack ==
  [][\A c \in Connection : \A col \in {"key", "nickname"} :
       row[c] # Absent /\ row'[c] # Absent /\ row'[c][col] # row[c][col] =>
         \E q \in Client : /\ req[q].op = "update" /\ req[q].target = c
                           /\ col \in DOMAIN req[q].set
                           /\ req[q].set[col] = row'[c][col]]_vars
=============================================================================
