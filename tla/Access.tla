------------------------------- MODULE Access -------------------------------
(***************************************************************************)
(* Who may do what: accounts and API keys (auth/service.py,                *)
(* auth/routes.py), the user that a token stands for (dependencies.py),    *)
(* and roles with the permissions that override them (security/rbac.py,    *)
(* security/routes.py).  The tables of roles and overrides have no         *)
(* constraint, so the same row may be there more than once.                *)
(***************************************************************************)
EXTENDS Naturals, FiniteSets

CONSTANTS
  AcEmail,     \* email addresses
  AcRequest,   \* requests to register
  AcRole,      \* roles
  AcPermission, \* permissions
  AcOf,        \* ROLE_PERMISSIONS
  AcKey,       \* API keys
  AcRows,      \* how often the same row is entered
  AcEnd        \* the times that are looked at

ASSUME AcAssumption ==
  AcEmail # {} /\ AcOf \in [AcRole -> SUBSET AcPermission] /\ AcRows \in Nat /\ AcEnd \in Nat

VARIABLES
  acUser,     \* email to the number of accounts with it
  acRegister, \* the requests: what each found, and how it ended
  acRoles,    \* user_roles of a user: how often each row is there
  acGranted,  \* user_permissions of the user, likewise
  acAnswered, \* the answer to the last request about a permission
  acNow,      \* the clock
  acKeys      \* api_keys of the user: whether there, active, when it expires, when it was last used

acVars == <<acUser, acRegister, acRoles, acGranted, acAnswered, acNow, acKeys>>

AcNever == AcEnd + 1

AcInit ==
  /\ acUser = [e \in AcEmail |-> 0]
  /\ acRegister = [r \in AcRequest |-> [email |-> CHOOSE e \in AcEmail : TRUE, at |-> "idle"]]
  /\ acRoles = [r \in AcRole |-> 0]
  /\ acGranted = [p \in AcPermission |-> 0]
  /\ acAnswered = [answer |-> "none"]
  /\ acNow = 0
  /\ acKeys = [k \in AcKey |-> [there |-> FALSE, active |-> FALSE, expires |-> AcNever, used |-> 0]]

-----------------------------------------------------------------------------
\* register looks for the email, hashes the password, and enters the row, which is
\* visible, and unique, when it is committed.
AcBegin(r, e) ==
  /\ acRegister[r].at = "idle"
  /\ acRegister' = [acRegister EXCEPT ![r] = [email |-> e, at |-> IF acUser[e] > 0 THEN "refused" ELSE "found_none"]]
  /\ UNCHANGED <<acUser, acRoles, acGranted, acAnswered, acNow, acKeys>>

AcUnique(e) == acUser[e] = 0

AcCommit(r) ==
  LET e == acRegister[r].email IN
  /\ acRegister[r].at = "found_none"
  /\ acUser' = IF AcUnique(e) THEN [acUser EXCEPT ![e] = @ + 1] ELSE acUser
  /\ acRegister' = [acRegister EXCEPT ![r].at = IF AcUnique(e) THEN "registered" ELSE "raised"]
  /\ UNCHANGED <<acRoles, acGranted, acAnswered, acNow, acKeys>>

-----------------------------------------------------------------------------
\* get_user_permissions: no route makes a row of project_permissions, nor one of
\* user_permissions that takes a permission away.
AcPermissions ==
  (UNION {AcOf[r] : r \in {q \in AcRole : acRoles[q] > 0}}) \cup {p \in AcPermission : acGranted[p] > 0}

AcAssign(r) ==
  /\ acRoles[r] < AcRows
  /\ acRoles' = [acRoles EXCEPT ![r] = @ + 1]
  /\ acAnswered' = [answer |-> "assigned", role |-> r]
  /\ UNCHANGED <<acUser, acRegister, acGranted, acNow, acKeys>>

AcGrant(p) ==
  /\ acGranted[p] < AcRows
  /\ acGranted' = [acGranted EXCEPT ![p] = @ + 1]
  /\ acAnswered' = [answer |-> "granted", permission |-> p]
  /\ UNCHANGED <<acUser, acRegister, acRoles, acNow, acKeys>>

\* Mutant: the first row found is deleted.
AcRevokeOne(p) ==
  /\ acGranted' = IF acGranted[p] > 0 THEN [acGranted EXCEPT ![p] = @ - 1] ELSE acGranted
  /\ acAnswered' = [answer |-> "revoked", permission |-> p]
  /\ UNCHANGED <<acUser, acRegister, acRoles, acNow, acKeys>>

\* scalar_one_or_none raises on a row that is there twice.
AcRevoke(p) ==
  /\ acGranted' = IF acGranted[p] = 1 THEN [acGranted EXCEPT ![p] = 0] ELSE acGranted
  /\ acAnswered' = [answer |-> IF acGranted[p] <= 1 THEN "revoked" ELSE "raised", permission |-> p]
  /\ UNCHANGED <<acUser, acRegister, acRoles, acNow, acKeys>>

AcRevokeRole(r) ==
  /\ acRoles' = IF acRoles[r] = 1 THEN [acRoles EXCEPT ![r] = 0] ELSE acRoles
  /\ acAnswered' = [answer |-> IF acRoles[r] <= 1 THEN "role_revoked" ELSE "raised", role |-> r]
  /\ UNCHANGED <<acUser, acRegister, acGranted, acNow, acKeys>>

-----------------------------------------------------------------------------
\* A key of zero days is one that never expires.
AcCreateKey(k, days) ==
  /\ ~acKeys[k].there
  /\ acKeys' = [acKeys EXCEPT ![k] = [there |-> TRUE, active |-> TRUE, used |-> 0,
                                      expires |-> IF days = 0 THEN AcNever ELSE acNow + days]]
  /\ UNCHANGED <<acUser, acRegister, acRoles, acGranted, acAnswered, acNow>>

AcVerifyKey(k) ==
  /\ acKeys[k].active /\ ~(acNow > acKeys[k].expires)
  /\ acKeys' = [acKeys EXCEPT ![k].used = acNow]
  /\ UNCHANGED <<acUser, acRegister, acRoles, acGranted, acAnswered, acNow>>

AcRevokeKey(k) ==
  /\ acKeys[k].there
  /\ acKeys' = [acKeys EXCEPT ![k].active = FALSE]
  /\ UNCHANGED <<acUser, acRegister, acRoles, acGranted, acAnswered, acNow>>

AcTick ==
  /\ acNow < AcEnd
  /\ acNow' = acNow + 1
  /\ UNCHANGED <<acUser, acRegister, acRoles, acGranted, acAnswered, acKeys>>

AcNext ==
  \/ \E r \in AcRequest : AcCommit(r) \/ \E e \in AcEmail : AcBegin(r, e)
  \/ \E r \in AcRole : AcAssign(r) \/ AcRevokeRole(r)
  \/ \E p \in AcPermission : AcGrant(p) \/ AcRevoke(p)
  \/ \E k \in AcKey : AcVerifyKey(k) \/ AcRevokeKey(k) \/ \E d \in {0, 1} : AcCreateKey(k, d)
  \/ AcTick
-----------------------------------------------------------------------------
AcTypeOK ==
  /\ acUser \in [AcEmail -> Nat]
  /\ acRegister \in [AcRequest -> [email : AcEmail, at : {"idle", "refused", "found_none", "registered", "raised"}]]
  /\ acRoles \in [AcRole -> 0..AcRows] /\ acGranted \in [AcPermission -> 0..AcRows]
  /\ acNow \in 0..AcEnd
  /\ acKeys \in [AcKey -> [there : BOOLEAN, active : BOOLEAN, expires : Nat, used : Nat]]

\* Of all who register an email at once one has the account: each account is that of
\* the one request that was told so.
AcOneAccount ==
  \A e \in AcEmail :
    /\ acUser[e] = Cardinality({r \in AcRequest : acRegister[r].email = e /\ acRegister[r].at = "registered"})
    /\ acUser[e] <= 1

\* A permission that is answered to be revoked is one that the user does not have any
\* more, unless a role has it.
AcRevoked ==
  acAnswered.answer = "revoked" /\ acAnswered.permission \in AcPermissions =>
    \E r \in AcRole : acRoles[r] > 0 /\ acAnswered.permission \in AcOf[r]

\* A key is not used after its time.
AcKeysExpire == \A k \in AcKey : acKeys[k].used <= acKeys[k].expires

AcSound == AcOneAccount /\ AcRevoked /\ AcKeysExpire
=============================================================================
