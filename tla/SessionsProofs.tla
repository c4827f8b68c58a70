--------------------------- MODULE SessionsProofs ---------------------------
(***************************************************************************)
(* Proofs about sessions, for any number of users, organisations, tokens   *)
(* and concurrent requests.  SessionsInv is inductive; from it follow that *)
(* a session has one credential and that the service implements the baton  *)
(* of SessionFamilies.                                                     *)
(***************************************************************************)
EXTENDS Sessions, TLAPS

\* A refresh_tokens row is not the absence of one.
LEMMA NullIsNoRow == NULL \notin Rows
BY SessionsAssumption

\* Marking a row leaves the rest of it as it was.
LEMMA MarkedRow ==
    ASSUME NEW row \in Rows
    PROVE  /\ [row EXCEPT !.revoked = TRUE] \in Rows
           /\ [row EXCEPT !.revoked = TRUE].family = row.family
           /\ [row EXCEPT !.revoked = TRUE].used = row.used
           /\ [row EXCEPT !.used = TRUE] \in Rows
           /\ [row EXCEPT !.used = TRUE].family = row.family
           /\ [row EXCEPT !.used = TRUE].used
BY Zenon DEF Rows

\* The state before any request satisfies the invariant.
LEMMA SessionsInitial == Init => SessionsInv
<1> SUFFICES ASSUME Init PROVE SessionsInv
  OBVIOUS
<1>1. SessionsTypeOK
  BY SessionsAssumption DEF Init, SessionsTypeOK, Idle, Reqs, Pcs, Statuses
<1>2. OneCredentialPerSession
  BY DEF Init, OneCredentialPerSession, Renewing, Idle
<1> QED
  BY <1>1, <1>2 DEF Init, SessionsInv, Idle, RowsKnown, RequestOK

\* A step that leaves the tokens alone, or only marks or removes some, and
\* moves requests without making a new one renew, keeps one credential per
\* session.
LEMMA CredentialKept ==
    ASSUME SessionsInv, minted' = minted,
           \A k \in Token : rows'[k] # NULL =>
              /\ rows[k] # NULL /\ rows'[k].family = rows[k].family
              /\ rows[k].used => rows'[k].used,
           \A r \in Request, f \in Token : Renewing(r, f)' => Renewing(r, f)
    PROVE  OneCredentialPerSession'
<1>1. OneCredentialPerSession
  BY DEF SessionsInv
<1> SUFFICES ASSUME NEW f \in Token
    PROVE  /\ \A j, k \in Token :
                 /\ rows'[j] # NULL /\ rows'[j].family = f /\ ~rows'[j].used
                 /\ rows'[k] # NULL /\ rows'[k].family = f /\ ~rows'[k].used
                 => j = k
           /\ \A r, s \in Request : Renewing(r, f)' /\ Renewing(s, f)' => r = s
           /\ \A k \in Token, r \in Request :
                 rows'[k] # NULL /\ rows'[k].family = f /\ ~rows'[k].used
                 => ~Renewing(r, f)'
  BY Zenon DEF OneCredentialPerSession
<1>2. \A k \in Token :
         rows'[k] # NULL /\ rows'[k].family = f /\ ~rows'[k].used
         => rows[k] # NULL /\ rows[k].family = f /\ ~rows[k].used
  BY Zenon
<1>3. \A j, k \in Token :
         /\ rows[j] # NULL /\ rows[j].family = f /\ ~rows[j].used
         /\ rows[k] # NULL /\ rows[k].family = f /\ ~rows[k].used
         => j = k
  BY <1>1, Zenon DEF OneCredentialPerSession
<1>4. \A r, s \in Request : Renewing(r, f) /\ Renewing(s, f) => r = s
  BY <1>1, Zenon DEF OneCredentialPerSession
<1>5. \A k \in Token, r \in Request :
         rows[k] # NULL /\ rows[k].family = f /\ ~rows[k].used => ~Renewing(r, f)
  BY <1>1, Zenon DEF OneCredentialPerSession
<1> QED
  BY <1>2, <1>3, <1>4, <1>5, Zenon


\* selectTenant picks an organisation.
LEMMA SelectedIsOrg ==
    ASSUME SessionsTypeOK, NEW u, NEW slug
    PROVE  SelectTenant(u, slug) \subseteq Org
<1>1. {o \in ListMembershipsForUser(u) : membership[u][o] = "active"} \subseteq Org
  BY DEF SessionsTypeOK, ListMembershipsForUser
<1> QED
  BY <1>1, Zenon DEF SelectTenant

(* One lemma per action: it preserves the invariant.                       *)

LEMMA RegisterInv ==
    ASSUME SessionsInv, NEW r \in Request, NEW u \in User, NEW o \in Org, Register(r, u, o)
    PROVE  SessionsInv'
<1> USE DEF accountVars, CreateUser
<1>1. SessionsTypeOK'
  BY SessionsAssumption DEF SessionsInv, SessionsTypeOK, RequestOK, Register,
     Reqs, Rows, Pcs, At, Idle, Statuses
<1>2. rows' = rows /\ minted' = minted
  BY DEF Register
<1>3. \A s \in Request, f \in Token : Renewing(s, f)' => Renewing(s, f)
  BY SessionsAssumption DEF SessionsInv, SessionsTypeOK, RequestOK, Register,
     Renewing, Reqs, At, Idle
<1>4. OneCredentialPerSession'
  BY <1>2, <1>3, CredentialKept, Zenon
<1>5. RowsKnown'
  BY <1>2 DEF SessionsInv, RowsKnown
<1>6. \A s \in Request : RequestOK(s)'
  BY <1>2, SessionsAssumption DEF SessionsInv, SessionsTypeOK, RequestOK, RowsKnown,
     Register, Reqs, Rows, At, Idle
<1> QED
  BY <1>1, <1>4, <1>5, <1>6 DEF SessionsInv

LEMMA CreateTenantWithOwnerInv ==
    ASSUME SessionsInv, NEW r \in Request, CreateTenantWithOwner(r)
    PROVE  SessionsInv'
<1> USE DEF accountVars, CreateTenant, CreateOwner
<1>1. SessionsTypeOK'
  BY SessionsAssumption, SMTT(40) DEF SessionsInv, SessionsTypeOK, RequestOK, CreateTenantWithOwner,
     Reqs, Rows, Pcs, At, Idle, Statuses
<1>2. rows' = rows /\ minted' = minted
  BY DEF CreateTenantWithOwner
<1>3. \A s \in Request, f \in Token : Renewing(s, f)' => Renewing(s, f)
  BY SessionsAssumption DEF SessionsInv, SessionsTypeOK, RequestOK, CreateTenantWithOwner,
     Renewing, Reqs, At, Idle
<1>4. OneCredentialPerSession'
  BY <1>2, <1>3, CredentialKept, Zenon
<1>5. RowsKnown'
  BY <1>2 DEF SessionsInv, RowsKnown
<1>6. \A s \in Request : RequestOK(s)'
  BY <1>2, SessionsAssumption DEF SessionsInv, SessionsTypeOK, RequestOK, RowsKnown,
     CreateTenantWithOwner, Reqs, Rows, At, Idle
<1> QED
  BY <1>1, <1>4, <1>5, <1>6 DEF SessionsInv

LEMMA LoginInv ==
    ASSUME SessionsInv, NEW r \in Request, NEW u \in User, Login(r, u)
    PROVE  SessionsInv'
<1> USE DEF accountVars
<1>1. SessionsTypeOK'
  BY SessionsAssumption DEF SessionsInv, SessionsTypeOK, RequestOK, Login,
     Reqs, Rows, Pcs, At, Idle, Statuses
<1>2. rows' = rows /\ minted' = minted
  BY DEF Login
<1>3. \A s \in Request, f \in Token : Renewing(s, f)' => Renewing(s, f)
  BY SessionsAssumption DEF SessionsInv, SessionsTypeOK, RequestOK, Login,
     Renewing, Reqs, At, Idle
<1>4. OneCredentialPerSession'
  BY <1>2, <1>3, CredentialKept, Zenon
<1>5. RowsKnown'
  BY <1>2 DEF SessionsInv, RowsKnown
<1>6. \A s \in Request : RequestOK(s)'
  BY <1>2, SessionsAssumption DEF SessionsInv, SessionsTypeOK, RequestOK, RowsKnown,
     Login, Reqs, Rows, At, Idle
<1> QED
  BY <1>1, <1>4, <1>5, <1>6 DEF SessionsInv

LEMMA LoginToInv ==
    ASSUME SessionsInv, NEW r \in Request, NEW slug \in Org \cup {NULL}, LoginTo(r, slug)
    PROVE  SessionsInv'
<1> USE DEF accountVars
<1>0. PICK o \in Org : req' = [req EXCEPT ![r].pc = "issue", ![r].org = o]
  BY SelectedIsOrg, Zenon DEF SessionsInv, LoginTo
<1>1. SessionsTypeOK'
  <2>1. /\ req \in [Request -> Reqs]
        /\ [req[r] EXCEPT !.pc = "issue", !.org = o] \in Reqs
    BY ZenonT(60) DEF SessionsInv, SessionsTypeOK, Reqs, Pcs
  <2>2. req' \in [Request -> Reqs]
    BY <1>0, <2>1
  <2>3. UNCHANGED <<accountVars, rows, minted>>
    BY DEF LoginTo
  <2> QED
    BY <2>2, <2>3 DEF SessionsInv, SessionsTypeOK
<1>2. rows' = rows /\ minted' = minted
  BY DEF LoginTo
<1>3. \A s \in Request, f \in Token : Renewing(s, f)' => Renewing(s, f)
  BY <1>0, SessionsAssumption DEF SessionsInv, SessionsTypeOK, RequestOK, LoginTo,
     Renewing, Reqs, At, Idle
<1>4. OneCredentialPerSession'
  BY <1>2, <1>3, CredentialKept, Zenon
<1>5. RowsKnown'
  BY <1>2 DEF SessionsInv, RowsKnown
<1>6. \A s \in Request : RequestOK(s)'
  BY <1>0, <1>2, SessionsAssumption DEF SessionsInv, SessionsTypeOK, RequestOK, RowsKnown,
     LoginTo, Reqs, Rows, At, Idle
<1> QED
  BY <1>1, <1>4, <1>5, <1>6 DEF SessionsInv

LEMMA SwitchTenantInv ==
    ASSUME SessionsInv, NEW r \in Request, NEW u \in User, NEW target \in Org, SwitchTenant(r, u, target)
    PROVE  SessionsInv'
<1> USE DEF accountVars
<1>1. SessionsTypeOK'
  BY SessionsAssumption DEF SessionsInv, SessionsTypeOK, RequestOK, SwitchTenant,
     Reqs, Rows, Pcs, At, Idle, Statuses
<1>2. rows' = rows /\ minted' = minted
  BY DEF SwitchTenant
<1>3. \A s \in Request, f \in Token : Renewing(s, f)' => Renewing(s, f)
  BY SessionsAssumption DEF SessionsInv, SessionsTypeOK, RequestOK, SwitchTenant,
     Renewing, Reqs, At, Idle
<1>4. OneCredentialPerSession'
  BY <1>2, <1>3, CredentialKept, Zenon
<1>5. RowsKnown'
  BY <1>2 DEF SessionsInv, RowsKnown
<1>6. \A s \in Request : RequestOK(s)'
  BY <1>2, SessionsAssumption DEF SessionsInv, SessionsTypeOK, RequestOK, RowsKnown,
     SwitchTenant, Reqs, Rows, At, Idle
<1> QED
  BY <1>1, <1>4, <1>5, <1>6 DEF SessionsInv

LEMMA ChangePasswordInv ==
    ASSUME SessionsInv, NEW r \in Request, NEW u \in User, ChangePassword(r, u)
    PROVE  SessionsInv'
<1> USE DEF accountVars
<1>1. SessionsTypeOK'
  BY SessionsAssumption DEF SessionsInv, SessionsTypeOK, RequestOK, ChangePassword,
     Reqs, Rows, Pcs, At, Idle, Statuses
<1>2. rows' = rows /\ minted' = minted
  BY DEF ChangePassword
<1>3. \A s \in Request, f \in Token : Renewing(s, f)' => Renewing(s, f)
  BY SessionsAssumption DEF SessionsInv, SessionsTypeOK, RequestOK, ChangePassword,
     Renewing, Reqs, At, Idle
<1>4. OneCredentialPerSession'
  BY <1>2, <1>3, CredentialKept, Zenon
<1>5. RowsKnown'
  BY <1>2 DEF SessionsInv, RowsKnown
<1>6. \A s \in Request : RequestOK(s)'
  BY <1>2, SessionsAssumption DEF SessionsInv, SessionsTypeOK, RequestOK, RowsKnown,
     ChangePassword, Reqs, Rows, At, Idle
<1> QED
  BY <1>1, <1>4, <1>5, <1>6 DEF SessionsInv

LEMMA RefreshFindInv ==
    ASSUME SessionsInv, NEW r \in Request, NEW k \in Token, RefreshFind(r, k)
    PROVE  SessionsInv'
<1> USE DEF accountVars
<1>1. SessionsTypeOK'
  BY NullIsNoRow, SessionsAssumption DEF SessionsInv, SessionsTypeOK, RequestOK, RefreshFind, GetRefreshTokenByHash,
     Reqs, Rows, Pcs, At, Idle, Statuses
<1>2. rows' = rows /\ minted' = minted
  BY DEF RefreshFind
<1>3. \A s \in Request, f \in Token : Renewing(s, f)' => Renewing(s, f)
  BY SessionsAssumption DEF SessionsInv, SessionsTypeOK, RequestOK, RefreshFind, GetRefreshTokenByHash,
     Renewing, Reqs, At, Idle
<1>4. OneCredentialPerSession'
  BY <1>2, <1>3, CredentialKept, Zenon
<1>5. RowsKnown'
  BY <1>2 DEF SessionsInv, RowsKnown
<1>6. \A s \in Request : RequestOK(s)'
  BY <1>2, NullIsNoRow, SessionsAssumption DEF SessionsInv, SessionsTypeOK, RequestOK, RowsKnown,
     RefreshFind, GetRefreshTokenByHash, Reqs, Rows, At, Idle
<1> QED
  BY <1>1, <1>4, <1>5, <1>6 DEF SessionsInv

LEMMA RefreshLoadInv ==
    ASSUME SessionsInv, NEW r \in Request, RefreshLoad(r)
    PROVE  SessionsInv'
<1> USE DEF accountVars
<1>0. PICK o \in Org : req' = [req EXCEPT ![r].pc = "issue", ![r].org = o]
  BY SelectedIsOrg, Zenon DEF SessionsInv, RefreshLoad
<1>1. SessionsTypeOK'
  <2>1. /\ req \in [Request -> Reqs]
        /\ [req[r] EXCEPT !.pc = "issue", !.org = o] \in Reqs
    BY Zenon DEF SessionsInv, SessionsTypeOK, Reqs, Pcs
  <2>2. req' \in [Request -> Reqs]
    BY <1>0, <2>1
  <2>3. UNCHANGED <<accountVars, rows, minted>>
    BY DEF RefreshLoad
  <2> QED
    BY <2>2, <2>3 DEF SessionsInv, SessionsTypeOK
<1>2. rows' = rows /\ minted' = minted
  BY DEF RefreshLoad
<1>3. \A s \in Request, f \in Token : Renewing(s, f)' => Renewing(s, f)
  BY <1>0, SessionsAssumption DEF SessionsInv, SessionsTypeOK, RequestOK, RefreshLoad,
     Renewing, Reqs, At, Idle
<1>4. OneCredentialPerSession'
  BY <1>2, <1>3, CredentialKept, Zenon
<1>5. RowsKnown'
  BY <1>2 DEF SessionsInv, RowsKnown
<1>6. \A s \in Request : RequestOK(s)'
  BY <1>0, <1>2, SessionsAssumption DEF SessionsInv, SessionsTypeOK, RequestOK, RowsKnown,
     RefreshLoad, Reqs, Rows, At, Idle
<1> QED
  BY <1>1, <1>4, <1>5, <1>6 DEF SessionsInv

LEMMA FailInv ==
    ASSUME SessionsInv, NEW r \in Request, Fail(r)
    PROVE  SessionsInv'
<1> USE DEF accountVars
<1>1. SessionsTypeOK'
  BY SessionsAssumption DEF SessionsInv, SessionsTypeOK, RequestOK, Fail,
     Reqs, Rows, Pcs, At, Idle, Statuses
<1>2. rows' = rows /\ minted' = minted
  BY DEF Fail
<1>3. \A s \in Request, f \in Token : Renewing(s, f)' => Renewing(s, f)
  BY SessionsAssumption DEF SessionsInv, SessionsTypeOK, RequestOK, Fail,
     Renewing, Reqs, At, Idle
<1>4. OneCredentialPerSession'
  BY <1>2, <1>3, CredentialKept, Zenon
<1>5. RowsKnown'
  BY <1>2 DEF SessionsInv, RowsKnown
<1>6. \A s \in Request : RequestOK(s)'
  BY <1>2, SessionsAssumption DEF SessionsInv, SessionsTypeOK, RequestOK, RowsKnown,
     Fail, Reqs, Rows, At, Idle
<1> QED
  BY <1>1, <1>4, <1>5, <1>6 DEF SessionsInv

LEMMA RefreshRevokeInv ==
    ASSUME SessionsInv, NEW r \in Request, RefreshRevoke(r)
    PROVE  SessionsInv'
<1> USE DEF accountVars
<1>0. /\ rows' \in [Token -> Rows \cup {NULL}]
      /\ \A k \in Token : rows'[k] # NULL =>
            /\ rows[k] # NULL /\ rows'[k].family = rows[k].family
            /\ rows[k].used => rows'[k].used
  <2>1. rows \in [Token -> Rows \cup {NULL}]
    BY DEF SessionsInv, SessionsTypeOK
  <2>2. rows' = RevokeRefreshTokenFamily(req[r].family)
    BY DEF RefreshRevoke
  <2> QED
    BY <2>1, <2>2, MarkedRow, Zenon DEF RevokeRefreshTokenFamily
<1>1. SessionsTypeOK'
  BY <1>0 DEF SessionsInv, SessionsTypeOK, RefreshRevoke, Reqs, Pcs, Idle
<1>2. minted' = minted
  BY DEF RefreshRevoke
<1>3. \A k \in Token : rows'[k] # NULL =>
         /\ rows[k] # NULL /\ rows'[k].family = rows[k].family
         /\ rows[k].used => rows'[k].used
  BY <1>0
<1>4. \A s \in Request, f \in Token : Renewing(s, f)' => Renewing(s, f)
  BY DEF SessionsInv, SessionsTypeOK, RefreshRevoke, Renewing, Idle
<1>5. OneCredentialPerSession'
  BY <1>2, <1>3, <1>4, CredentialKept, Zenon
<1>6. RowsKnown'
  BY <1>2, <1>3 DEF SessionsInv, RowsKnown
<1>7. \A s \in Request : req'[s] = req[s] \/ req'[s] = Idle
  BY DEF SessionsInv, SessionsTypeOK, RefreshRevoke
<1>8. \A s \in Request : RequestOK(s)'
  BY <1>2, <1>3, <1>7 DEF SessionsInv, SessionsTypeOK, RequestOK, Idle
<1> QED
  BY <1>1, <1>5, <1>6, <1>8 DEF SessionsInv

LEMMA RevokeAllInv ==
    ASSUME SessionsInv, NEW r \in Request, RevokeAll(r)
    PROVE  SessionsInv'
<1> USE DEF accountVars
<1>0. /\ rows' \in [Token -> Rows \cup {NULL}]
      /\ \A k \in Token : rows'[k] # NULL =>
            /\ rows[k] # NULL /\ rows'[k].family = rows[k].family
            /\ rows[k].used => rows'[k].used
  <2>1. rows \in [Token -> Rows \cup {NULL}]
    BY DEF SessionsInv, SessionsTypeOK
  <2>2. rows' = RevokeAllRefreshTokensForUser(req[r].user)
    BY DEF RevokeAll
  <2> QED
    BY <2>1, <2>2, MarkedRow, Zenon DEF RevokeAllRefreshTokensForUser
<1>1. SessionsTypeOK'
  BY <1>0 DEF SessionsInv, SessionsTypeOK, RevokeAll, Reqs, Pcs, Idle
<1>2. minted' = minted
  BY DEF RevokeAll
<1>3. \A k \in Token : rows'[k] # NULL =>
         /\ rows[k] # NULL /\ rows'[k].family = rows[k].family
         /\ rows[k].used => rows'[k].used
  BY <1>0
<1>4. \A s \in Request, f \in Token : Renewing(s, f)' => Renewing(s, f)
  BY DEF SessionsInv, SessionsTypeOK, RevokeAll, Renewing, Idle
<1>5. OneCredentialPerSession'
  BY <1>2, <1>3, <1>4, CredentialKept, Zenon
<1>6. RowsKnown'
  BY <1>2, <1>3 DEF SessionsInv, RowsKnown
<1>7. \A s \in Request : req'[s] = req[s] \/ req'[s] = Idle
  BY DEF SessionsInv, SessionsTypeOK, RevokeAll
<1>8. \A s \in Request : RequestOK(s)'
  BY <1>2, <1>3, <1>7 DEF SessionsInv, SessionsTypeOK, RequestOK, Idle
<1> QED
  BY <1>1, <1>5, <1>6, <1>8 DEF SessionsInv

LEMMA ExpireInv ==
    ASSUME SessionsInv, NEW x \in Token, Expire(x)
    PROVE  SessionsInv'
<1> USE DEF accountVars
<1>1. SessionsTypeOK'
  BY NullIsNoRow, ZenonT(60) DEF SessionsInv, SessionsTypeOK, Expire,
     Reqs, Rows, Pcs, Idle
<1>2. minted' = minted
  BY DEF Expire
<1>3. \A k \in Token : rows'[k] # NULL =>
         /\ rows[k] # NULL /\ rows'[k].family = rows[k].family
         /\ rows[k].used => rows'[k].used
  BY NullIsNoRow DEF SessionsInv, SessionsTypeOK, Expire, Rows
<1>4. \A s \in Request, f \in Token : Renewing(s, f)' => Renewing(s, f)
  BY DEF SessionsInv, SessionsTypeOK, Expire, Renewing, Idle
<1>5. OneCredentialPerSession'
  BY <1>2, <1>3, <1>4, CredentialKept, Zenon
<1>6. RowsKnown'
  BY <1>2, <1>3 DEF SessionsInv, RowsKnown
<1>7. \A s \in Request : req'[s] = req[s] \/ req'[s] = Idle
  BY DEF SessionsInv, SessionsTypeOK, Expire
<1>8. \A s \in Request : RequestOK(s)'
  BY <1>2, <1>3, <1>7 DEF SessionsInv, SessionsTypeOK, RequestOK, Idle
<1> QED
  BY <1>1, <1>5, <1>6, <1>8 DEF SessionsInv

LEMMA SessionCleanupInv ==
    ASSUME SessionsInv, SessionCleanup
    PROVE  SessionsInv'
<1> USE DEF accountVars
<1>1. SessionsTypeOK'
  BY NullIsNoRow DEF SessionsInv, SessionsTypeOK, SessionCleanup, DeleteExpiredRefreshTokens,
     Reqs, Rows, Pcs, Idle
<1>2. minted' = minted
  BY DEF SessionCleanup
<1>3. \A k \in Token : rows'[k] # NULL =>
         /\ rows[k] # NULL /\ rows'[k].family = rows[k].family
         /\ rows[k].used => rows'[k].used
  BY NullIsNoRow DEF SessionsInv, SessionsTypeOK, SessionCleanup, DeleteExpiredRefreshTokens, Rows
<1>4. \A s \in Request, f \in Token : Renewing(s, f)' => Renewing(s, f)
  BY DEF SessionsInv, SessionsTypeOK, SessionCleanup, Renewing, Idle
<1>5. OneCredentialPerSession'
  BY <1>2, <1>3, <1>4, CredentialKept, Zenon
<1>6. RowsKnown'
  BY <1>2, <1>3 DEF SessionsInv, RowsKnown
<1>7. \A s \in Request : req'[s] = req[s] \/ req'[s] = Idle
  BY DEF SessionsInv, SessionsTypeOK, SessionCleanup
<1>8. \A s \in Request : RequestOK(s)'
  BY <1>2, <1>3, <1>7 DEF SessionsInv, SessionsTypeOK, RequestOK, Idle
<1> QED
  BY <1>1, <1>5, <1>6, <1>8 DEF SessionsInv

LEMMA MembershipChangesInv ==
    ASSUME SessionsInv, NEW u \in User, NEW o \in Org, NEW s \in NewStatus,
           MembershipChanges(u, o, s)
    PROVE  SessionsInv'
<1>1. SessionsTypeOK'
  BY SessionsAssumption DEF SessionsInv, SessionsTypeOK, MembershipChanges
<1> QED
  BY <1>1 DEF SessionsInv, MembershipChanges, OneCredentialPerSession, RowsKnown,
     RequestOK, Renewing

\* The compare-and-swap: a winner turns the family's unspent token into a
\* renewal, so the family still has one credential.
LEMMA RefreshConsumeInv ==
    ASSUME SessionsInv, NEW r \in Request, RefreshConsume(r)
    PROVE  SessionsInv'
<1> USE DEF accountVars
<1> DEFINE k == req[r].token
           f == req[r].family
<1>1. /\ k \in Token /\ f \in Token /\ req[r].pc = "consume"
      /\ rows[k] # NULL => rows[k].family = f
  BY DEF SessionsInv, SessionsTypeOK, RequestOK, RefreshConsume, Reqs
<1>2. CASE MarkRefreshTokenUsed(k)
  <2>1. /\ rows' = [rows EXCEPT ![k].used = TRUE]
        /\ req' = [req EXCEPT ![r].pc = "load"]
        /\ minted' = minted /\ UNCHANGED accountVars
    BY <1>2 DEF RefreshConsume
  <2>2. rows[k] \in Rows /\ ~rows[k].used
    BY <1>1, <1>2 DEF MarkRefreshTokenUsed, SessionsInv, SessionsTypeOK
  <2>3. SessionsTypeOK'
    <3>1. rows' \in [Token -> Rows \cup {NULL}]
      BY <1>1, <2>1, <2>2, MarkedRow, Zenon DEF SessionsInv, SessionsTypeOK
    <3> QED
      BY <2>1, <3>1, SMTT(40) DEF SessionsInv, SessionsTypeOK, Reqs, Pcs
  <2>4. \A x \in Token : rows'[x] # NULL =>
           /\ rows[x] # NULL /\ rows'[x].family = rows[x].family
           /\ rows[x].used => rows'[x].used
           /\ ~rows'[x].used => x # k
    <3>1. rows \in [Token -> Rows \cup {NULL}]
      BY DEF SessionsInv, SessionsTypeOK
    <3>2. /\ rows'[k] = [rows[k] EXCEPT !.used = TRUE]
          /\ \A x \in Token : x # k => rows'[x] = rows[x]
      BY <1>1, <2>1, <3>1, Zenon
    <3>3. rows[k] # NULL /\ rows'[k].family = rows[k].family /\ rows'[k].used
      BY <2>2, <3>2, MarkedRow, NullIsNoRow
    <3> HIDE DEF k
    <3> QED
      BY <3>2, <3>3, Zenon
  <2>5. \A s \in Request, g \in Token :
           Renewing(s, g)' => Renewing(s, g) \/ (s = r /\ g = f)
    BY <1>1, <2>1 DEF SessionsInv, SessionsTypeOK, Renewing, Reqs
  <2>6. rows[k] # NULL /\ rows[k].family = f /\ ~rows[k].used
    BY <1>1, <1>2 DEF MarkRefreshTokenUsed
  <2>7. OneCredentialPerSession'
    <3> SUFFICES ASSUME NEW g \in Token
        PROVE  /\ \A i, j \in Token :
                     /\ rows'[i] # NULL /\ rows'[i].family = g /\ ~rows'[i].used
                     /\ rows'[j] # NULL /\ rows'[j].family = g /\ ~rows'[j].used
                     => i = j
               /\ \A s, q \in Request : Renewing(s, g)' /\ Renewing(q, g)' => s = q
               /\ \A j \in Token, s \in Request :
                     rows'[j] # NULL /\ rows'[j].family = g /\ ~rows'[j].used
                     => ~Renewing(s, g)'
      BY Zenon DEF OneCredentialPerSession
    <3> HIDE DEF k, f
    <3>1. /\ \A i, j \in Token :
                /\ rows[i] # NULL /\ rows[i].family = g /\ ~rows[i].used
                /\ rows[j] # NULL /\ rows[j].family = g /\ ~rows[j].used
                => i = j
          /\ \A s, q \in Request : Renewing(s, g) /\ Renewing(q, g) => s = q
          /\ \A j \in Token, s \in Request :
                rows[j] # NULL /\ rows[j].family = g /\ ~rows[j].used => ~Renewing(s, g)
      BY Zenon DEF SessionsInv, OneCredentialPerSession
    <3>2. g = f => /\ \A s \in Request : ~Renewing(s, f)
                   /\ \A j \in Token :
                         rows[j] # NULL /\ rows[j].family = f /\ ~rows[j].used => j = k
      BY <1>1, <2>6, <3>1, Zenon
    <3>3. \A j \in Token : rows'[j] # NULL /\ rows'[j].family = g /\ ~rows'[j].used =>
             rows[j] # NULL /\ rows[j].family = g /\ ~rows[j].used /\ j # k
      BY <2>4, Zenon
    <3>4. g = f => \A j \in Token :
             ~(rows'[j] # NULL /\ rows'[j].family = g /\ ~rows'[j].used)
      BY <3>2, <3>3, Zenon
    <3>5. \A s \in Request : Renewing(s, g)' => Renewing(s, g) \/ (s = r /\ g = f)
      BY <2>5, Zenon
    <3> QED
      BY <3>1, <3>2, <3>3, <3>4, <3>5, Zenon
  <2>8. RowsKnown'
    BY <2>1, <2>4 DEF SessionsInv, RowsKnown
  <2>9. \A s \in Request : RequestOK(s)'
    BY <1>1, <2>1, <2>4 DEF SessionsInv, SessionsTypeOK, RequestOK, Reqs
  <2> QED
    BY <2>3, <2>7, <2>8, <2>9 DEF SessionsInv
<1>3. CASE ~MarkRefreshTokenUsed(k)
  <2>1. /\ rows' = rows /\ req' = [req EXCEPT ![r].pc = "revoke"]
        /\ minted' = minted /\ UNCHANGED accountVars
    BY <1>3 DEF RefreshConsume
  <2>2. SessionsTypeOK'
    BY <2>1, ZenonT(60) DEF SessionsInv, SessionsTypeOK, Reqs, Pcs
  <2>3. \A s \in Request, g \in Token : Renewing(s, g)' => Renewing(s, g)
    BY <2>1 DEF SessionsInv, SessionsTypeOK, Renewing, Reqs
  <2>4. OneCredentialPerSession'
    BY <2>1, <2>3, CredentialKept, Zenon
  <2>5. RowsKnown' /\ \A s \in Request : RequestOK(s)'
    BY <1>1, <2>1 DEF SessionsInv, SessionsTypeOK, RowsKnown, RequestOK, Reqs
  <2> QED
    BY <2>2, <2>4, <2>5 DEF SessionsInv
<1> QED
  BY <1>2, <1>3

\* An issued token is new; it starts a family of its own, or takes the place
\* of the renewal that issues it.
LEMMA IssueInv ==
    ASSUME SessionsInv, NEW r \in Request, NEW k \in Token, Issue(r, k)
    PROVE  SessionsInv'
<1> DEFINE f == IF req[r].family = NULL THEN k ELSE req[r].family
           row == [user |-> req[r].user, family |-> f, used |-> FALSE, revoked |-> FALSE,
                   expired |-> FALSE]
<1>1. /\ req[r].user \in User /\ req[r].pc = "issue"
      /\ f \in Token /\ f \in minted \cup {k} /\ k \notin minted
      /\ req[r].family # NULL => Renewing(r, f)
      /\ req[r].family = NULL => f = k
  BY SessionsAssumption DEF SessionsInv, SessionsTypeOK, RequestOK, Issue, Renewing
<1>2. /\ rows' = [rows EXCEPT ![k] = row]
      /\ minted' = minted \cup {k}
      /\ req' = [req EXCEPT ![r] = Idle]
      /\ signedIn' = signedIn \cup {req[r].user}
      /\ UNCHANGED <<account, membership, open>>
  BY DEF Issue, CreateRefreshToken, IssueAccess
<1>3. rows \in [Token -> Rows \cup {NULL}] /\ row \in Rows /\ rows[k] = NULL
  BY <1>1 DEF SessionsInv, SessionsTypeOK, RowsKnown, Rows
<1>4. SessionsTypeOK'
  <2>1. rows' \in [Token -> Rows \cup {NULL}]
    BY <1>2, <1>3
  <2>2. req' \in [Request -> Reqs]
    BY <1>2 DEF SessionsInv, SessionsTypeOK, Reqs, Pcs, Idle
  <2> QED
    BY <1>1, <1>2, <2>1, <2>2 DEF SessionsInv, SessionsTypeOK
<1>5. /\ rows'[k] = row /\ row.family = f /\ ~row.used
      /\ \A x \in Token : x # k => rows'[x] = rows[x]
  BY <1>2, <1>3
<1>6. \A s \in Request, g \in Token : Renewing(s, g)' => s # r /\ Renewing(s, g)
  BY <1>2 DEF SessionsInv, SessionsTypeOK, Renewing, Idle
<1>7. req[r].family = NULL =>
         /\ \A x \in Token : rows[x] # NULL => rows[x].family # f
         /\ \A s \in Request : ~Renewing(s, f)
  BY <1>1, SessionsAssumption DEF SessionsInv, SessionsTypeOK, RowsKnown, RequestOK, Renewing
<1> HIDE DEF f, row
<1>8. OneCredentialPerSession'
  <2> SUFFICES ASSUME NEW g \in Token
      PROVE  /\ \A i, j \in Token :
                   /\ rows'[i] # NULL /\ rows'[i].family = g /\ ~rows'[i].used
                   /\ rows'[j] # NULL /\ rows'[j].family = g /\ ~rows'[j].used
                   => i = j
             /\ \A s, q \in Request : Renewing(s, g)' /\ Renewing(q, g)' => s = q
             /\ \A j \in Token, s \in Request :
                   rows'[j] # NULL /\ rows'[j].family = g /\ ~rows'[j].used
                   => ~Renewing(s, g)'
    BY Zenon DEF OneCredentialPerSession
  <2>1. /\ \A i, j \in Token :
              /\ rows[i] # NULL /\ rows[i].family = g /\ ~rows[i].used
              /\ rows[j] # NULL /\ rows[j].family = g /\ ~rows[j].used
              => i = j
        /\ \A s, q \in Request : Renewing(s, g) /\ Renewing(q, g) => s = q
        /\ \A j \in Token, s \in Request :
              rows[j] # NULL /\ rows[j].family = g /\ ~rows[j].used => ~Renewing(s, g)
    BY Zenon DEF SessionsInv, OneCredentialPerSession
  <2>2. /\ \A j \in Token : rows[j] # NULL /\ rows[j].family = f => rows[j].used
        /\ \A s \in Request : Renewing(s, f) => s = r
    <3>1. CASE req[r].family = NULL
      BY <1>7, <3>1, Zenon
    <3>2. CASE req[r].family # NULL
      BY <1>1, <3>2, Zenon DEF SessionsInv, OneCredentialPerSession
    <3> QED
      BY <3>1, <3>2
  <2>3. \A j \in Token : rows'[j] # NULL /\ rows'[j].family = g /\ ~rows'[j].used =>
           \/ j = k /\ g = f
           \/ g # f /\ rows[j] # NULL /\ rows[j].family = g /\ ~rows[j].used
    BY <1>5, <2>2, Zenon
  <2> QED
    BY <1>6, <2>1, <2>2, <2>3, Zenon
<1>9. RowsKnown'
  <2>1. \A x \in Token : rows[x] # NULL => x \in minted /\ rows[x].family \in minted
    BY DEF SessionsInv, RowsKnown
  <2>2. k \in minted' /\ f \in minted' /\ \A x \in minted : x \in minted'
    BY <1>1, <1>2
  <2> QED
    BY <1>5, <2>1, <2>2, Zenon DEF RowsKnown
<1>10. \A s \in Request : RequestOK(s)'
  <2> SUFFICES ASSUME NEW s \in Request PROVE RequestOK(s)'
    OBVIOUS
  <2>1. CASE s = r
    BY <1>2, <2>1 DEF RequestOK, Idle, SessionsInv, SessionsTypeOK
  <2>2. CASE s # r
    <3>1. req'[s] = req[s] /\ RequestOK(s)
      BY <1>2, <2>2 DEF SessionsInv, SessionsTypeOK
    <3>2. req[s].pc = "consume" => rows'[req[s].token] = rows[req[s].token]
      BY <1>1, <1>5, <3>1 DEF RequestOK, SessionsInv, SessionsTypeOK
    <3> QED
      BY <1>2, <3>1, <3>2 DEF RequestOK
  <2> QED
    BY <2>1, <2>2
<1> QED
  BY <1>4, <1>8, <1>9, <1>10 DEF SessionsInv

\* SessionsInv holds throughout.
THEOREM SessionsInvariance == Spec => []SessionsInv
<1>1. SessionsInv /\ [Next]_vars => SessionsInv'
  <2> SUFFICES ASSUME SessionsInv, [Next]_vars PROVE SessionsInv'
    BY SMTT(40)
  <2>1. CASE UNCHANGED vars
    BY <2>1 DEF vars, SessionsInv, SessionsTypeOK, OneCredentialPerSession, RowsKnown,
       RequestOK, Renewing
  <2>2. ASSUME NEW r \in Request, RequestStep(r) PROVE SessionsInv'
    BY <2>2, RegisterInv, CreateTenantWithOwnerInv, LoginInv, LoginToInv, SwitchTenantInv,
       ChangePasswordInv, RefreshFindInv, RefreshLoadInv, FailInv, RefreshRevokeInv,
       RevokeAllInv, RefreshConsumeInv, IssueInv, Zenon DEF RequestStep
  <2> QED
    BY <2>1, <2>2, ExpireInv, SessionCleanupInv, MembershipChangesInv DEF Next
<1> QED
  BY <1>1, SessionsInitial, PTL DEF Spec

\* A session has one credential: the "exactly one caller wins" of
\* AuthService.Refresh, whatever runs beside it and wherever a request dies.
THEOREM SessionsSafety == Spec => [](SessionsTypeOK /\ OneCredentialPerSession)
<1>1. SessionsInv => SessionsTypeOK /\ OneCredentialPerSession
  BY DEF SessionsInv
<1> QED
  BY <1>1, SessionsInvariance, PTL

-----------------------------------------------------------------------------
(* The refinement: each step is a step of SessionFamilies.                 *)

\* What the invariant says of the two sets the refinement mapping computes.
LEMMA OneUsable ==
    ASSUME SessionsInv, NEW f \in Token
    PROVE  /\ \A j, k \in Token : Usable(j, f) /\ Usable(k, f) => j = k
           /\ \A k \in Token, r \in Request : Usable(k, f) => ~Renewing(r, f)
           /\ \A q, r \in Request : Renewing(q, f) /\ Renewing(r, f) => q = r
BY Zenon DEF SessionsInv, OneCredentialPerSession, Usable

\* A step that makes no token usable and moves no renewal ends sessions, or
\* none.
LEMMA EndStep ==
    ASSUME SessionsInv, minted' = minted,
           \A r \in Request, f \in Token : Renewing(r, f)' <=> Renewing(r, f),
           \A k \in Token, f \in Token : Usable(k, f)' => Usable(k, f)
    PROVE  Families!End
<1>1. renewingRequests' = renewingRequests
  BY Zenon DEF renewingRequests
<1>2. usableTokens' = [f \in Token |-> usableTokens'[f]]
  BY DEF usableTokens
<1>3. ASSUME NEW f \in Token PROVE usableTokens'[f] \in {usableTokens[f], {}}
  <2>1. /\ usableTokens[f] = {k \in Token : Usable(k, f)}
        /\ usableTokens'[f] = {k \in Token : Usable(k, f)'}
    BY Zenon DEF usableTokens
  <2>2. CASE \E x \in Token : Usable(x, f)'
    <3>1. PICK x \in Token : Usable(x, f)'
      BY <2>2
    <3>2. \A k \in Token : Usable(k, f) <=> Usable(k, f)'
      BY <3>1, OneUsable, Zenon
    <3>3. usableTokens'[f] = usableTokens[f]
      BY <2>1, <3>2, Zenon
    <3> QED
      BY <3>3
  <2>3. CASE \A x \in Token : ~Usable(x, f)'
    BY <2>1, <2>3, Zenon
  <2> QED
    BY <2>2, <2>3
<1> QED
  BY <1>1, <1>2, <1>3 DEF Families!End

\* A step of request r that leaves the tokens alone and starts no exchange.
LEMMA QuietStep ==
    ASSUME SessionsInv, NEW r \in Request, rows' = rows, minted' = minted,
           \A s \in Request : s # r => req'[s] = req[s],
           req'[r].pc # "consume",
           \A f \in Token : Renewing(r, f)' <=> Renewing(r, f)
    PROVE  Families!End
<1>1. \A s \in Request, f \in Token : Renewing(s, f)' <=> Renewing(s, f)
  BY Zenon DEF Renewing
<1>2. \A k \in Token, f \in Token : Usable(k, f)' => Usable(k, f)
  BY Zenon DEF Usable
<1> QED
  BY <1>1, <1>2, EndStep, Zenon

\* Every step but an exchange, an issue and a failed renewal ends sessions or
\* none.
LEMMA RequestEnds ==
    ASSUME SessionsInv, NEW r \in Request,
           \/ \E u \in User, o \in Org : Register(r, u, o) \/ SwitchTenant(r, u, o)
           \/ CreateTenantWithOwner(r)
           \/ \E u \in User : Login(r, u) \/ ChangePassword(r, u)
           \/ \E slug \in Org \cup {NULL} : LoginTo(r, slug)
           \/ RefreshLoad(r)
    PROVE  Families!End
<1>1. req \in [Request -> Reqs] /\ RequestOK(r)
  BY DEF SessionsInv, SessionsTypeOK
<1>2. /\ rows' = rows /\ minted' = minted
      /\ \A s \in Request : s # r => req'[s] = req[s]
      /\ req'[r].pc # "consume"
  BY <1>1 DEF Register, SwitchTenant, CreateTenantWithOwner, Login, ChangePassword, LoginTo,
     RefreshLoad, At, accountVars, Reqs
<1>3. \A f \in Token : Renewing(r, f)' <=> Renewing(r, f)
  BY <1>1, SessionsAssumption DEF Register, SwitchTenant, CreateTenantWithOwner, Login,
     ChangePassword, LoginTo, RefreshLoad, At, Reqs, Renewing, RequestOK
<1> QED
  BY <1>2, <1>3, QuietStep, Zenon

LEMMA FindEnds ==
    ASSUME SessionsInv, NEW r \in Request, NEW x \in Token, RefreshFind(r, x)
    PROVE  Families!End
<1>1. req \in [Request -> Reqs] /\ rows' = rows /\ minted' = minted
  BY DEF SessionsInv, SessionsTypeOK, RefreshFind
<1>2. /\ \A s \in Request : s # r => req'[s] = req[s]
      /\ req[r].pc = "idle" /\ req'[r].pc \in {"consume", "revoke"}
      /\ req'[r].token = x /\ ~rows[x].expired
  BY <1>1 DEF RefreshFind, GetRefreshTokenByHash, At
<1>3. \A s \in Request, f \in Token : Renewing(s, f)' <=> Renewing(s, f)
  BY <1>2 DEF Renewing
<1>4. \A k \in Token, f \in Token : Usable(k, f)' => Usable(k, f)
  BY <1>1, <1>2, Zenon DEF Usable
<1> QED
  BY <1>1, <1>3, <1>4, EndStep, Zenon

\* The tokens only lose by a step that marks, ages or removes them.
LEMMA MarkEnds ==
    ASSUME SessionsInv,
           \/ \E r \in Request : RefreshRevoke(r) \/ RevokeAll(r)
           \/ \E k \in Token : Expire(k)
           \/ SessionCleanup
           \/ \E u \in User, o \in Org, s \in NewStatus : MembershipChanges(u, o, s)
    PROVE  Families!End
<1>1. req \in [Request -> Reqs] /\ rows \in [Token -> Rows \cup {NULL}]
  BY DEF SessionsInv, SessionsTypeOK
<1>2. /\ minted' = minted
      /\ \A s \in Request : \/ req'[s] = req[s]
                            \/ req[s].pc \in {"revoke", "revokeAll"} /\ req'[s].pc = "idle"
  BY <1>1 DEF RefreshRevoke, RevokeAll, Expire, SessionCleanup, MembershipChanges, Idle
<1>3. \A k \in Token : rows'[k] # NULL =>
         /\ rows[k] # NULL /\ rows'[k].family = rows[k].family
         /\ rows[k].used => rows'[k].used
         /\ rows[k].revoked => rows'[k].revoked
         /\ rows[k].expired => rows'[k].expired
  <2>1. CASE \E r \in Request : RefreshRevoke(r) \/ RevokeAll(r)
    BY <1>1, <2>1 DEF RefreshRevoke, RevokeAll, RevokeRefreshTokenFamily,
       RevokeAllRefreshTokensForUser, Rows
  <2>2. CASE (\E k \in Token : Expire(k)) \/ SessionCleanup
    BY <1>1, <2>2 DEF Expire, SessionCleanup, DeleteExpiredRefreshTokens, Rows
  <2>3. CASE \E u \in User, o \in Org, s \in NewStatus : MembershipChanges(u, o, s)
    BY <2>3, Zenon DEF MembershipChanges
  <2> QED
    BY <2>1, <2>2, <2>3
<1>4. \A s \in Request, f \in Token : Renewing(s, f)' <=> Renewing(s, f)
  BY <1>2 DEF Renewing
<1>5. \A k \in Token, f \in Token : Usable(k, f)' => Usable(k, f)
  BY <1>2, <1>3 DEF Usable
<1> QED
  BY <1>2, <1>4, <1>5, EndStep, Zenon

\* A request that fails after the swap loses the session; any other failure
\* ends none, or the one whose expired token it was about to swap.
LEMMA FailRefines ==
    ASSUME SessionsInv, NEW r \in Request, Fail(r)
    PROVE  Families!FamiliesNext
<1>1. /\ req \in [Request -> Reqs] /\ rows' = rows /\ minted' = minted
      /\ \A s \in Request : s # r => req'[s] = req[s]
      /\ req'[r].pc = "idle"
  BY DEF SessionsInv, SessionsTypeOK, Fail, Idle
<1>2. \A f \in Token : ~Renewing(r, f)'
  BY <1>1 DEF Renewing
<1>3. CASE \E f \in Token : Renewing(r, f)
  <2>1. PICK f \in Token : Renewing(r, f)
    BY <1>3
  <2>2. \A g \in Token : g # f => ~Renewing(r, g)
    BY <2>1 DEF Renewing
  <2>3. renewingRequests[f] = {r}
    <3>1. \A s \in Request : Renewing(s, f) <=> s = r
      BY <2>1, OneUsable, Zenon
    <3> QED
      BY <3>1, Zenon DEF renewingRequests
  <2>4. renewingRequests' = [renewingRequests EXCEPT ![f] = {}]
    <3>1. \A s \in Request : ~Renewing(s, f)'
      <4>1. \A s \in Request : s # r => ~Renewing(s, f)
        BY <2>1, OneUsable, Zenon
      <4> QED
        BY <1>1, <1>2, <4>1, Zenon DEF Renewing
    <3>2. \A g \in Token, s \in Request : g # f => (Renewing(s, g)' <=> Renewing(s, g))
      BY <1>1, <1>2, <2>2, Zenon DEF Renewing
    <3>3. \A g \in Token : renewingRequests'[g] =
             IF g = f THEN {} ELSE renewingRequests[g]
      BY <3>1, <3>2, Zenon DEF renewingRequests
    <3> QED
      BY <3>3, Zenon DEF renewingRequests
  <2>5. usableTokens' = usableTokens
    <3>1. req[r].pc # "consume"
      BY <2>1 DEF Renewing
    <3>2. \A g \in Token, k \in Token : Usable(k, g)' <=> Usable(k, g)
      BY <1>1, <3>1 DEF Usable
    <3> QED
      BY <3>2, Zenon DEF usableTokens
  <2>6. Families!Lose(f)
    BY <1>1, <2>3, <2>4, <2>5 DEF Families!Lose
  <2> QED
    BY <2>6 DEF Families!FamiliesNext
<1>4. CASE \A f \in Token : ~Renewing(r, f)
  BY <1>1, <1>2, <1>4, QuietStep DEF Families!FamiliesNext
<1> QED
  BY <1>3, <1>4

\* An issued token starts a session or renews the one whose token was spent.
LEMMA IssueRefines ==
    ASSUME SessionsInv, NEW r \in Request, NEW k \in Token, Issue(r, k)
    PROVE  Families!FamiliesNext
<1> DEFINE f == IF req[r].family = NULL THEN k ELSE req[r].family
           row == [user |-> req[r].user, family |-> f, used |-> FALSE, revoked |-> FALSE,
                   expired |-> FALSE]
<1>1. /\ req[r].pc = "issue"
      /\ f \in Token /\ k \notin minted
      /\ req[r].family # NULL => Renewing(r, f) /\ f \in minted
      /\ req[r].family = NULL => f = k
  BY SessionsAssumption DEF SessionsInv, SessionsTypeOK, RequestOK, Issue, Renewing
<1>2. /\ rows' = [rows EXCEPT ![k] = row]
      /\ minted' = minted \cup {k}
      /\ req' = [req EXCEPT ![r] = Idle]
  BY DEF Issue, CreateRefreshToken
<1>3. rows \in [Token -> Rows \cup {NULL}] /\ row # NULL /\ rows[k] = NULL
  <2>1. req[r].user \in User
    BY <1>1 DEF SessionsInv, RequestOK
  <2> QED
    <3>1. row \in Rows
      BY <1>1, <2>1 DEF Rows
    <3>2. rows[k] = NULL
      BY <1>1 DEF SessionsInv, RowsKnown
    <3> QED
      BY <3>1, <3>2, NullIsNoRow, Zenon DEF SessionsInv, SessionsTypeOK
<1>4. /\ rows'[k] = row /\ row.family = f /\ ~row.used /\ ~row.revoked /\ ~row.expired
      /\ \A x \in Token : x # k => rows'[x] = rows[x]
  BY <1>2, <1>3
<1>5. \A s \in Request : IF s = r THEN req'[s].pc = "idle" ELSE req'[s] = req[s]
  BY <1>2 DEF SessionsInv, SessionsTypeOK, Idle
<1> HIDE DEF f, row
<1>6. \A x \in Token, g \in Token :
         Usable(x, g)' <=> (x = k /\ g = f) \/ Usable(x, g)
  <2>1. \A g \in Token : Usable(k, g)' <=> g = f
    BY <1>3, <1>4 DEF Usable
  <2>2. \A g \in Token : ~Usable(k, g)
    BY <1>3 DEF Usable
  <2>3. \A x, g \in Token : x # k => (Usable(x, g)' <=> Usable(x, g))
    BY <1>1, <1>4, <1>5 DEF Usable
  <2> QED
    BY <2>1, <2>2, <2>3, Zenon
<1>7. /\ \A s \in Request, g \in Token : Renewing(s, g)' <=> s # r /\ Renewing(s, g)
      /\ \A g \in Token : Renewing(r, g) => g = f
  BY <1>1, <1>5, SessionsAssumption DEF Renewing, f
<1>8. /\ \A x \in Token : ~Usable(x, f)
      /\ \A s \in Request : Renewing(s, f) => s = r
  <2>1. CASE req[r].family = NULL
    <3>1. \A x \in Token : rows[x] # NULL => rows[x].family # f
      BY <1>1, <2>1 DEF SessionsInv, RowsKnown
    <3>2. \A s \in Request : ~Renewing(s, f)
      BY <1>1, <2>1, SessionsAssumption DEF SessionsInv, RequestOK, Renewing
    <3> QED
      BY <3>1, <3>2, Zenon DEF Usable
  <2>2. CASE req[r].family # NULL
    BY <1>1, <2>2, OneUsable, Zenon
  <2> QED
    BY <2>1, <2>2
<1>9. usableTokens[f] = {} /\ usableTokens' = [usableTokens EXCEPT ![f] = {k}]
  <2>1. usableTokens[f] = {}
    BY <1>1, <1>8, Zenon DEF usableTokens
  <2>2. \A g, x \in Token : g = f => (Usable(x, g)' <=> x = k)
    BY <1>1, <1>6, <1>8, Zenon
  <2>3. \A g, x \in Token : g # f => (Usable(x, g)' <=> Usable(x, g))
    BY <1>6, Zenon
  <2>4. \A g \in Token : usableTokens'[g] = IF g = f THEN {k} ELSE usableTokens[g]
    BY <2>2, <2>3, Zenon DEF usableTokens
  <2> QED
    BY <2>1, <2>4, Zenon DEF usableTokens
<1>10. CASE req[r].family = NULL
  <2>1. \A s \in Request, g \in Token : Renewing(s, g)' <=> Renewing(s, g)
    BY <1>1, <1>7, <1>10, SessionsAssumption DEF Renewing
  <2>2. renewingRequests' = renewingRequests
    BY <2>1, Zenon DEF renewingRequests
  <2>3. \A s \in Request : ~Renewing(s, f)
    BY <1>1, <1>10, SessionsAssumption DEF SessionsInv, RequestOK, Renewing
  <2>4. renewingRequests[f] = {}
    BY <1>1, <2>3, Zenon DEF renewingRequests
  <2>5. Families!Start(f, k)
    BY <1>1, <1>2, <1>9, <1>10, <2>2, <2>4 DEF Families!Start
  <2> QED
    BY <1>1, <2>5 DEF Families!FamiliesNext
<1>11. CASE req[r].family # NULL
  <2>1. \A s \in Request : Renewing(s, f) <=> s = r
    BY <1>1, <1>8, <1>11, Zenon
  <2>2. renewingRequests[f] = {r}
    BY <1>1, <2>1, Zenon DEF renewingRequests
  <2>3. \A g \in Token : renewingRequests'[g] = IF g = f THEN {} ELSE renewingRequests[g]
    BY <1>7, <1>8, Zenon DEF renewingRequests
  <2>4. renewingRequests' = [renewingRequests EXCEPT ![f] = {}]
    BY <2>3, Zenon DEF renewingRequests
  <2>5. Families!Renew(f, k)
    BY <1>1, <1>2, <1>9, <2>2, <2>4 DEF Families!Renew
  <2> QED
    BY <1>1, <2>5 DEF Families!FamiliesNext
<1> QED
  BY <1>10, <1>11

\* Winning the compare-and-swap exchanges the session's one usable token;
\* losing it changes no session.
LEMMA ConsumeRefines ==
    ASSUME SessionsInv, NEW r \in Request, RefreshConsume(r)
    PROVE  Families!FamiliesNext
<1>1. PICK k \in Token, f \in Token :
         /\ req[r].token = k /\ req[r].family = f /\ req[r].pc = "consume"
         /\ rows[k] # NULL => rows[k].family = f
  <2>1. /\ req[r].token \in Token /\ req[r].family \in Token /\ req[r].pc = "consume"
        /\ rows[req[r].token] # NULL => rows[req[r].token].family = req[r].family
    BY DEF SessionsInv, SessionsTypeOK, RequestOK, RefreshConsume, Reqs
  <2> QED
    BY <2>1, Zenon
<1>2. req \in [Request -> Reqs] /\ rows \in [Token -> Rows \cup {NULL}] /\ minted' = minted
  BY DEF SessionsInv, SessionsTypeOK, RefreshConsume
<1>3. CASE MarkRefreshTokenUsed(k)
  <2>1. /\ rows' = [rows EXCEPT ![k].used = TRUE]
        /\ req' = [req EXCEPT ![r].pc = "load"]
    BY <1>1, <1>3 DEF RefreshConsume
  <2>2. /\ rows[k] # NULL /\ rows[k] \in Rows /\ rows[k].family = f
        /\ ~rows[k].used /\ ~rows[k].revoked
    BY <1>1, <1>2, <1>3 DEF MarkRefreshTokenUsed
  <2>3. /\ rows'[k].used
        /\ \A x \in Token : x # k => rows'[x] = rows[x]
    BY <1>2, <2>1, <2>2, MarkedRow
  <2>4. /\ req'[r].pc = "load" /\ req'[r].family = f
        /\ \A s \in Request : s # r => req'[s] = req[s]
    BY <1>1, <1>2, <2>1 DEF Reqs
  <2>5. Usable(k, f)
    BY <1>1, <2>2, Zenon DEF Usable
  <2>6. \A x \in Token : Usable(x, f) <=> x = k
    BY <2>5, OneUsable, Zenon
  <2>7. usableTokens[f] = {k}
    BY <2>6, Zenon DEF usableTokens
  <2>8. \A x, g \in Token : Usable(x, g)' <=> x # k /\ Usable(x, g)
    <3>1. \A g \in Token : ~Usable(k, g)'
      BY <2>3, Zenon DEF Usable
    <3>2. \A x, g \in Token : x # k => (Usable(x, g)' <=> Usable(x, g))
      BY <1>1, <2>3, <2>4 DEF Usable
    <3> QED
      BY <3>1, <3>2, Zenon
  <2>9. \A g \in Token : g # f => ~Usable(k, g)
    BY <2>2, Zenon DEF Usable
  <2>10. \A g \in Token : usableTokens'[g] = IF g = f THEN {} ELSE usableTokens[g]
    BY <2>6, <2>8, <2>9, Zenon DEF usableTokens
  <2>11. usableTokens' = [usableTokens EXCEPT ![f] = {}]
    BY <2>10, Zenon DEF usableTokens
  <2>12. \A s \in Request : ~Renewing(s, f)
    BY <2>5, OneUsable, Zenon
  <2>13. renewingRequests[f] = {}
    BY <2>12, Zenon DEF renewingRequests
  <2>14. \A s \in Request, g \in Token :
            Renewing(s, g)' <=> (s = r /\ g = f) \/ Renewing(s, g)
    <3>1. \A g \in Token : Renewing(r, g)' <=> g = f
      BY <2>4 DEF Renewing
    <3>2. \A g \in Token : ~Renewing(r, g)
      BY <1>1 DEF Renewing
    <3>3. \A s \in Request, g \in Token : s # r => (Renewing(s, g)' <=> Renewing(s, g))
      BY <2>4, Zenon DEF Renewing
    <3> QED
      BY <3>1, <3>2, <3>3, Zenon
  <2>15. \A g \in Token : renewingRequests'[g] = IF g = f THEN {r} ELSE renewingRequests[g]
    BY <2>12, <2>14, Zenon DEF renewingRequests
  <2>16. renewingRequests' = [renewingRequests EXCEPT ![f] = {r}]
    BY <2>15, Zenon DEF renewingRequests
  <2>17. Families!Exchange(f, r)
    BY <1>2, <2>7, <2>11, <2>13, <2>16 DEF Families!Exchange
  <2> QED
    BY <2>17 DEF Families!FamiliesNext
<1>4. CASE ~MarkRefreshTokenUsed(k)
  <2>1. rows' = rows /\ req' = [req EXCEPT ![r].pc = "revoke"]
    BY <1>1, <1>4 DEF RefreshConsume
  <2>2. /\ \A s \in Request : s # r => req'[s] = req[s]
        /\ req'[r].pc = "revoke"
    BY <1>2, <2>1 DEF Reqs
  <2>3. \A g \in Token : Renewing(r, g)' <=> Renewing(r, g)
    BY <1>1, <2>2 DEF Renewing
  <2>4. Families!End
    BY <1>2, <2>1, <2>2, <2>3, QuietStep
  <2> QED
    BY <2>4 DEF Families!FamiliesNext
<1> QED
  BY <1>3, <1>4

\* The service implements the baton: no interleaving of refreshes, replays,
\* revocations, expiry, purges and failures forks a session or revives one.
THEOREM SessionsRefineFamilies == Spec => SessionsAreBatons
<1>1. Init => Families!FamiliesInit
  <2> SUFFICES ASSUME Init PROVE Families!FamiliesInit
    OBVIOUS
  <2>1. \A k \in Token, f \in Token : ~Usable(k, f)
    BY DEF Init, Usable
  <2>2. \A r \in Request, f \in Token : ~Renewing(r, f)
    BY DEF Init, Renewing, Idle
  <2>3. usableTokens = [f \in Token |-> {}] /\ renewingRequests = [f \in Token |-> {}]
    BY <2>1, <2>2, Zenon DEF usableTokens, renewingRequests
  <2> QED
    BY <2>3 DEF Init, Families!FamiliesInit
<1>2. SessionsInv /\ [Next]_vars => [Families!FamiliesNext]_(Families!familyVars)
  <2> SUFFICES ASSUME SessionsInv, [Next]_vars
      PROVE  Families!FamiliesNext \/ UNCHANGED Families!familyVars
    OBVIOUS
  <2>1. CASE UNCHANGED vars
    BY <2>1, Zenon DEF vars, Families!familyVars, usableTokens, renewingRequests, Usable, Renewing
  <2>2. ASSUME NEW r \in Request, RequestStep(r) PROVE Families!FamiliesNext
    <3>1. CASE \/ \E u \in User, o \in Org : Register(r, u, o) \/ SwitchTenant(r, u, o)
               \/ CreateTenantWithOwner(r)
               \/ \E u \in User : Login(r, u) \/ ChangePassword(r, u)
               \/ \E slug \in Org \cup {NULL} : LoginTo(r, slug)
               \/ RefreshLoad(r)
      <4>1. Families!End
        BY <3>1, RequestEnds
      <4> QED
        BY <4>1 DEF Families!FamiliesNext
    <3>2. CASE RefreshRevoke(r) \/ RevokeAll(r)
      BY <3>2, MarkEnds DEF Families!FamiliesNext
    <3>3. CASE \E k \in Token : RefreshFind(r, k)
      BY <3>3, FindEnds DEF Families!FamiliesNext
    <3>4. CASE \E k \in Token : Issue(r, k)
      BY <3>4, IssueRefines
    <3>5. CASE RefreshConsume(r)
      BY <3>5, ConsumeRefines
    <3>6. CASE Fail(r)
      BY <3>6, FailRefines
    <3> QED
      BY <2>2, <3>1, <3>2, <3>3, <3>4, <3>5, <3>6, Zenon DEF RequestStep
  <2>3. CASE \/ \E k \in Token : Expire(k)
             \/ SessionCleanup
             \/ \E u \in User, o \in Org, s \in NewStatus : MembershipChanges(u, o, s)
    <3>1. Families!End
      BY <2>3, MarkEnds
    <3> QED
      BY <3>1 DEF Families!FamiliesNext
  <2> QED
    BY <2>1, <2>2, <2>3 DEF Next
<1> QED
  BY <1>1, <1>2, SessionsInvariance, PTL DEF Spec, SessionsAreBatons, Families!FamiliesSpec
=============================================================================
