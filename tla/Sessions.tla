------------------------------ MODULE Sessions ------------------------------
(***************************************************************************)
(* Accounts and sessions.  Login, registration, tenant switch, refresh and *)
(* password change are sequences of statements, each its own transaction   *)
(* on the pool: between any two of them other requests run, and at any of  *)
(* them a request can fail, be cancelled or die with its process.          *)
(*                                                                         *)
(*   auth_service.go           Register .. Issue                           *)
(*   account_service.go        ChangePassword, RevokeAll                   *)
(*   gen/tenancy.sql.go        the statements on users and refresh_tokens  *)
(*   worker/handlers.go        SessionCleanup                              *)
(*                                                                         *)
(* No property tells two passwords apart, so an account is just there.  A  *)
(* refresh token stands for its digest.  A family is named by the token    *)
(* that started it, which is as fresh as the uuid the code draws.          *)
(***************************************************************************)
EXTENDS Naturals, FiniteSets

CONSTANTS
    NULL,
    User,
    Org,
    Founded,       \* the organisations that exist before any of User registers
    Token,         \* bound: the refresh tokens that can ever be handed out
    Request,       \* requests in flight at once
    NewStatus      \* what InviteMember and UpdateMember may set a status to

Statuses == {"none", "invited", "active", "suspended"}

\* A refresh_tokens row.
Rows == [user : User, family : Token, used : BOOLEAN, revoked : BOOLEAN, expired : BOOLEAN]

ASSUME SessionsAssumption ==
    /\ Founded \subseteq Org
    /\ NewStatus \subseteq Statuses \ {"none"}
    /\ NULL \notin User \cup Org \cup Token \cup Rows

VARIABLES
    account,     \* the users that exist
    membership,  \* membership[u][o]: status of the memberships row
    open,        \* the organisations that exist, all with tenants.status active
    signedIn,    \* the users who have been issued an access token
    rows,        \* refresh_tokens: NULL or a row
    minted,      \* history: tokens ever inserted
    req          \* what each request is doing

vars == <<account, membership, open, signedIn, rows, minted, req>>
accountVars == <<account, membership, open, signedIn>>

Pcs == {"idle", "verified", "registered", "consume", "revoke", "load", "issue",
        "revokeAll"}

\* token: the refresh token presented; family: the family an issued token
\* joins, NULL for a new one.
Reqs == [pc : Pcs, user : User \cup {NULL}, org : Org \cup {NULL},
         token : Token \cup {NULL}, family : Token \cup {NULL}]

Idle == [pc |-> "idle", user |-> NULL, org |-> NULL, token |-> NULL, family |-> NULL]

At(pc, u, o, k, f) == [pc |-> pc, user |-> u, org |-> o, token |-> k, family |-> f]

Init ==
    /\ account = {}
    /\ membership = [u \in User |-> [o \in Org |-> "none"]]
    /\ open = Founded
    /\ signedIn = {}
    /\ rows = [k \in Token |-> NULL]
    /\ minted = {}
    /\ req = [r \in Request |-> Idle]

-----------------------------------------------------------------------------
(* The statements, and the access token.                                   *)

\* Whether a live users row has this address, or this id.
GetUserByEmail(u) == u \in account
GetUserByID(u) == u \in account

\* INSERT INTO users, whose address is unique.
CreateUser(u) == account \cup {u}

\* INSERT INTO tenants, whose slug is unique.
CreateTenant(o) == open \cup {o}

\* INSERT INTO memberships for the founder.
CreateOwner(u, o) == [membership EXCEPT ![u][o] = "active"]

\* TokenService.Issue signs a token and stores nothing; Parse takes the subject
\* from it.  Its expiry is left out: a subject can act longer here than there.
IssueAccess(u) == signedIn \cup {u}
Parse(u) == u \in signedIn

\* SELECT ... FROM refresh_tokens WHERE token_hash = $1.
GetRefreshTokenByHash(k) == rows[k]

\* Seeded fault: the family is not stored with the token.
CreateWithoutFamily(k, u, f) ==
    [rows EXCEPT ![k] = [user |-> u, family |-> NULL, used |-> FALSE, revoked |-> FALSE,
                         expired |-> FALSE]]

\* INSERT INTO refresh_tokens: a fresh row, neither used nor revoked.
CreateRefreshToken(k, u, f) ==
    [rows EXCEPT ![k] = [user |-> u, family |-> f, used |-> FALSE, revoked |-> FALSE,
                         expired |-> FALSE]]

\* Seeded fault: SET used_at = now() WHERE id = $1, with no IS NULL guard.
MatchesById(k) == rows[k] # NULL

\* The rows MarkRefreshTokenUsed updates: WHERE id = $1 AND used_at IS NULL
\* AND revoked_at IS NULL.
MarkRefreshTokenUsed(k) == rows[k] # NULL /\ ~rows[k].used /\ ~rows[k].revoked

\* UPDATE ... SET revoked_at = now() WHERE family_id = $1.
RevokeRefreshTokenFamily(f) ==
    [k \in Token |-> IF rows[k] # NULL /\ rows[k].family = f
                     THEN [rows[k] EXCEPT !.revoked = TRUE] ELSE rows[k]]

\* UPDATE ... SET revoked_at = now() WHERE user_id = $1.
RevokeAllRefreshTokensForUser(u) ==
    [k \in Token |-> IF rows[k] # NULL /\ rows[k].user = u
                     THEN [rows[k] EXCEPT !.revoked = TRUE] ELSE rows[k]]

\* DELETE FROM refresh_tokens WHERE expires_at < now() - grace: S is those of
\* the expired tokens whose grace period is over.
DeleteExpiredRefreshTokens(S) == [k \in Token |-> IF k \in S THEN NULL ELSE rows[k]]

\* The memberships ListMembershipsForUser returns: all but the suspended.
ListMembershipsForUser(u) ==
    {o \in open : membership[u][o] \notin {"none", "suspended"}}

\* The organisations selectTenant may pick: the one named, or the only active
\* one when none is named.  Empty when it refuses.
SelectTenant(u, slug) ==
    LET active == {o \in ListMembershipsForUser(u) : membership[u][o] = "active"}
    IN  IF slug # NULL THEN active \cap {slug}
        ELSE IF Cardinality(active) = 1 THEN active ELSE {}

-----------------------------------------------------------------------------
(* Registration, login and the tenant switch.                              *)

\* Register up to CreateUser: the address is free.
Register(r, u, o) ==
    /\ req[r].pc = "idle"
    /\ u \notin account
    /\ account' = CreateUser(u)
    /\ req' = [req EXCEPT ![r] = At("registered", u, o, NULL, NULL)]
    /\ UNCHANGED <<membership, open, signedIn, rows, minted>>

\* CreateTenantWithOwner: the organisation and its owner in one transaction.
CreateTenantWithOwner(r) ==
    /\ req[r].pc = "registered"
    /\ req[r].org \notin open
    /\ open' = CreateTenant(req[r].org)
    /\ membership' = CreateOwner(req[r].user, req[r].org)
    /\ req' = [req EXCEPT ![r].pc = "issue"]
    /\ UNCHANGED <<account, signedIn, rows, minted>>

\* Login up to ComparePassword: the address is known and the password right.
Login(r, u) ==
    /\ req[r].pc = "idle"
    /\ GetUserByEmail(u)
    /\ req' = [req EXCEPT ![r] = At("verified", u, NULL, NULL, NULL)]
    /\ UNCHANGED <<accountVars, rows, minted>>

\* The rest of Login up to issue: the memberships are read and one is chosen.
LoginTo(r, slug) ==
    /\ req[r].pc = "verified"
    /\ \E o \in SelectTenant(req[r].user, slug) :
          req' = [req EXCEPT ![r].pc = "issue", ![r].org = o]
    /\ UNCHANGED <<accountVars, rows, minted>>

\* SwitchTenant: the subject of an access token names an organisation in which
\* their membership is active.
SwitchTenant(r, u, target) ==
    /\ req[r].pc = "idle"
    /\ Parse(u)
    /\ target \in ListMembershipsForUser(u) /\ membership[u][target] = "active"
    /\ req' = [req EXCEPT ![r] = At("issue", u, target, NULL, NULL)]
    /\ UNCHANGED <<accountVars, rows, minted>>

\* issue: an access token, and a refresh token whose insert is the last thing
\* that can fail.
Issue(r, k) ==
    /\ req[r].pc = "issue"
    /\ k \notin minted
    /\ rows' = CreateRefreshToken(k, req[r].user,
                                  IF req[r].family = NULL THEN k ELSE req[r].family)
    /\ minted' = minted \cup {k}
    /\ signedIn' = IssueAccess(req[r].user)
    /\ req' = [req EXCEPT ![r] = Idle]
    /\ UNCHANGED <<account, membership, open>>

-----------------------------------------------------------------------------
(* Refresh.                                                                *)

\* Seeded fault: the comparison with ExpiresAt is missing.
FindEvenExpired(r, k) ==
    /\ req[r].pc = "idle"
    /\ k \in minted
    /\ LET stored == GetRefreshTokenByHash(k)
       IN  /\ stored # NULL /\ ~stored.revoked
           /\ req' = [req EXCEPT ![r] =
                         At(IF stored.used THEN "revoke" ELSE "consume",
                            stored.user, NULL, k, stored.family)]
    /\ UNCHANGED <<accountVars, rows, minted>>

\* FindRefreshToken and the switch on what it read.  A token that is unknown,
\* revoked or expired is refused; one already used revokes its family.
RefreshFind(r, k) ==
    /\ req[r].pc = "idle"
    /\ k \in minted
    /\ LET stored == GetRefreshTokenByHash(k)
       IN  /\ stored # NULL /\ ~stored.revoked /\ ~stored.expired
           /\ req' = [req EXCEPT ![r] =
                         At(IF stored.used THEN "revoke" ELSE "consume",
                            stored.user, NULL, k, stored.family)]
    /\ UNCHANGED <<accountVars, rows, minted>>

\* ConsumeRefreshToken: the compare-and-swap on used_at.
RefreshConsume(r) ==
    /\ req[r].pc = "consume"
    /\ IF MarkRefreshTokenUsed(req[r].token)
       THEN /\ rows' = [rows EXCEPT ![req[r].token].used = TRUE]
            /\ req' = [req EXCEPT ![r].pc = "load"]
       ELSE /\ req' = [req EXCEPT ![r].pc = "revoke"]
            /\ UNCHANGED rows
    /\ UNCHANGED <<accountVars, minted>>

\* RevokeRefreshFamily, answered with ErrTokenReuse.
RefreshRevoke(r) ==
    /\ req[r].pc = "revoke"
    /\ rows' = RevokeRefreshTokenFamily(req[r].family)
    /\ req' = [req EXCEPT ![r] = Idle]
    /\ UNCHANGED <<accountVars, minted>>

\* GetUserByID, ListTenantsForUser and selectTenant with no slug.
RefreshLoad(r) ==
    /\ req[r].pc = "load"
    /\ GetUserByID(req[r].user)
    /\ \E o \in SelectTenant(req[r].user, NULL) :
          req' = [req EXCEPT ![r].pc = "issue", ![r].org = o]
    /\ UNCHANGED <<accountVars, rows, minted>>

-----------------------------------------------------------------------------
(* Password change, faults, time and the rest of the system.               *)

\* ChangePassword through SetUserPassword: the subject gives the current
\* password, and from here on the new one is the account's.
ChangePassword(r, u) ==
    /\ req[r].pc = "idle"
    /\ Parse(u)
    /\ req' = [req EXCEPT ![r] = At("revokeAll", u, NULL, NULL, NULL)]
    /\ UNCHANGED <<accountVars, rows, minted>>

\* RevokeAllSessions.
RevokeAll(r) ==
    /\ req[r].pc = "revokeAll"
    /\ rows' = RevokeAllRefreshTokensForUser(req[r].user)
    /\ req' = [req EXCEPT ![r] = Idle]
    /\ UNCHANGED <<accountVars, minted>>

\* A request ends early: selectTenant refuses, the slug is taken, a statement
\* fails, the client disconnects or the process dies.  What its earlier
\* statements did stays done.
Fail(r) ==
    /\ req[r].pc # "idle"
    /\ req' = [req EXCEPT ![r] = Idle]
    /\ UNCHANGED <<accountVars, rows, minted>>

\* expires_at passes.
Expire(k) ==
    /\ rows[k] # NULL /\ ~rows[k].expired
    /\ rows' = [rows EXCEPT ![k].expired = TRUE]
    /\ UNCHANGED <<accountVars, minted, req>>

\* HandleSessionCleanup.
SessionCleanup ==
    /\ \E S \in SUBSET {k \in Token : rows[k] # NULL /\ rows[k].expired} :
          rows' = DeleteExpiredRefreshTokens(S)
    /\ UNCHANGED <<accountVars, minted, req>>

\* InviteMember and UpdateMember, in an organisation somebody else founded.
MembershipChanges(u, o, s) ==
    /\ o \in Founded /\ u \in account
    /\ (membership[u][o] = "none") <=> (s = "invited")
    /\ s # membership[u][o]
    /\ membership' = [membership EXCEPT ![u][o] = s]
    /\ UNCHANGED <<account, open, signedIn, rows, minted, req>>

RequestStep(r) ==
    \/ \E u \in User, o \in Org : Register(r, u, o) \/ SwitchTenant(r, u, o)
    \/ CreateTenantWithOwner(r)
    \/ \E u \in User : Login(r, u) \/ ChangePassword(r, u)
    \/ \E slug \in Org \cup {NULL} : LoginTo(r, slug)
    \/ \E k \in Token : RefreshFind(r, k) \/ Issue(r, k)
    \/ RefreshConsume(r)
    \/ RefreshRevoke(r)
    \/ RefreshLoad(r)
    \/ RevokeAll(r)
    \/ Fail(r)

Next ==
    \/ \E r \in Request : RequestStep(r)
    \/ \E k \in Token : Expire(k)
    \/ SessionCleanup
    \/ \E u \in User, o \in Org, s \in NewStatus : MembershipChanges(u, o, s)

Spec == Init /\ [][Next]_vars

-----------------------------------------------------------------------------
\* A request that has spent a token of family f and not yet replaced it.
Renewing(r, f) == req[r].pc \in {"load", "issue"} /\ req[r].family = f

\* A token an exchange would accept: the compare-and-swap would take it, and
\* it is unexpired or was when a request now about to swap it looked it up.
Usable(k, f) ==
    /\ rows[k] # NULL /\ rows[k].family = f
    /\ ~rows[k].used /\ ~rows[k].revoked
    /\ \/ ~rows[k].expired
       \/ \E r \in Request : req[r].pc = "consume" /\ req[r].token = k

\* Every variable has its type.
SessionsTypeOK ==
    /\ account \subseteq User
    /\ membership \in [User -> [Org -> Statuses]]
    /\ open \subseteq Org
    /\ signedIn \subseteq User
    /\ rows \in [Token -> Rows \cup {NULL}]
    /\ minted \subseteq Token
    /\ req \in [Request -> Reqs]

\* "Each refresh token can be exchanged once ... exactly one caller wins"
\* (auth_service.go:176): however refreshes, replays, revocations and failures
\* interleave, a session never has two unspent tokens, nor an unspent token
\* beside a request that is still to hand one out, nor two such requests.
OneCredentialPerSession ==
    \A f \in Token :
        /\ \A j, k \in Token :
              /\ rows[j] # NULL /\ rows[j].family = f /\ ~rows[j].used
              /\ rows[k] # NULL /\ rows[k].family = f /\ ~rows[k].used
              => j = k
        /\ \A r, s \in Request : Renewing(r, f) /\ Renewing(s, f) => r = s
        /\ \A k \in Token, r \in Request :
              rows[k] # NULL /\ rows[k].family = f /\ ~rows[k].used => ~Renewing(r, f)

usableTokens == [f \in Token |-> {k \in Token : Usable(k, f)}]

renewingRequests == [f \in Token |-> {r \in Request : Renewing(r, f)}]

Families == INSTANCE SessionFamilies WITH
    Family <- Token, usable <- usableTokens, renewing <- renewingRequests, known <- minted

\* The service implements the baton of SessionFamilies: only the holder of a
\* session's one token can carry it on, and no replay, late answer, expiry or
\* failed request brings a session that was over back.
SessionsAreBatons == Families!FamiliesSpec

-----------------------------------------------------------------------------
(* The inductive invariant: what a request knows of the token it presented *)
(* stays true, and families are named by tokens already handed out.        *)

RowsKnown == \A k \in Token : rows[k] # NULL => k \in minted /\ rows[k].family \in minted

RequestOK(r) ==
    /\ req[r].pc # "idle" => req[r].user \in User
    /\ req[r].pc \in {"registered", "issue"} => req[r].org \in Org
    /\ req[r].pc \in {"registered", "verified"} => req[r].family = NULL
    /\ req[r].pc \in {"consume", "revoke", "load"} => req[r].family # NULL
    /\ req[r].family # NULL => req[r].family \in minted
    /\ req[r].pc = "consume" =>
          /\ req[r].token \in minted
          /\ rows[req[r].token] # NULL => rows[req[r].token].family = req[r].family

SessionsInv ==
    /\ SessionsTypeOK
    /\ OneCredentialPerSession
    /\ RowsKnown
    /\ \A r \in Request : RequestOK(r)
=============================================================================
