-------------------------- MODULE SessionFamilies --------------------------
(***************************************************************************)
(* What AuthService promises of a session: it is a baton.  A login starts  *)
(* it with one refresh token; from then on it is either that one token, or *)
(* one request exchanging it, or over.  The exchange either hands on a     *)
(* token nobody has held before or loses the baton, and a session that is  *)
(* over stays over.  Revocation, expiry and the purge end sessions; a      *)
(* token in the middle of an exchange is out of their reach.               *)
(***************************************************************************)

CONSTANTS
    Family,     \* sessions
    Token,      \* refresh tokens
    Request     \* requests that may be exchanging one

VARIABLES
    usable,     \* usable[f]: the tokens of f that an exchange would accept
    renewing,   \* renewing[f]: the requests that have spent a token of f
    known       \* the tokens handed out so far

familyVars == <<usable, renewing, known>>

FamiliesInit ==
    /\ usable   = [f \in Family |-> {}]
    /\ renewing = [f \in Family |-> {}]
    /\ known    = {}

\* A login, a registration or a switch of organisation.
Start(f, k) ==
    /\ usable[f] = {} /\ renewing[f] = {}
    /\ f \notin known /\ k \notin known
    /\ usable' = [usable EXCEPT ![f] = {k}]
    /\ known' = known \cup {k}
    /\ UNCHANGED renewing

\* A request spends the token.
Exchange(f, r) ==
    /\ \E k \in Token : usable[f] = {k}
    /\ renewing[f] = {}
    /\ usable' = [usable EXCEPT ![f] = {}]
    /\ renewing' = [renewing EXCEPT ![f] = {r}]
    /\ UNCHANGED known

\* The request that spent the token hands on the next.
Renew(f, k) ==
    /\ \E r \in Request : renewing[f] = {r}
    /\ usable[f] = {} /\ k \notin known
    /\ usable' = [usable EXCEPT ![f] = {k}]
    /\ renewing' = [renewing EXCEPT ![f] = {}]
    /\ known' = known \cup {k}

\* That request fails or dies.
Lose(f) ==
    /\ \E r \in Request : renewing[f] = {r}
    /\ renewing' = [renewing EXCEPT ![f] = {}]
    /\ UNCHANGED <<usable, known>>

\* Sessions end, several at once: a family or a user is revoked, tokens expire
\* or are purged.
End ==
    /\ usable' = [f \in Family |-> usable'[f]]
    /\ \A f \in Family : usable'[f] \in {usable[f], {}}
    /\ UNCHANGED <<renewing, known>>

FamiliesNext ==
    \/ \E f \in Family, k \in Token : Start(f, k) \/ Renew(f, k)
    \/ \E f \in Family, r \in Request : Exchange(f, r)
    \/ \E f \in Family : Lose(f)
    \/ End

FamiliesSpec == FamiliesInit /\ [][FamiliesNext]_familyVars
=============================================================================
