---------------------------- MODULE Organisation ----------------------------
(***************************************************************************)
(* One organisation's memberships and departments, changed by concurrent   *)
(* requests.  Every request runs in a READ COMMITTED transaction of its    *)
(* own and locks nothing it has only read, so what it read (the caller's   *)
(* role, the target's role, a count) may be old by the time it writes.     *)
(*                                                                         *)
(*   org_service.go     InviteMember: Invite..., UpdateMember: Update...,  *)
(*                      CreateDepartment, ArchiveDepartment, enforceLimit  *)
(*   gen/*.sql.go       the statements                                     *)
(*   BillingRelay       SubscriptionChanges                                *)
(***************************************************************************)
EXTENDS Roles, Entitlements, FiniteSets

CONSTANTS
    Person,         \* the people who can be members
    Founder,        \* the one who registered the organisation
    Request,        \* requests in flight at once
    Granted,        \* the roles an input may carry
    Subscription,   \* the entitlements the gateway relays
    DepartmentCap   \* the largest department limit among them

Memberships == [role : Roles, status : MembershipStatuses]

ASSUME OrganisationAssumption ==
    /\ NULL \notin Memberships
    /\ Founder \in Person
    /\ IsFiniteSet(Request) /\ Request # {}
    /\ Granted \subseteq Roles
    /\ Subscription \subseteq Entitlement
    /\ DepartmentCap \in Nat
    /\ \A e \in Subscription \cup {FreeEntitlement} : DepartmentLimit(e) \in 0 .. DepartmentCap

VARIABLES
    users,         \* the people with a row in users
    member,        \* member[p]: role and status, or NULL
    subscription,  \* the tenant's entitlement
    live,          \* the number of departments that are not archived
    req,           \* what each request is doing
    byOwner        \* history: the people whose role the founder set last

vars == <<users, member, subscription, live, req, byOwner>>

Pcs == {"idle", "inviting", "seated", "admitted", "compared", "counted"}

\* The caller's role as resolved, the target, and the input.
Reqs == [pc : Pcs, caller : Roles, target : Person, role : Roles, status : MembershipStatuses]

Idle ==
    [pc |-> "idle", caller |-> "viewer", target |-> Founder,
     role |-> "viewer", status |-> "invited"]

Init ==
    /\ users = {Founder}
    /\ member = [p \in Person |->
                    IF p = Founder THEN [role |-> "owner", status |-> "active"] ELSE NULL]
    /\ subscription = FreeEntitlement
    /\ live = 0
    /\ req = [r \in Request |-> Idle]
    /\ byOwner = {Founder}

-----------------------------------------------------------------------------
(* Statements.                                                             *)

\* The caller's row; a caller without an active membership is refused.
ResolveActor(p) == member[p] # NULL /\ member[p].status = "active"

Require(p, permission) == ResolveActor(p) /\ Allows(member[p].role, permission)

\* users holds one row per address, of whatever organisation.
GetUserByEmail(p) == p \in users

CreateUser(p) == users' = users \cup {p}

GetMembership(p) == member[p]

\* The projection of the billing gateway's state, or the free plan without one.
GetTenantEntitlement == subscription

\* SELECT count(*) FROM departments WHERE archived_at IS NULL.
CountLiveDepartments == live

\* SELECT count(*) FROM memberships WHERE status <> 'suspended'.
CountActiveMembers ==
    Cardinality({p \in Person : member[p] # NULL /\ member[p].status # "suspended"})

\* Seeded fault: the row about to be inserted is not counted.
enforceLimitLate(limit, current) == Within(limit, current)

enforceLimit(limit, current) == Within(limit, current + 1)

\* memberships_single_owner_key.
SingleOwner(p, role) ==
    role = "owner" => \A q \in Person \ {p} : member[q] = NULL \/ member[q].role # "owner"

\* CreateMembership: one row per user and tenant.
CreateMembership(p, role) ==
    /\ member[p] = NULL /\ SingleOwner(p, role)
    /\ member' = [member EXCEPT ![p] = [role |-> role, status |-> "invited"]]

\* UpdateMembership: role and status are overwritten, whatever they are now.
UpdateMembership(p, role, status) ==
    /\ member[p] # NULL /\ SingleOwner(p, role)
    /\ member' = [member EXCEPT ![p] = [role |-> role, status |-> status]]

\* Who set p's role last.
Note(p, caller) ==
    byOwner' = IF caller = "owner" THEN byOwner \cup {p} ELSE byOwner \ {p}

-----------------------------------------------------------------------------
(* Members.                                                                *)

\* Seeded fault: a first-time invitee gets no user row.
InviteUnknown(r, p, role) ==
    /\ req[r].pc = "idle"
    /\ req' = [req EXCEPT ![r] = [Idle EXCEPT !.pc = "inviting", !.target = p, !.role = role]]
    /\ UNCHANGED <<users, member, subscription, live, byOwner>>

\* InviteMember before its transaction: the user row is found or created, and
\* stays whatever happens to the invitation.  The caller is not looked at yet.
InviteLookup(r, p, role) ==
    /\ req[r].pc = "idle"
    /\ \/ GetUserByEmail(p) /\ UNCHANGED users
       \/ ~GetUserByEmail(p) /\ CreateUser(p)
    /\ req' = [req EXCEPT ![r] = [Idle EXCEPT !.pc = "inviting", !.target = p, !.role = role]]
    /\ UNCHANGED <<member, subscription, live, byOwner>>

\* The transaction up to the count of seats.
InviteCheck(r, caller) ==
    /\ req[r].pc = "inviting"
    /\ Require(caller, "MemberManage")
    /\ OutranksStrictly(member[caller].role, req[r].role)
    /\ enforceLimit(SeatLimit(GetTenantEntitlement), CountActiveMembers)
    /\ req' = [req EXCEPT ![r].pc = "seated", ![r].caller = member[caller].role]
    /\ UNCHANGED <<users, member, subscription, live, byOwner>>

InviteCommit(r) ==
    /\ req[r].pc = "seated"
    /\ CreateMembership(req[r].target, req[r].role)
    /\ Note(req[r].target, req[r].caller)
    /\ req' = [req EXCEPT ![r] = Idle]
    /\ UNCHANGED <<users, subscription, live>>

\* UpdateMember: the caller, who is not the target.
UpdateAdmit(r, caller, p, role, status) ==
    /\ req[r].pc = "idle"
    /\ Require(caller, "MemberManage")
    /\ caller # p
    /\ req' = [req EXCEPT ![r] =
            [pc |-> "admitted", caller |-> member[caller].role, target |-> p,
             role |-> role, status |-> status]]
    /\ UNCHANGED <<users, member, subscription, live, byOwner>>

\* Seeded fault: an equal may be administered, an owner included.
CompareGrantOnly(r) ==
    /\ req[r].pc = "admitted"
    /\ GetMembership(req[r].target) # NULL
    /\ OutranksStrictly(req[r].caller, req[r].role)
    /\ req' = [req EXCEPT ![r].pc = "compared"]
    /\ UNCHANGED <<users, member, subscription, live, byOwner>>

\* Seeded fault: the role granted is not compared with the caller's.
CompareTargetOnly(r) ==
    /\ req[r].pc = "admitted"
    /\ GetMembership(req[r].target) # NULL
    /\ OutranksStrictly(req[r].caller, GetMembership(req[r].target).role)
    /\ req' = [req EXCEPT ![r].pc = "compared"]
    /\ UNCHANGED <<users, member, subscription, live, byOwner>>

\* The caller outranks the target, as a statement of its own reads them, and
\* the role they grant.
UpdateCompare(r) ==
    /\ req[r].pc = "admitted"
    /\ GetMembership(req[r].target) # NULL
    /\ OutranksStrictly(req[r].caller, GetMembership(req[r].target).role)
    /\ OutranksStrictly(req[r].caller, req[r].role)
    /\ req' = [req EXCEPT ![r].pc = "compared"]
    /\ UNCHANGED <<users, member, subscription, live, byOwner>>

UpdateCommit(r) ==
    /\ req[r].pc = "compared"
    /\ UpdateMembership(req[r].target, req[r].role, req[r].status)
    /\ Note(req[r].target, req[r].caller)
    /\ req' = [req EXCEPT ![r] = Idle]
    /\ UNCHANGED <<users, subscription, live>>

-----------------------------------------------------------------------------
(* Departments, the subscription, and faults.                              *)

\* CreateDepartment up to the count.
DepartmentCheck(r, caller) ==
    /\ req[r].pc = "idle"
    /\ Require(caller, "DepartmentManage")
    /\ enforceLimit(DepartmentLimit(GetTenantEntitlement), CountLiveDepartments)
    /\ req' = [req EXCEPT ![r] = [Idle EXCEPT !.pc = "counted"]]
    /\ UNCHANGED <<users, member, subscription, live, byOwner>>

\* INSERT INTO departments and COMMIT.
CreateDepartment(r) ==
    /\ req[r].pc = "counted"
    /\ live' = live + 1
    /\ req' = [req EXCEPT ![r] = Idle]
    /\ UNCHANGED <<users, member, subscription, byOwner>>

\* UPDATE departments SET archived_at = now() WHERE archived_at IS NULL.
ArchiveDepartment(caller) ==
    /\ Require(caller, "DepartmentManage")
    /\ live > 0
    /\ live' = live - 1
    /\ UNCHANGED <<users, member, subscription, req, byOwner>>

SubscriptionChanges ==
    /\ subscription' \in Subscription
    /\ UNCHANGED <<users, member, live, req, byOwner>>

\* A refusal, a constraint or a crash: the transaction is rolled back.
Fail(r) ==
    /\ req[r].pc # "idle"
    /\ req' = [req EXCEPT ![r] = Idle]
    /\ UNCHANGED <<users, member, subscription, live, byOwner>>

RequestStep(r) ==
    \/ \E p \in Person, role \in Granted : InviteLookup(r, p, role)
    \/ \E caller \in Person : InviteCheck(r, caller)
    \/ InviteCommit(r)
    \/ \E caller, p \in Person, role \in Granted, status \in MembershipStatuses :
          UpdateAdmit(r, caller, p, role, status)
    \/ UpdateCompare(r)
    \/ UpdateCommit(r)
    \/ \E caller \in Person : DepartmentCheck(r, caller)
    \/ CreateDepartment(r)
    \/ Fail(r)

Next ==
    \/ \E r \in Request : RequestStep(r)
    \/ \E caller \in Person : ArchiveDepartment(caller)
    \/ SubscriptionChanges

Spec == Init /\ [][Next]_vars

-----------------------------------------------------------------------------
\* Every variable has its type, and a membership belongs to a user.
OrganisationTypeOK ==
    /\ users \subseteq Person
    /\ member \in [Person -> Memberships \cup {NULL}]
    /\ \A p \in Person : member[p] # NULL => p \in users
    /\ subscription \in Entitlement
    /\ live \in Nat
    /\ req \in [Request -> Reqs]
    /\ byOwner \subseteq Person

\* The founder is the one owner and is active, whatever is concurrently done to
\* whom: nobody outranks them and nobody may change themselves, so the
\* organisation never becomes one "nobody can administer"
\* (org_service.go:488-491).
OwnerStands ==
    \A p \in Person :
        member[p] # NULL =>
            /\ member[p].role = "owner" <=> p = Founder
            /\ p = Founder => member[p].status = "active"

\* Nobody is an admin but by the founder's own act, although UpdateMember
\* compares roles it read earlier and then overwrites the row: an admin's
\* request that is overtaken by promotions and demotions still hands out
\* nothing at or above an admin's level.
AdminsComeFromTheOwner ==
    \A p \in Person : member[p] # NULL /\ member[p].role = "admin" => p \in byOwner

\* The requests that have counted the departments and not inserted.
Counted == {r \in Request : req[r].pc = "counted"}

\* enforceLimit counts and inserts in one transaction, which at READ COMMITTED
\* is not enough for "two concurrent creates cannot both see room for the last
\* one" (org_service.go:68-70).  What it does give: the plan's ceiling is
\* exceeded by at most the other requests in flight when the last place went.
DepartmentsNearLimit ==
    live + Cardinality(Counted) <= DepartmentCap + Cardinality(Request) - 1

-----------------------------------------------------------------------------
(* The inductive invariant of OrganisationProofs.                          *)

\* What a request has established by where it is: a user row for the invitee,
\* a caller above the role that will be written, and a target who is not the
\* founder.
RequestOK(q) ==
    /\ q.pc \in {"inviting", "seated"} => q.target \in users
    /\ q.pc \in {"seated", "compared"} => OutranksStrictly(q.caller, q.role)
    /\ q.pc = "compared" => q.target # Founder

OrganisationInv ==
    /\ OrganisationTypeOK
    /\ OwnerStands
    /\ AdminsComeFromTheOwner
    /\ DepartmentsNearLimit
    /\ member[Founder] # NULL
    /\ subscription \in Subscription \cup {FreeEntitlement}
    /\ \A r \in Request : RequestOK(req[r])
=============================================================================
