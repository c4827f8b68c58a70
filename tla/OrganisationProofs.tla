------------------------- MODULE OrganisationProofs -------------------------
(***************************************************************************)
(* Proofs about an organisation's members and departments, for any number  *)
(* of people and concurrent requests and any set of plans with a finite    *)
(* department limit.  OrganisationInv is inductive: the founder is the one *)
(* owner, so whoever was read as outranking a role still outranked it when *)
(* it is written, however old the reading is.                              *)
(***************************************************************************)
EXTENDS Organisation, FiniteSetTheorems, TLAPS

\* Nobody outranks an owner, and only an owner outranks an admin (Role.Rank).
LEMMA Seniority ==
    ASSUME NEW a \in Roles, NEW b \in Roles, OutranksStrictly(a, b)
    PROVE  b # "owner" /\ (b = "admin" => a = "owner")
BY DEF Roles, Rank, OutranksStrictly

\* A request that is doing nothing promises nothing.
LEMMA IdleOK == Idle \in Reqs /\ RequestOK(Idle) /\ RequestOK(Idle)' /\ Idle.pc = "idle"
BY OrganisationAssumption DEF Idle, Reqs, Pcs, Roles, MembershipStatuses, RequestOK

\* The requests that have counted are finitely many.
LEMMA CountedFinite ==
    /\ IsFiniteSet(Counted) /\ Cardinality(Counted) \in Nat
    /\ Cardinality(Counted) <= Cardinality(Request) /\ Cardinality(Request) \in Nat
    /\ IsFiniteSet(Counted') /\ Cardinality(Counted') \in Nat
    /\ Cardinality(Counted') <= Cardinality(Request)
<1>1. Counted \subseteq Request /\ Counted' \subseteq Request
  BY DEF Counted
<1> QED
  BY <1>1, OrganisationAssumption, FS_Subset, FS_CardinalityType

\* A request that does not come to have counted adds nothing to the count.
LEMMA CountedShrinks ==
    ASSUME OrganisationInv, NEW r \in Request, NEW q \in Reqs, q.pc # "counted",
           req' = [req EXCEPT ![r] = q]
    PROVE  Cardinality(Counted') <= Cardinality(Counted)
<1>1. Counted' \subseteq Counted
  BY DEF Counted, OrganisationInv, OrganisationTypeOK
<1> QED
  BY <1>1, CountedFinite, FS_Subset

\* The organisation as registered (CreateTenantWithOwner).
LEMMA OrganisationInitial == Init => OrganisationInv
<1> SUFFICES ASSUME Init PROVE OrganisationInv
  OBVIOUS
<1>1. FreeEntitlement \in Entitlement
  BY DEF FreeEntitlement, Entitlement, PlanCodes, SubscriptionStatuses
<1>2. [role |-> "owner", status |-> "active"] \in Memberships
  BY DEF Memberships, Roles, MembershipStatuses
<1>3. OrganisationTypeOK
  BY <1>1, <1>2, IdleOK, OrganisationAssumption DEF Init, OrganisationTypeOK
<1>4. OwnerStands /\ AdminsComeFromTheOwner /\ member[Founder] # NULL
  BY <1>2, OrganisationAssumption DEF Init, OwnerStands, AdminsComeFromTheOwner
<1>5. DepartmentsNearLimit
  <2>1. Counted = {}
    BY IdleOK DEF Init, Counted
  <2>2. Cardinality(Counted) = 0
    BY <2>1, FS_EmptySet
  <2>3. Cardinality(Request) # 0
    BY OrganisationAssumption, FS_EmptySet
  <2> QED
    BY <2>2, <2>3, CountedFinite, OrganisationAssumption DEF Init, DepartmentsNearLimit
<1>6. \A r \in Request : RequestOK(req[r])
  BY IdleOK DEF Init
<1> QED
  BY <1>3, <1>4, <1>5, <1>6 DEF Init, OrganisationInv

\* A step of one request that writes no membership.
LEMMA RequestMoves ==
    ASSUME OrganisationInv, NEW r \in Request, NEW q \in Reqs,
           req' = [req EXCEPT ![r] = q], users \subseteq users', users' \subseteq Person,
           UNCHANGED <<member, subscription, live, byOwner>>,
           RequestOK(q)', q.pc = "counted" => live + 1 <= DepartmentCap
    PROVE  OrganisationInv'
<1>1. OrganisationTypeOK'
  BY DEF OrganisationInv, OrganisationTypeOK
<1>2. OwnerStands' /\ AdminsComeFromTheOwner' /\ (member[Founder] # NULL)'
  BY DEF OrganisationInv, OwnerStands, AdminsComeFromTheOwner
<1>3. DepartmentsNearLimit'
  <2>1. live \in Nat /\ live' = live
    BY DEF OrganisationInv, OrganisationTypeOK
  <2>2. CASE q.pc = "counted"
    BY <2>1, <2>2, CountedFinite, OrganisationAssumption DEF DepartmentsNearLimit
  <2>3. CASE q.pc # "counted"
    <3>1. Cardinality(Counted') <= Cardinality(Counted)
      BY <2>3, CountedShrinks, Zenon
    <3> QED
      BY <2>1, <3>1, CountedFinite, OrganisationAssumption
      DEF OrganisationInv, DepartmentsNearLimit
  <2> QED
    BY <2>2, <2>3
<1>4. \A s \in Request : RequestOK(req[s])'
  BY DEF OrganisationInv, OrganisationTypeOK, RequestOK
<1> QED
  BY <1>1, <1>2, <1>3, <1>4 DEF OrganisationInv

\* A membership other than the founder's is written, and its request ends.
LEMMA MemberWritten ==
    ASSUME OrganisationInv, NEW r \in Request, NEW p \in users, NEW m \in Memberships,
           p # Founder, m.role # "owner", NEW caller \in Roles,
           m.role = "admin" => caller = "owner",
           member' = [member EXCEPT ![p] = m], Note(p, caller),
           req' = [req EXCEPT ![r] = Idle], UNCHANGED <<users, subscription, live>>
    PROVE  OrganisationInv'
<1>1. OrganisationTypeOK'
  BY IdleOK, Zenon DEF OrganisationInv, OrganisationTypeOK, Note
<1>2. OwnerStands' /\ (member[Founder] # NULL)'
  BY OrganisationAssumption DEF OrganisationInv, OrganisationTypeOK, OwnerStands
<1>3. AdminsComeFromTheOwner'
  BY DEF OrganisationInv, OrganisationTypeOK, AdminsComeFromTheOwner, Note
<1>4. DepartmentsNearLimit'
  <2>1. Cardinality(Counted') <= Cardinality(Counted)
    BY IdleOK, CountedShrinks, Zenon
  <2> QED
    BY <2>1, CountedFinite, OrganisationAssumption
    DEF OrganisationInv, OrganisationTypeOK, DepartmentsNearLimit
<1>5. \A s \in Request : RequestOK(req[s])'
  BY IdleOK DEF OrganisationInv, OrganisationTypeOK, RequestOK
<1> QED
  BY <1>1, <1>2, <1>3, <1>4, <1>5 DEF OrganisationInv

\* One step of any request, of an archiving or of the subscription.
LEMMA OrganisationStep == OrganisationInv /\ [Next]_vars => OrganisationInv'
<1> SUFFICES ASSUME OrganisationInv, [Next]_vars PROVE OrganisationInv'
  OBVIOUS
<1> USE DEF OrganisationInv, OrganisationTypeOK
<1>1. ASSUME NEW r \in Request, NEW p \in Person, NEW role \in Granted,
             InviteLookup(r, p, role)
      PROVE  OrganisationInv'
  <2> DEFINE q == [Idle EXCEPT !.pc = "inviting", !.target = p, !.role = role]
  <2>1. q \in Reqs /\ q.pc = "inviting" /\ q.target = p
    BY OrganisationAssumption, Zenon DEF Idle, Reqs, Pcs, Roles, MembershipStatuses
  <2>2. p \in users' /\ users \subseteq users' /\ users' \subseteq Person
    BY <1>1 DEF InviteLookup, GetUserByEmail, CreateUser
  <2>3. req' = [req EXCEPT ![r] = q] /\ UNCHANGED <<member, subscription, live, byOwner>>
    BY <1>1 DEF InviteLookup
  <2>4. RequestOK(q)'
    BY <2>1, <2>2 DEF RequestOK
  <2>6. q.pc = "counted" => live + 1 <= DepartmentCap
    BY <2>1
  <2> HIDE DEF q, OrganisationInv, OrganisationTypeOK
  <2> QED
    BY <2>1, <2>2, <2>3, <2>4, <2>6, RequestMoves, Zenon
<1>2. ASSUME NEW r \in Request, NEW caller \in Person, InviteCheck(r, caller)
      PROVE  OrganisationInv'
  <2>1. member[caller] \in Memberships /\ req[r] \in Reqs /\ req[r].pc = "inviting"
    BY <1>2 DEF InviteCheck, Require, ResolveActor
  <2>q. PICK q \in Reqs :
          q = [req[r] EXCEPT !.pc = "seated", !.caller = member[caller].role]
    BY <2>1, Zenon DEF Reqs, Pcs, Memberships
  <2>2. q \in Reqs /\ q.pc = "seated" /\ q.target = req[r].target
        /\ q.caller = member[caller].role /\ q.role = req[r].role
    BY <2>1, <2>q DEF Reqs
  <2>3. req' = [req EXCEPT ![r] = q] /\ UNCHANGED <<users, member, subscription, live, byOwner>>
    BY <1>2, <2>1, <2>q, Zenon DEF InviteCheck, Reqs
  <2>4. RequestOK(q)'
    BY <1>2, <2>1, <2>2, <2>3 DEF RequestOK, InviteCheck
  <2>5. users \subseteq users' /\ users' \subseteq Person
    BY <2>3
  <2>6. q.pc = "counted" => live + 1 <= DepartmentCap
    BY <2>2
  <2> HIDE DEF OrganisationInv, OrganisationTypeOK
  <2> QED
    BY <2>2, <2>3, <2>4, <2>5, <2>6, RequestMoves, Zenon
<1>3. ASSUME NEW r \in Request, InviteCommit(r)
      PROVE  OrganisationInv'
  <2> DEFINE m == [role |-> req[r].role, status |-> "invited"]
  <2>1. /\ req[r] \in Reqs /\ req[r].role \in Roles /\ req[r].caller \in Roles
        /\ OutranksStrictly(req[r].caller, req[r].role) /\ req[r].target \in users
    BY <1>3 DEF InviteCommit, RequestOK, Reqs
  <2>2. m \in Memberships /\ m.role = req[r].role
    BY <2>1 DEF Memberships, MembershipStatuses
  <2>3. /\ req[r].target # Founder
        /\ member' = [member EXCEPT ![req[r].target] = m]
        /\ Note(req[r].target, req[r].caller)
        /\ req' = [req EXCEPT ![r] = Idle] /\ UNCHANGED <<users, subscription, live>>
    BY <1>3 DEF InviteCommit, CreateMembership
  <2>4. m.role # "owner" /\ (m.role = "admin" => req[r].caller = "owner")
    BY <2>1, <2>2, Seniority
  <2> HIDE DEF m, OrganisationInv, OrganisationTypeOK
  <2> QED
    BY <2>1, <2>2, <2>3, <2>4, MemberWritten, Zenon
<1>4. ASSUME NEW r \in Request, NEW caller \in Person, NEW p \in Person, NEW role \in Granted,
             NEW status \in MembershipStatuses, UpdateAdmit(r, caller, p, role, status)
      PROVE  OrganisationInv'
  <2>1. member[caller] \in Memberships
    BY <1>4 DEF UpdateAdmit, Require, ResolveActor
  <2>q. PICK q \in Reqs :
          q = [pc |-> "admitted", caller |-> member[caller].role, target |-> p,
               role |-> role, status |-> status]
    BY <2>1, OrganisationAssumption, Zenon DEF Reqs, Pcs, Memberships
  <2>2. q \in Reqs /\ q.pc = "admitted"
    BY <2>q
  <2>3. req' = [req EXCEPT ![r] = q] /\ UNCHANGED <<users, member, subscription, live, byOwner>>
    BY <1>4, <2>q DEF UpdateAdmit
  <2>4. RequestOK(q)'
    BY <2>2 DEF RequestOK
  <2>5. users \subseteq users' /\ users' \subseteq Person
    BY <2>3
  <2>6. q.pc = "counted" => live + 1 <= DepartmentCap
    BY <2>2
  <2> HIDE DEF OrganisationInv, OrganisationTypeOK
  <2> QED
    BY <2>2, <2>3, <2>4, <2>5, <2>6, RequestMoves, Zenon
<1>5. ASSUME NEW r \in Request, UpdateCompare(r)
      PROVE  OrganisationInv'
  <2>1. /\ req[r] \in Reqs /\ req[r].caller \in Roles /\ req[r].target \in Person
        /\ member[req[r].target] \in Memberships
    BY <1>5 DEF UpdateCompare, GetMembership, Reqs
  <2>q. PICK q \in Reqs : q = [req[r] EXCEPT !.pc = "compared"]
    BY <2>1, Zenon DEF Reqs, Pcs
  <2>2. q \in Reqs /\ q.pc = "compared" /\ q.target = req[r].target
        /\ q.caller = req[r].caller /\ q.role = req[r].role
    BY <2>1, <2>q DEF Reqs
  <2>3. req' = [req EXCEPT ![r] = q] /\ UNCHANGED <<users, member, subscription, live, byOwner>>
    BY <1>5, <2>q DEF UpdateCompare
  <2>4. q.target # Founder
    <3>1. member[q.target].role \in Roles /\ OutranksStrictly(q.caller, member[q.target].role)
      BY <1>5, <2>1, <2>2 DEF UpdateCompare, GetMembership, Memberships
    <3>2. member[q.target].role # "owner"
      BY <2>1, <2>2, <3>1, Seniority
    <3> QED
      BY <2>1, <2>2, <3>2, OrganisationAssumption DEF OwnerStands
  <2>5. RequestOK(q)'
    BY <1>5, <2>2, <2>4 DEF RequestOK, UpdateCompare
  <2>6. users \subseteq users' /\ users' \subseteq Person
    BY <2>3
  <2>7. q.pc = "counted" => live + 1 <= DepartmentCap
    BY <2>2
  <2> HIDE DEF OrganisationInv, OrganisationTypeOK
  <2> QED
    BY <2>2, <2>3, <2>5, <2>6, <2>7, RequestMoves, Zenon
<1>6. ASSUME NEW r \in Request, UpdateCommit(r)
      PROVE  OrganisationInv'
  <2> DEFINE m == [role |-> req[r].role, status |-> req[r].status]
  <2>1. /\ req[r].role \in Roles /\ req[r].caller \in Roles
        /\ req[r].status \in MembershipStatuses /\ req[r].target \in Person
        /\ OutranksStrictly(req[r].caller, req[r].role) /\ req[r].target # Founder
    BY <1>6 DEF UpdateCommit, RequestOK, Reqs
  <2>2. m \in Memberships /\ m.role = req[r].role
    BY <2>1 DEF Memberships
  <2>3. /\ req[r].target \in users
        /\ member' = [member EXCEPT ![req[r].target] = m]
        /\ Note(req[r].target, req[r].caller)
        /\ req' = [req EXCEPT ![r] = Idle] /\ UNCHANGED <<users, subscription, live>>
    BY <1>6, <2>1 DEF UpdateCommit, UpdateMembership
  <2>4. m.role # "owner" /\ (m.role = "admin" => req[r].caller = "owner")
    BY <2>1, <2>2, Seniority
  <2> HIDE DEF m, OrganisationInv, OrganisationTypeOK
  <2> QED
    BY <2>1, <2>2, <2>3, <2>4, MemberWritten, Zenon
<1>7. ASSUME NEW r \in Request, NEW caller \in Person, DepartmentCheck(r, caller)
      PROVE  OrganisationInv'
  <2> DEFINE q == [Idle EXCEPT !.pc = "counted"]
  <2>1. q \in Reqs /\ q.pc = "counted"
    BY OrganisationAssumption DEF Idle, Reqs, Pcs, Roles, MembershipStatuses
  <2>2. req' = [req EXCEPT ![r] = q] /\ UNCHANGED <<users, member, subscription, live, byOwner>>
    BY <1>7 DEF DepartmentCheck
  <2>3. DepartmentLimit(subscription) \in 0 .. DepartmentCap
    BY OrganisationAssumption
  <2>4. live + 1 <= DepartmentCap
    BY <1>7, <2>3, OrganisationAssumption
    DEF DepartmentCheck, enforceLimit, Within, NoLimit, GetTenantEntitlement, CountLiveDepartments
  <2>5. RequestOK(q)'
    BY <2>1 DEF RequestOK
  <2>6. users \subseteq users' /\ users' \subseteq Person
    BY <2>2
  <2> HIDE DEF q, OrganisationInv, OrganisationTypeOK
  <2> QED
    BY <2>1, <2>2, <2>4, <2>5, <2>6, RequestMoves, Zenon
<1>8. ASSUME NEW r \in Request, CreateDepartment(r)
      PROVE  OrganisationInv'
  <2>1. /\ r \in Counted /\ live' = live + 1 /\ req' = [req EXCEPT ![r] = Idle]
        /\ UNCHANGED <<users, member, subscription, byOwner>>
    BY <1>8 DEF CreateDepartment, Counted
  <2>2. Counted' = Counted \ {r}
    BY <2>1, IdleOK DEF Counted
  <2>3. Cardinality(Counted') = Cardinality(Counted) - 1
    BY <2>1, <2>2, CountedFinite, FS_RemoveElement
  <2>4. DepartmentsNearLimit'
    BY <2>1, <2>3, CountedFinite, OrganisationAssumption DEF DepartmentsNearLimit
  <2>5. OrganisationTypeOK'
    BY <2>1, IdleOK
  <2>6. OwnerStands' /\ AdminsComeFromTheOwner' /\ (member[Founder] # NULL)'
    BY <2>1 DEF OwnerStands, AdminsComeFromTheOwner
  <2>7. \A s \in Request : RequestOK(req[s])'
    BY <2>1, IdleOK DEF RequestOK
  <2> QED
    BY <2>1, <2>4, <2>5, <2>6, <2>7
<1>9. ASSUME NEW r \in Request, Fail(r)
      PROVE  OrganisationInv'
  <2>1. /\ req' = [req EXCEPT ![r] = Idle]
        /\ UNCHANGED <<users, member, subscription, live, byOwner>>
        /\ users \subseteq users' /\ users' \subseteq Person
    BY <1>9 DEF Fail
  <2>2. /\ Idle \in Reqs /\ (Idle.pc = "counted" => live + 1 <= DepartmentCap)
        /\ RequestOK(Idle)'
    BY <2>1, IdleOK DEF RequestOK
  <2> HIDE DEF OrganisationInv, OrganisationTypeOK
  <2> QED
    BY <2>1, <2>2, RequestMoves, Zenon
<1>10. ASSUME NEW caller \in Person, ArchiveDepartment(caller)
       PROVE  OrganisationInv'
  <2>1. /\ live > 0 /\ live' = live - 1
        /\ UNCHANGED <<users, member, subscription, req, byOwner>>
    BY <1>10 DEF ArchiveDepartment
  <2>2. Counted' = Counted
    BY <2>1 DEF Counted
  <2>3. DepartmentsNearLimit'
    BY <2>1, <2>2, CountedFinite, OrganisationAssumption DEF DepartmentsNearLimit
  <2> QED
    BY <2>1, <2>3 DEF OwnerStands, AdminsComeFromTheOwner, RequestOK
<1>11. CASE SubscriptionChanges
  <2>1. subscription' \in Subscription /\ UNCHANGED <<users, member, live, req, byOwner>>
    BY <1>11 DEF SubscriptionChanges
  <2>2. DepartmentsNearLimit'
    BY <2>1 DEF DepartmentsNearLimit, Counted
  <2> QED
    BY <2>1, <2>2, OrganisationAssumption DEF OwnerStands, AdminsComeFromTheOwner, RequestOK
<1>12. CASE UNCHANGED vars
  BY <1>12 DEF vars, OwnerStands, AdminsComeFromTheOwner, DepartmentsNearLimit, Counted,
               RequestOK
<1> HIDE DEF OrganisationInv, OrganisationTypeOK
<1>13. ASSUME NEW r \in Request, RequestStep(r)
       PROVE  OrganisationInv'
  BY <1>13, <1>1, <1>2, <1>3, <1>4, <1>5, <1>6, <1>7, <1>8, <1>9, Zenon DEF RequestStep
<1> QED
  BY <1>10, <1>11, <1>12, <1>13, Zenon DEF Next

\* However concurrent invitations, updates and departments interleave, the
\* invariant holds in every reachable state.
THEOREM OrganisationInvariance == Spec => []OrganisationInv
BY OrganisationInitial, OrganisationStep, PTL DEF Spec

\* The founder stays the one active owner: InviteMember and UpdateMember write
\* a role below one that was the caller's at some time, which is never owner.
THEOREM FounderStands == Spec => [](OrganisationTypeOK /\ OwnerStands)
<1>1. OrganisationInv => OrganisationTypeOK /\ OwnerStands
  BY DEF OrganisationInv
<1> QED
  BY <1>1, OrganisationInvariance, PTL

\* Only the founder makes admins, however late UpdateMember's comparison of
\* roles is used.
THEOREM OnlyTheOwnerMakesAdmins == Spec => []AdminsComeFromTheOwner
<1>1. OrganisationInv => AdminsComeFromTheOwner
  BY DEF OrganisationInv
<1> QED
  BY <1>1, OrganisationInvariance, PTL

\* enforceLimit is overrun by at most the other requests in flight.
THEOREM DepartmentOverrun == Spec => []DepartmentsNearLimit
<1>1. OrganisationInv => DepartmentsNearLimit
  BY DEF OrganisationInv
<1> QED
  BY <1>1, OrganisationInvariance, PTL
=============================================================================
