---------------------------- MODULE Entitlements ----------------------------
(***************************************************************************)
(* What a tenant may use: the product matrix and the rules of              *)
(* internal/domain/billing.  An entitlement is the local projection of the *)
(* tenant's subscription, [known, plan, status, seats]; known is FALSE     *)
(* when there is no subscription row.                                      *)
(***************************************************************************)
EXTENDS Integers

\* A plan code this build does not know stands for all of them.
PlanCodes == {"free", "starter", "growth", "enterprise", "unheard_of"}

SubscriptionStatuses ==
    {"incomplete", "incomplete_expired", "trialing", "active",
     "past_due", "canceled", "unpaid", "paused"}

Entitlement == [known : BOOLEAN, plan : PlanCodes, status : SubscriptionStatuses, seats : Nat]

\* A payment that is still being retried grants the plan.
IsLive(status) == status \in {"trialing", "active", "past_due"}

NoLimit == -1

Within(limit, count) == limit = NoLimit \/ count <= limit

\* The limits of a plan; no model depends on its features.
plans ==
    [free |-> [seats |-> 3, departments |-> 1, vendorSubscriptions |-> 5, exportRows |-> 1000],
     starter |->
        [seats |-> 10, departments |-> 5, vendorSubscriptions |-> 50, exportRows |-> 25000],
     growth |->
        [seats |-> 50, departments |-> 25, vendorSubscriptions |-> 500, exportRows |-> 250000],
     enterprise |->
        [seats |-> NoLimit, departments |-> NoLimit, vendorSubscriptions |-> NoLimit,
         exportRows |-> NoLimit]]

FreeEntitlement == [known |-> FALSE, plan |-> "free", status |-> "canceled", seats |-> 3]

\* A lapsed subscription falls back to free, an unknown plan that is paid for
\* to starter.
EffectivePlan(e) ==
    IF ~e.known \/ ~IsLive(e.status) THEN "free"
    ELSE IF e.plan \in DOMAIN plans THEN e.plan ELSE "starter"

\* The seats bought lower the plan's ceiling and replace an unlimited one.
SeatLimit(e) ==
    LET ceiling == plans[EffectivePlan(e)].seats
    IN  IF IsLive(e.status) /\ e.seats > 0 /\ (ceiling = NoLimit \/ e.seats < ceiling)
        THEN e.seats
        ELSE ceiling

DepartmentLimit(e) == plans[EffectivePlan(e)].departments
=============================================================================
