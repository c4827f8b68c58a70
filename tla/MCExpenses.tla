----------------------------- MODULE MCExpenses -----------------------------
(***************************************************************************)
(* A small organisation for Expenses: an owner and two managers of one     *)
(* department, one of whom files the claims.  While requests are in flight *)
(* the owner may make a manager (who decides) a finance clerk (who pays).  *)
(***************************************************************************)
EXTENDS Expenses, TLC

CONSTANTS own, mia, sam, d1

mc_Member     == {own, mia, sam}
mc_Department == {d1}
mc_Amount     == {3}
mc_Limit      == {2}

Membership(m, role, dept) ==
    [id |-> m, role |-> role, status |-> "active", dept |-> dept, limit |-> NULL]

mc_InitialMembers ==
    own :> Membership(own, "owner", NULL) @@
    mia :> Membership(mia, "manager", d1) @@
    sam :> Membership(sam, "manager", d1)

Change(role, status, dept, limit) ==
    [role |-> role, status |-> status, dept |-> dept, limit |-> limit]

mc_Promotions == {Change("finance", "active", NULL, NULL)}

\* Everybody asks for what their role could ever let them do.
mc_Requests ==
    ({sam} \X {"create", "submit", "withdraw", "revise", "update", "delete", "approve"})
    \cup ({mia} \X {"approve", "reject", "pay"})
    \cup ({own} \X {"approve", "pay"})
=============================================================================
