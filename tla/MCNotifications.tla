-------------------------- MODULE MCNotifications --------------------------
(* Notifications for TLC. *)
EXTENDS Notifications

CONSTANTS d1, d2, owner, admin, teller, lead, deputy, away, abroad, clerk

mc_Member == {owner, admin, teller, lead, deputy, away, abroad, clerk}

Membership(m, role, standing, dept) ==
    [id |-> m, role |-> role, status |-> standing, dept |-> dept, limit |-> NULL]

\* The owner; an admin and a member of finance without a department; four
\* managers: tenant-wide, of the claim's department, suspended there, and of
\* another department; a member.
mc_Team ==
    [m \in mc_Member |->
        CASE m = owner  -> Membership(m, "owner", "active", NULL)
          [] m = admin  -> Membership(m, "admin", "active", NULL)
          [] m = teller -> Membership(m, "finance", "active", NULL)
          [] m = lead   -> Membership(m, "manager", "active", NULL)
          [] m = deputy -> Membership(m, "manager", "active", d1)
          [] m = away   -> Membership(m, "manager", "suspended", d1)
          [] m = abroad -> Membership(m, "manager", "active", d2)
          [] m = clerk  -> Membership(m, "member", "active", d1)]

\* A department that may spend two and is warned about at 10000 basis points,
\* under a tenant-wide envelope of three, warned about at two thirds of it.
mc_BudgetMinor == [e \in Envelope |-> IF e = NULL THEN 3 ELSE 2]

mc_ThresholdBps == [e \in Envelope |-> IF e = NULL THEN 6667 ELSE 10000]
=============================================================================
