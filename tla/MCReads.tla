------------------------------ MODULE MCReads ------------------------------
(* Reads for TLC: a manager who becomes a finance clerk or is suspended, and  *)
(* a tenant next door. *)
EXTENDS Reads, TLC

CONSTANTS t1, t2, boss, staff, other, d1, d2, walker, reporter

mc_Tenant == {t1, t2}

mc_Member == {boss, staff, other}

mc_TenantOf == [m \in mc_Member |-> IF m = other THEN t2 ELSE t1]

mc_Membership(m, role, dept, status) ==
    [id |-> m, role |-> role, dept |-> dept, status |-> status]

mc_Reassigned ==
    {mc_Membership(boss, "finance", NULL, "active"), mc_Membership(boss, "manager", d1, "suspended")}

\* Two claims of one day, one of the day after and the neighbour's.
mc_Filed ==
    [c \in 1 .. 4 |->
        CASE c = 1 -> [submitter |-> boss, dept |-> d1, spent |-> 2]
          [] c = 2 -> [submitter |-> staff, dept |-> d2, spent |-> 4]
          [] c = 3 -> [submitter |-> boss, dept |-> d1, spent |-> 2]
          [] c = 4 -> [submitter |-> other, dept |-> NULL, spent |-> 2]]

mc_Calls == (walker :> {"list", "queue"}) @@ (reporter :> {"export", "sweep"})

mc_Subject == (walker :> boss) @@ (reporter :> boss)

mc_Start ==
    [status |-> [c \in 1 .. 4 |-> IF c = 2 THEN "none" ELSE "draft"],
     submitted |-> [c \in 1 .. 4 |-> 0],
     member |-> [m \in mc_Member |->
                    CASE m = boss -> mc_Membership(boss, "manager", d1, "active")
                      [] m = staff -> mc_Membership(staff, "member", d2, "active")
                      [] m = other -> mc_Membership(other, "owner", NULL, "active")],
     exportRows |-> [t \in mc_Tenant |-> IF t = t1 THEN NoLimit ELSE 1]]

mc_ExportLimits == {1, NoLimit}
=============================================================================
