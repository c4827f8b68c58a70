------------------------------- MODULE Roles -------------------------------
(***************************************************************************)
(* Roles, the permission matrix and the acting membership: the pure        *)
(* authority rules of internal/domain/tenant.  An actor is a membership    *)
(* record [id, role, status, dept, limit]; dept and limit are NULL when    *)
(* the row's column is NULL.  The organisation itself is taken to be       *)
(* active: no code path ever changes tenants.status.                       *)
(***************************************************************************)
EXTENDS Integers

CONSTANTS
    NULL,                 \* an SQL NULL / a nil pointer
    DefaultManagerLimit   \* DefaultApprovalLimitMinor("manager"), 500_000 in the code

ASSUME ManagerLimitAssumption == DefaultManagerLimit \in Nat

Roles == {"owner", "admin", "finance", "manager", "member", "viewer"}

MembershipStatuses == {"active", "invited", "suspended"}

\* Lower is more senior.
Rank == [owner |-> 0, admin |-> 1, finance |-> 2, manager |-> 3,
         member |-> 4, viewer |-> 5]

OutranksStrictly(r, other) == Rank[r] < Rank[other]

Permissions ==
    {"ExpenseCreate", "ExpenseSubmit", "ExpenseApprove", "ExpensePay",
     "ExpenseReadOwn", "ExpenseReadTeam", "ExpenseReadAll", "ExpenseDeleteOwn",
     "BudgetManage", "VendorSubManage", "DepartmentManage", "MemberManage",
     "TenantManage", "BillingManage", "ReportExport", "AuditRead"}

matrix ==
    [owner   |-> Permissions,
     admin   |-> Permissions \ {"ExpensePay", "BillingManage"},
     finance |-> Permissions \ {"ExpenseApprove", "DepartmentManage", "MemberManage",
                                "TenantManage", "BillingManage"},
     manager |-> {"ExpenseCreate", "ExpenseSubmit", "ExpenseApprove", "ExpenseReadOwn",
                  "ExpenseReadTeam", "ExpenseDeleteOwn", "ReportExport"},
     member  |-> {"ExpenseCreate", "ExpenseSubmit", "ExpenseReadOwn", "ExpenseDeleteOwn"},
     viewer  |-> {"ExpenseReadOwn", "ExpenseReadTeam"}]

Allows(r, p) == p \in matrix[r]

Unlimited == -1

DefaultApprovalLimitMinor ==
    [owner |-> Unlimited, admin |-> Unlimited, manager |-> DefaultManagerLimit,
     finance |-> 0, member |-> 0, viewer |-> 0]

Active(actor) == actor.status = "active"

Can(actor, p) == Active(actor) /\ Allows(actor.role, p)

ApprovalCeilingMinor(actor) ==
    IF actor.limit # NULL THEN actor.limit ELSE DefaultApprovalLimitMinor[actor.role]

WithinApprovalLimit(actor, amount) ==
    LET ceiling == ApprovalCeilingMinor(actor)
    IN  ceiling < 0 \/ amount <= ceiling

\* An actor with no department has tenant-wide scope, whatever the role; a
\* claim filed against no department is in nobody else's scope.
GovernsDepartment(actor, dept) ==
    \/ actor.dept = NULL
    \/ dept # NULL /\ actor.dept = dept
=============================================================================
