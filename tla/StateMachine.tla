---------------------------- MODULE StateMachine ----------------------------
(***************************************************************************)
(* The claim's state machine: the transitions table, Apply with its guards,*)
(* commit, New and Edit of internal/domain/expense.  Everything here is a  *)
(* pure function of a row, an actor and a command.                         *)
(*                                                                         *)
(* A row keeps the columns the rules read or write.  A timestamp column is *)
(* TRUE when it is set; decision_note and payment_ref are set and cleared  *)
(* together with decidedAt and paidAt and are not kept apart from them.    *)
(***************************************************************************)
EXTENDS Roles, Sequences

CONSTANTS
    Member,      \* membership ids
    Department,  \* department ids
    Amount,      \* amounts in minor units, validated positive
    Limit        \* values of memberships.approval_limit_minor

ASSUME AmountAssumption == Amount \subseteq Nat \ {0}
ASSUME LimitAssumption  == Limit \subseteq Nat /\ NULL \notin Limit
ASSUME IdAssumption     == NULL \notin Member /\ NULL \notin Department

Statuses == {"draft", "pending_approval", "approved", "rejected", "paid"}

Actions == {"submit", "approve", "reject", "withdraw", "revise", "pay"}

EventActions ==
    {"created", "updated", "submitted", "approved", "rejected", "withdrawn",
     "revised", "paid"}

\* Seeded fault: withdraw leaves approved instead of pending_approval.
FromApprovedWithdraw ==
    [submit   |-> "draft",            approve  |-> "pending_approval",
     reject   |-> "pending_approval", withdraw |-> "approved",
     revise   |-> "rejected",         pay      |-> "approved"]

\* The transitions table, one column per operator: an action labels exactly
\* one edge.
From == [submit   |-> "draft",            approve |-> "pending_approval",
         reject   |-> "pending_approval", withdraw |-> "pending_approval",
         revise   |-> "rejected",         pay     |-> "approved"]

To == [submit   |-> "pending_approval", approve  |-> "approved",
       reject   |-> "rejected",         withdraw |-> "draft",
       revise   |-> "draft",            pay      |-> "paid"]

EventOf == [submit   |-> "submitted", approve |-> "approved", reject |-> "rejected",
            withdraw |-> "withdrawn", revise  |-> "revised",  pay    |-> "paid"]

actionPermission ==
    [submit   |-> "ExpenseSubmit",  approve |-> "ExpenseApprove",
     reject   |-> "ExpenseApprove", withdraw |-> "ExpenseSubmit",
     revise   |-> "ExpenseCreate",  pay     |-> "ExpensePay"]

MustBeSubmitter       == {"submit", "withdraw", "revise"}
MustNotBeSubmitter    == {"approve", "reject", "pay"}

\* Seeded fault: the pay edge loses its MustNotBeDecider guard.
AnyoneMayPay == {}
MustNotBeDecider      == {"pay"}
WithinLimit           == {"approve", "reject"}
WithinDepartmentScope == {"approve", "reject"}
RequiresText          == {"reject", "pay"}   \* RequiresReason, RequiresPaymentRef

\* Seeded fault: revise reopens the claim under its old revision.
NeverBumps == {}
BumpsRevision         == {"revise"}

Editable(status) == status = "draft"

-----------------------------------------------------------------------------
Actors ==
    [id : Member, role : Roles, status : MembershipStatuses,
     dept : Department \cup {NULL}, limit : Limit \cup {NULL}]

Rows ==
    [status : Statuses, submitter : Member, dept : Department \cup {NULL},
     amount : Amount, submittedAt : BOOLEAN, decidedAt : BOOLEAN,
     decidedBy : Member \cup {NULL}, paidAt : BOOLEAN,
     revision : Nat \ {0}, version : Nat \ {0}]

Events ==
    [action : EventActions, from : Statuses \cup {NULL}, to : Statuses,
     actor : Member, amount : Amount, revision : Nat \ {0}]

-----------------------------------------------------------------------------
\* What the command carries as its reason and payment reference.
CommandTexts == {"blank", "given", "too_long"}

checkGuards(e, a, actor, text) ==
    /\ a \in MustBeSubmitter       => actor.id = e.submitter
    /\ a \in MustNotBeSubmitter    => actor.id # e.submitter
    /\ a \in MustNotBeDecider      => actor.id # e.decidedBy
    /\ a \in WithinLimit           => WithinApprovalLimit(actor, e.amount)
    /\ a \in WithinDepartmentScope => GovernsDepartment(actor, e.dept)
    /\ a \in RequiresText          => text # "blank"
    /\ text # "too_long"

Applies(e, a, actor, text) ==
    /\ Can(actor, actionPermission[a])
    /\ e.status = From[a]
    /\ checkGuards(e, a, actor, text)

\* Seeded fault: paying stamps the payer as the decider.
PayDecidesToo(a) == a \in {"approve", "reject", "pay"}
Decides(a) == a \in {"approve", "reject"}

\* Seeded fault: revise forgets to clear the decision columns.
WithdrawOnly(a) == a = "withdraw"
Reopens(a) == a \in {"withdraw", "revise"}

\* The row after commit.
Moved(e, a, actor) ==
    [status      |-> To[a],
     submitter   |-> e.submitter,
     dept        |-> e.dept,
     amount      |-> e.amount,
     submittedAt |-> ~Reopens(a) /\ (a = "submit" \/ e.submittedAt),
     decidedAt   |-> ~Reopens(a) /\ (Decides(a) \/ e.decidedAt),
     decidedBy   |-> IF Decides(a) THEN actor.id
                     ELSE IF Reopens(a) THEN NULL ELSE e.decidedBy,
     paidAt      |-> a = "pay" \/ e.paidAt,
     revision    |-> IF a \in BumpsRevision THEN e.revision + 1 ELSE e.revision,
     version     |-> e.version + 1]

\* Seeded fault: the event is built before the revision is bumped.
EventBeforeBump(e, a, actor) ==
    [action |-> EventOf[a], from |-> e.status, to |-> To[a], actor |-> actor.id,
     amount |-> e.amount, revision |-> e.revision]

\* The ledger row commit returns: the status left, the revision arrived at.
MoveEvent(e, a, actor) ==
    [action |-> EventOf[a], from |-> e.status, to |-> To[a], actor |-> actor.id,
     amount |-> e.amount, revision |-> Moved(e, a, actor).revision]

NewClaim(submitter, dept, amount) ==
    [status |-> "draft", submitter |-> submitter, dept |-> dept, amount |-> amount,
     submittedAt |-> FALSE, decidedAt |-> FALSE, decidedBy |-> NULL,
     paidAt |-> FALSE, revision |-> 1, version |-> 1]

NewEvent(submitter, amount) ==
    [action |-> "created", from |-> NULL, to |-> "draft", actor |-> submitter,
     amount |-> amount, revision |-> 1]

Edited(e, dept, amount) ==
    [e EXCEPT !.dept = dept, !.amount = amount, !.version = @ + 1]

EditEvent(e, actor, amount) ==
    [action |-> "updated", from |-> e.status, to |-> e.status, actor |-> actor.id,
     amount |-> amount, revision |-> e.revision]
=============================================================================
