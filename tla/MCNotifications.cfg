SPECIFICATION Spec
CONSTANTS
    NULL = NULL
    d1 = d1
    d2 = d2
    owner = owner
    admin = admin
    teller = teller
    lead = lead
    deputy = deputy
    away = away
    abroad = abroad
    clerk = clerk
    DefaultManagerLimit = 1
    Member <- mc_Member
    Department = {d1, d2}
    Amount = {1}
    Limit = {1}
    Move = {"submit", "withdraw", "approve"}
    Team <- mc_Team
    Submitter = lead
    ClaimDept = d1
    Elsewhere = {d1}
    BudgetMinor <- mc_BudgetMinor
    ThresholdBps <- mc_ThresholdBps
    Request = {r1, r2}
    MaxRetry = 1
    MaxCommits = 3
    MaxLost = 1
INVARIANTS
    NotificationsTypeOK
    WorkersSeeTheTransition
    NothingForgotten
    DecidersAreTold
PROPERTIES
    BreachIsAlerted
    TasksEnd
CHECK_DEADLOCK FALSE
