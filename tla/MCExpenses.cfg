SPECIFICATION FairSpec
CONSTANTS
    NULL = NULL
    Deleted = Deleted
    own = own
    mia = mia
    sam = sam
    d1 = d1
    DefaultManagerLimit = 3
    Member <- mc_Member
    Department <- mc_Department
    Amount <- mc_Amount
    Limit <- mc_Limit
    Claim = {c1}
    Tx = {t1, t2}
    Requests <- mc_Requests
    InitialMembers <- mc_InitialMembers
    MembershipChange <- mc_Promotions
    MaxVersion = 7
INVARIANTS
    TypeOK
    LedgerTellsTheClaim
    OneDecisionPerRevision
    SeparationOfDuties
    DeciderIsInLedger
    LockProtectsTheRead
    TransitionsMeetConstraints
PROPERTIES
    SettledIsFinal
    ClaimSpec
    RequestsEnd
