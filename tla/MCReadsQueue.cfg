\* A manager walks the approval queue.
CONSTANTS
    NULL = NULL
    DefaultManagerLimit = 1
    t1 = t1  t2 = t2
    boss = boss  staff = staff  other = other
    d1 = d1  d2 = d2
    walker = walker  reporter = reporter
    Tenant <- mc_Tenant
    Member <- mc_Member
    TenantOf <- mc_TenantOf
    Reassigned <- mc_Reassigned
    Department = {d1, d2}
    Claim = {1, 2, 3, 4}
    Filed <- mc_Filed
    Conn = {k1}
    Request = {walker, reporter}
    Subject <- mc_Subject
    Calls <- mc_Calls
    Start <- mc_Start
    PageSize = 1
    TicksPerSecond = 2
    ExportLimits <- mc_ExportLimits
    MaxSerializationRetries = 2
    MaxClock = 1
    MaxWrites = 2
SPECIFICATION Spec
INVARIANT
    QueueNeverRepeats
