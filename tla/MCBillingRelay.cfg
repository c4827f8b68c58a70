SPECIFICATION FairSpec
CONSTANTS
    NULL = NULL
    Receiver = {r1}
    Sweeper = {s1, s2}
    MaxRelayAttempts = 2
    RelaySweepBatch = 2
    MaxEvents = 2
    MaxTime = 2
    MaxFaults = 1
INVARIANTS
    RelayTypeOK
    SucceededIsReflected
PROPERTIES
    SettledOnce
    ClaimedIsSettled
    Converges
CHECK_DEADLOCK FALSE
