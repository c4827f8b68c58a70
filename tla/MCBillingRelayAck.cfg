SPECIFICATION Spec
CONSTANTS
    NULL = NULL
    Receiver = {r1}
    Sweeper = {s1}
    MaxRelayAttempts = 2
    RelaySweepBatch = 2
    MaxEvents = 1
    MaxTime = 2
    MaxFaults = 1
INVARIANT
    AcknowledgedIsDone
