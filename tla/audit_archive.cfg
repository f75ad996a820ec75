CONSTANTS
    w1 = w1
    w2 = w2
    Writer = {w1, w2}
    Skew <- MCSkew
    Bytes <- MCBytes
    Malformed = {}
    MaxRecords = 2
    MaxBytes = 2
    MaxAttempts = 2
    LeaseTime = 2
    RenewBelow = 2
    Backoff <- MCBackoff
    Compensable = {1}
    MaxRecorded = 3
    MaxEvents = 3
    MaxDrafts = 1
    MaxBatches = 2
    MaxGeneration = 2
    MaxTime = 2
    MaxFaults = 1
SPECIFICATION Spec
INVARIANTS
    ArchiveIsComplete
    ReportsAreTrue
    EndsAreAccepted
PROPERTY
    AttemptsEndOnce
CHECK_DEADLOCK FALSE
