SPECIFICATION Spec
CONSTANTS
    w1 = w1
    w2 = w2
    s1 = s1
    g1 = g1
    g2 = g2
    k1 = k1
    k2 = k2
    k3 = k3
    Worker = {w1, w2}
    Source = {s1}
    Group = {g1, g2}
    Hashed = {g2}
    Key = {k1, k2, k3}
    Place <- MCPlace
    GroupOf <- MCGroupOf
    SourceOf <- MCSourceOf
    ReaderOf <- MCReaderOf
    Observed <- MCObserved
    Lease = 2
    RenewThreshold = 1
    MaxWork = 2
    RenewEvery = 1
    Occurrence = {0, 1}
    MaxTime = 3
    MaxRuns = 2
    MaxActs <- MCActs
    ClearConsecutive = 2
    Cooldown = 1
    CriticalReminder = 1
    WarningReminder = 1
SYMMETRY Symmetry
CHECK_DEADLOCK FALSE
INVARIANTS
    EvaluatesForward
    WatermarkIsComplete
PROPERTIES
    TakenOverIsOver
    SealedPlanHolds
    PartialNeverCalms
