SPECIFICATION Spec
CONSTANTS
    ClearConsecutive = 5
    Cooldown = 2
    CriticalReminder = 2
    WarningReminder = 3
    MaxGeneration = 2
    Observations <- MCObservations
CHECK_DEADLOCK FALSE
INVARIANTS
    FifthClearResolves
