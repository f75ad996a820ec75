SPECIFICATION Spec
CONSTANTS
    ClearConsecutive = 3
    Cooldown = 3
    CriticalReminder = 2
    WarningReminder = 3
    MaxGeneration = 2
    Observations <- MCObservations
CHECK_DEADLOCK FALSE
INVARIANTS
    StateIsReadable
    Hysteresis
    MailTellsTheStory
    RefusedOnlyAbandoned
    UnknownIsSound
