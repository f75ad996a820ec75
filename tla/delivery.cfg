SPECIFICATION FairSpec
CONSTANTS
    Delivery = {1}
    Worker = {w1, w2}
    Operator = {o1}
    MaxAttempts = 2
    MaxReplays = 1
    DispatchLimit = 1
INVARIANTS
    LeaseEvidence
    DeliveredWasHeard
PROPERTIES
    LeaseRespected
    EvidenceIsFinal
    ImplementsContract
    EventuallySettled
