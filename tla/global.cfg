SPECIFICATION FairSpec
CONSTANTS
    User = {u1}
    Admin = {}
    Sid = {s1}
    Request = {r1}
    Nobody = Nobody
    Txn = {t1, t2}
    Callback = {k1, k2}
    Receiver = {h1, h2}
    RP = client
    MaxAttempts = 1
    MaxReplays = 1
INVARIANTS
    LocalSessionsAreCovered
    AcknowledgedLeavesLate
    OneSessionPerTransaction
    NoticeClears
PROPERTIES
    RevocationReachesTheRp
    RevocationClosesCallbacks
CHECK_DEADLOCK FALSE
