SPECIFICATION Spec
CONSTANTS
    User = {u1}
    Admin = {}
    Sid = {s1}
    Request = {r1}
    Nobody = Nobody
    Txn = {t1, t2}
    Callback = {k1, k2}
    Receiver = {h1}
    RP = client
    MaxAttempts = 1
    MaxReplays = 1
INVARIANTS
    NoLocalSessionAfterAck
CHECK_DEADLOCK FALSE
