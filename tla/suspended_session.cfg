SPECIFICATION Spec
CONSTANTS
    User = {u1, u2}
    Admin = {u1}
    Sid = {s1, s2}
    Client = {}
    Request = {r1, r2}
    Flow = {}
    Nobody = Nobody
INVARIANTS
    SuspendedHasNoSession
