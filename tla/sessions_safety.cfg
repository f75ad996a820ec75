SPECIFICATION Spec
CONSTANTS
    User = {u1, u2}
    Admin = {u1, u2}
    Sid = {s1, s2}
    Client = {c1}
    Request = {r1, r2}
    Flow = {f1}
    Nobody = Nobody
SYMMETRY Symmetry
INVARIANTS
    NoticesAreExact
    NoTokenOutlivesRevocation
    AnAdminRemains
PROPERTIES
    OtherSessionsUntouched
