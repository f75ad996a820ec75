SPECIFICATION Spec
CONSTANTS
    Codes = {c1}
    MaxGeneration = 1
    Recoveries = {r1}
    Challenges = {h1}
    Passkeys = {k1, k2}
    Providers = {p1}
    Sessions = {s1}
    Requests = {q1, q2}
    None = None
SYMMETRY Symmetry
CHECK_DEADLOCK FALSE
INVARIANTS
    AMethodRemains
