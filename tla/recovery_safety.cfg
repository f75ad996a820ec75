SPECIFICATION Spec
CONSTANTS
    Codes = {c1}
    MaxGeneration = 3
    Recoveries = {r1, r2}
    Challenges = {h1, h2}
    Passkeys = {k1, k2}
    Providers = {p1, p2}
    Sessions = {s1}
    Requests = {q1, q2}
    None = None
SYMMETRY Symmetry
CHECK_DEADLOCK FALSE
INVARIANTS
    CodeOpensOne
    ClosedStaysClosed
    RecoveryIsGrounded
    ChallengeServesOne
    EndedSessionIssuesNothing
PROPERTIES
    FinalUnlinkIsCovered
