SPECIFICATION Spec
CONSTANTS
    boot = boot
    admin = admin
    developer = developer
    app = app
    User = {boot, admin, developer}
    Boot = boot
    Client = {app}
    Reserved = {}
    Request = {r1, r2}
    Flow = {f1, f2}
    Nobody = Nobody
    Stored <- MCStored
    Registered <- MCRegistered
    Restless = {developer}
    MaxAudited = 2
    MaxSessions = 2
SYMMETRY Symmetry
INVARIANTS
    GrantsFollowTheClient
PROPERTIES
    ChangesAreAuthorized
    EditsAreNotLost
    OrphansAreOff
CHECK_DEADLOCK FALSE
