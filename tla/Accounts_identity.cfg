SPECIFICATION Spec
CONSTANTS
    Users = {u1, u2, u3}
    Identities = {g1}
    Handlers = {h1, h2}
    Life = 2
    PassLife = 0
    SessionLife = 1
    Leeway = 1
    MaxTime = 4
    MaxOps = 5
    MaxCrashes = 1
    Configurations <- OneAtATime
    None = None
SYMMETRY Symmetric
CHECK_DEADLOCK FALSE
INVARIANTS
    SignInSound
    AccessExpires
    RowsMatchServices
PROPERTIES
    AdminSurvives
