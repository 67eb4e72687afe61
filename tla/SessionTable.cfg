SPECIFICATION Spec
CONSTANTS
    Handlers = {h1, h2}
    i1 = i1
    i2 = i2
    u1 = u1
    u2 = u2
    SessionIds = {i1, i2}
    Users = {u1, u2}
    Requests <- MCRequests
    Sessions = {s1, s2}
    NoSession = NoSession
    NoRequest = NoRequest
    MaxSessions = 1
    MaxUserSessions <- MCMaxUserSessions
    MaxPending = 2
    PromptSetup = TRUE
SYMMETRY Symmetry
INVARIANTS
    UserAccounting
    SessionLimits
    AttachIsProtected
    NoOrphanLane
PROPERTY NoEvictionInVain
CHECK_DEADLOCK FALSE
