SPECIFICATION FairSpec
CONSTANTS
    Handlers = {h1, h2}
    i1 = i1
    i2 = i2
    u1 = u1
    u2 = u2
    SessionIds = {i1}
    Users = {u1}
    Requests <- MCOneSession
    Sessions = {s1, s2}
    NoSession = NoSession
    NoRequest = NoRequest
    MaxSessions = 1
    MaxUserSessions <- MCMaxUserSessions
    MaxPending = 2
    PromptSetup = TRUE
INVARIANTS
    AttachAccounting
    SlotAccounting
PROPERTIES
    IdleSessionsGo
    HandshakesEnd
CHECK_DEADLOCK FALSE
