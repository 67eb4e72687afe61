SPECIFICATION FairSpec
CONSTANTS
    Workers = {w1, w2}
    Connections = {c1, c2, c3}
    NoConn = NoConn
    Generations = {1, 2, 3}
    Faults = {"break", "evict", "restart"}
    MaxFaults = 1
INVARIANTS
    OneSession
PROPERTY
    KeptSessionRecovers
CHECK_DEADLOCK FALSE
