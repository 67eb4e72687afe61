SPECIFICATION FairSpec
CONSTANTS
    Workers = {w1, w2}
    Connections = {c1, c2, c3}
    NoConn = NoConn
    Generations = {1, 2, 3}
    Faults = {"break"}
    MaxFaults = 1
PROPERTY
    LaneReconnects
CHECK_DEADLOCK FALSE
