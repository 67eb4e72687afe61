SPECIFICATION FairSpec
CONSTANTS
    Workers = {w1}
    Conns = {c1, c2}
    NoConn = NoConn
    NoWorker = NoWorker
    Rebinders = {r1, r2}
    NetworkGenerations = {1, 2}
    MaxGeneration = 2
INVARIANTS
    ExactlyOneTask
    NoLeakedConn
    StaleLanesAreDoomed
    NoBridgeOutlivesClose
PROPERTIES
    LanesImplemented
    LaneRecovers
    StartupSettles
    CloseReleasesAll
CHECK_DEADLOCK FALSE
