SPECIFICATION MCSpec
CONSTANTS
    Conns = {c1, c2}
    Ids = {i1, i2}
    Assocs = {a1, a2, a3}
    None = None
    Lengths = {0, 1, 3, 5}
    MaxWrites = 3
    MaxRepeats = 1
    Budget = 2
    MaxPayload = 5
    MaxFragments = 2
    MaxPending = 2
    QueueDepth = 1
INVARIANTS
    RoutedIffInUse
    ClosedStaysEmpty
    WholeDatagrams
    PendingIsSound
    NoDatagramVanishes
CHECK_DEADLOCK FALSE
