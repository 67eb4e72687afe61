SPECIFICATION MCSpec
CONSTANTS
    w1 = w1
    w2 = w2
    l1 = l1
    f1 = f1
    f2 = f2
    s1 = s1
    s2 = s2
    p1 = p1
    p2 = p2
    Workers <- const_Workers
    Links <- const_Links
    LinkOf <- const_LinkOf
    Flights <- const_Flights
    NoFlight = NoFlight
    AuthFailureThreshold = 2
    MaxJoins = 2
    TurnLimit = 1
    Flows <- const_Flows
    Proxies <- const_Proxies
    None = None
    MaxCalls = 2
    States = {"starting", "healthy"}
SYMMETRY Symmetry
INVARIANTS
    TokenBalance
    PermitBalance
    NoJoinBurst
    DroppedStaysDropped
    NoWaiterLeftBehind
    QuestionIsOwn
    TerminalWasCancelled
    RuntimeIsHeard
    StreamIsCurrent
