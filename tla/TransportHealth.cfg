SPECIFICATION FairSpec
CONSTANTS
    Workers = {w1, w2}
    NoWorker = NoWorker
INVARIANTS
    NoEarlyRefusal
    ChallengeHasAsker
PROPERTIES
    NoFailFastAfterLanes
    LanesAreReported
    RefusalIsReported
