SPECIFICATION FairSpec
CONSTANTS
    r1 = r1
    r2 = r2
    Requests <- MCRequests
    Animated <- MCAnimated
INVARIANTS
    AtMostOneCallback
    ExpiryTakenFromBlocks
    RecordedUntilHeard
    NothingRetained
PROPERTIES
    KeepsPromise
    PromiseSettles
    HudGoes
CHECK_DEADLOCK FALSE
