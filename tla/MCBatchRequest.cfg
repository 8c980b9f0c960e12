SPECIFICATION FairSpec
CONSTANTS
    b1 = b1  b2 = b2
    r1 = r1  r2 = r2  r3 = r3  r4 = r4  r5 = r5
    Batches <- MCBatches
    Requests <- MCRequests
    Members <- MCMembers
INVARIANTS
    SuccessMeansAll
    QuietOnceSettled
    RetainedWhilePending
PROPERTIES
    KeepsPromise
    
    BatchSettles
CHECK_DEADLOCK FALSE
