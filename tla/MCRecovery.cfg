SPECIFICATION FairRecoverySpec
CONSTANTS
    Corrupted <- MCFiles
    Names <- MCNames
    Columns = 2
    MaxDepth = 6
    BatchSize = 2
    MayFail <- MCFails
INVARIANTS
    RecoveryTypeOK
    
    RecoveredWhole
PROPERTIES
    RecoveryEnds
CHECK_DEADLOCK FALSE
