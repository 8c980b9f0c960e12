SPECIFICATION Spec
CONSTANTS
    db = db
    wal = wal
    journal = journal
    backup = backup
    Paths <- MCPaths
    MaxCalls = 3
INVARIANTS
    
    AnswerIsTrue
CHECK_DEADLOCK FALSE
