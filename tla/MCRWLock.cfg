SPECIFICATION FairLockSpec
CONSTANTS
    u1 = u1
    u2 = u2
    u3 = u3
    u4 = u4
    u5 = u5
    Users <- MCFive
INVARIANTS
    AwakeWhenDue
PROPERTIES
    ImplementsSharedLock
    WriterGetsIn
