SPECIFICATION Spec
CONSTANTS
    d1 = d1
    d2 = d2
    d3 = d3
    x = x
    y = y
    c1 = c1
    c2 = c2
    c3 = c3
    t1 = t1
    None = None
    Databases <- MCDatabases
    Paths <- MCPaths
    Pools <- MCPools
    Tags <- MCTags
    MaxRefs = 2
INVARIANT
    SameCore
CHECK_DEADLOCK FALSE
