SPECIFICATION Spec
CONSTANTS
    e1 = e1  e2 = e2  me = me
    None = None
    Employees <- MCEmployees
    Myself = me
    MaxReloads = 3
    MaxOps = 2
INVARIANTS
    SettledTableAgrees
CHECK_DEADLOCK FALSE
