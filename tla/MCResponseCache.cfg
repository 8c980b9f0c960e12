SPECIFICATION Spec
CONSTANTS
    r1 = r1  r2 = r2
    me = me  other = other
    Requests = {r1, r2}
    Identities = {me, other}
    Identity <- MCIdentity
    Nothing = Nothing
    Life = 1
    MaxClock = 3
    MaxSaves = 2
SYMMETRY MCSymmetry
INVARIANTS
    
    SourceIsTold
