SPECIFICATION MemberSpec
CONSTANTS
    m1 = m1
    m2 = m2
    t1 = t1
    t2 = t2
    Individuals <- MCIndividuals
    Maintainers = {e1, e2}
    Texts <- MCTexts
    Matches <- MCMatches
    Partial = Partial
    Nothing = Nothing
    MaxRequests = 2
INVARIANTS
    MemberTypeOK
    
    
    
