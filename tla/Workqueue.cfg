CONSTANTS
    t1 = t1
    t2 = t2
    x1 = x1
    x2 = x2
    x3 = x3
    i1 = i1
    Works = {x1, x2, x3, i1}
    IsrWorks = {i1}
    Tasks = {t1, t2}
    Destroyer = t1
    End = End
    None = None
    MaxWaits = 1
SPECIFICATION Spec
INVARIANTS
    TokensMatch
    EmptyExact
    RestIsDone
PROPERTIES
    DestroyClean
CHECK_DEADLOCK FALSE
