CONSTANTS
    c1 = c1
    c2 = c2
    o1 = o1
    o2 = o2
    o3 = o3
    Clients = {c1, c2}
    SyncClients = {c1}
    Ops = {o1, o2, o3}
    FirstFit = FALSE
    End = End
    Timeout = Timeout
    None = None
    IdSpace = 3
    StartIds = {1}
    MaxSends = 2
    MaxRequests = 0
    Connectivity = {TRUE}
SPECIFICATION Spec
SYMMETRY Symmetry
INVARIANTS
    TypeOK
    LinkedOnce
    RefExact
    AnswersMatch
    CompletedOnce
    WalkOnList
CHECK_DEADLOCK FALSE
