CONSTANTS
    c1 = c1
    c2 = c2
    o1 = o1
    o2 = o2
    o3 = o3
    Clients = {c1}
    SyncClients = {c1}
    Ops = {o1, o2}
    FirstFit = FALSE
    End = End
    Timeout = Timeout
    None = None
    IdSpace = 3
    StartIds = {0}
    MaxSends = 1
    MaxRequests = 0
    Connectivity = {FALSE}
SPECIFICATION Spec
INVARIANT RefAsserted
CHECK_DEADLOCK FALSE
