CONSTANTS
    t1 = t1
    t2 = t2
    w1 = w1
    w2 = w2
    w3 = w3
    w4 = w4
    Wds = {w1, w2, w3, w4}
    Tasks = {t1, t2}
    Owned <- OwnerSleeper
    Sleepers = {t2}
    Periodic = {w2}
    Started = {w3}
    Cancelled = {w1}
    Head_ = Head_
    Delays = {1, 2}
    Requests <- ShortRequests
    HZ = 1
    TICK_IN_NSEC = 3
    IntHalf = 12
    MaxTick = 3
SPECIFICATION Spec
INVARIANTS
    ListSound
    Sorted
PROPERTIES
    TickFiresAll
    SleepsEnough
CHECK_DEADLOCK FALSE
