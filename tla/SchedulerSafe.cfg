SPECIFICATION Spec
CONSTANTS
    t1 = t1
    t2 = t2
    t3 = t3
    s1 = s1
    s2 = s2
    s3 = s3
    Tasks = {t1, t2, t3}
    Idle = idle
    Sems = {s1, s2, s3}
    Mutexes = {s1}
    Downers <- Takers
    Uppers <- Releasers
    IsrSems = {s2}
    TimerSems = {s2}
    SetScheds = {t1}
    Lockers = {t3}
    MaxCount = 2
INVARIANTS
    TypeOK
    RetestOffList
    OneList
    NoListFault
    NoLostWakeup
    MutualExclusion
PROPERTIES
    WakeInOrder
CHECK_DEADLOCK FALSE
