SPECIFICATION LiveSpec
CONSTANTS
    t1 = t1
    t2 = t2
    t3 = t3
    s1 = s1
    s2 = s2
    Tasks = {t1, t2, t3}
    Idle = idle
    Sems = {s1, s2}
    Mutexes = {}
    Downers <- Consumers
    Uppers <- Producers
    IsrSems = {}
    TimerSems = {}
    SetScheds = {}
    Lockers = {}
    MaxCount = 1

PROPERTIES
    RunnableRuns
    UnitsConsumed
