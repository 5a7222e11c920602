\* The owner and two more users.  Every thread may end: no deadlock check.
CONSTANTS
    t1 = t1
    t2 = t2
    t3 = t3
    c1 = c1
    Threads = {t1, t2, t3}
    Owner = t1
    Channels = {c1}
    MaxTasks = 3
    EventfdMax = 2
SPECIFICATION FairSpecThread
INVARIANTS
    StartedLoopIsAlive
PROPERTIES
    StartReturns
    DestructorReturns
    UsedLoopRuns
CHECK_DEADLOCK FALSE
