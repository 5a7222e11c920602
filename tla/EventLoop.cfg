\* Three callers, four functors: a batch, the next batch and a late functor.
\* No symmetry: liveness is checked.
CONSTANTS
    t1 = t1
    t2 = t2
    t3 = t3
    c1 = c1
    c2 = c2
    Threads = {t1, t2, t3}
    Channels = {c1, c2}
    MaxTasks = 4
    EventfdMax = 2
SPECIFICATION FairSpec
INVARIANTS
    TypeOK
    NoLostWakeup
PROPERTIES
    RefinesTaskQueue
    TaskRuns
CHECK_DEADLOCK TRUE
