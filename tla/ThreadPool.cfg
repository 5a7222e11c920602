\* Two clients and three workers.  The system ends with the destructor.
\* No symmetry: liveness is checked.
CONSTANTS
    d1 = d1
    d2 = d2
    w1 = w1
    w2 = w2
    w3 = w3
    Clients = {d1, d2}
    Workers = {w1, w2, w3}
    MaxTasks = 3
SPECIFICATION FairSpec
INVARIANTS
    TasksConserved
    NoLostWakeup
PROPERTIES
    TasksRun
    DestructorReturns
CHECK_DEADLOCK FALSE
