\* Another thread and the loop's own, two timers, and time for a repeating
\* timer to run twice.  Nothing is left to do at the bound on the clock.
CONSTANTS
    t1 = t1
    t2 = t2
    loop = loop
    Threads = {t1}
    Loop = loop
    MaxNodes = 2
    MaxNow = 3
    Delays = {0, 2}
    Intervals = {0, 1}
SPECIFICATION FairSpec
INVARIANTS
    TypeOK
    ListsAgree
    TimersConserved
    ArmedInTime
    CancelledIsOut
PROPERTIES
    RunsWhenDue
    DueTimerRuns
CHECK_DEADLOCK FALSE
