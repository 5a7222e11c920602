CONSTANTS
    t1 = t1
    t2 = t2
    loop = loop
    Threads = {t1,t2}
    Loop = loop
    MaxNodes = 2
    MaxNow = 3
    Delays = {0, 1}
    Intervals = {0, 1}
SPECIFICATION Spec
INVARIANT TimeIdCancels
CHECK_DEADLOCK FALSE
