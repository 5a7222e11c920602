\* Two writers; buffers of two and lines of one or two, so that a full buffer
\* may have room left; one buffer more than at first; a drop that is forgotten
\* and one that is not.
CONSTANTS
    w1 = w1
    w2 = w2
    Writers = {w1, w2}
    NumBufs = 2
    MaxBufs = 3
    Capacity = 2
    Lengths = {1, 2}
    MaxLines = 4
    Threshold = 1
    MaxSec = 2
SPECIFICATION FairSpec

    
PROPERTY LineIsWritten
CHECK_DEADLOCK FALSE
