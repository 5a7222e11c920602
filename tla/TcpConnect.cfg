\* The first message goes out in part and its rest is buffered; the second is
\* then written, appended as it is, after moving the rest to the front of the
\* buffer, or after the buffer has grown.
CONSTANTS
    t1 = t1
    loop = loop
    Junk = Junk
    Threads = {t1}
    Loop = loop
    MaxMsgs = 2
    MsgLen <- Lengths
    BufSize = 3
    SockSize = 2
    MaxIn = 1
SPECIFICATION FairSpec
INVARIANTS
    TypeOK
    StreamIntact
    OutputIsWatched
PROPERTIES
    OutputArrives
    ShutdownCloses
CHECK_DEADLOCK FALSE
