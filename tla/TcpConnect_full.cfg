\* A message of two bytes fills a socket of two.
CONSTANTS
    t1 = t1
    loop = loop
    Junk = Junk
    Threads = {t1}
    Loop = loop
    MaxMsgs = 2
    MsgLen <- FullLengths
    BufSize = 3
    SockSize = 2
    MaxIn = 1
SPECIFICATION Spec
INVARIANT WriteSucceeds
CHECK_DEADLOCK FALSE
