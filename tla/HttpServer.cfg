\* Requests of 5 to 11 symbols, for a buffer of 9: one may be cut anywhere,
\* come with a part of the next, or fill the vector to its end.
CONSTANTS
    Junk = Junk
    Conversations <- Talks
    InputSize = 9
SPECIFICATION HttpFairSpec
INVARIANTS
    InputIntact
    AnsweredAsSent
PROPERTIES
    RequestAnswered
\* A client may send no more.
CHECK_DEADLOCK FALSE
