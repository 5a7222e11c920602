\* Three connections use up what the spare descriptor leaves, the next client
\* meets EMFILE; a file takes the place of a connection or of the spare.
CONSTANTS
    Nums <- Threads
    MaxClients = 5
    MaxFds = 4
SPECIFICATION FairSpec
INVARIANTS
    DescriptorsOwned
    ConnectionsInTurn
PROPERTIES
    ClientsServed
\* A server without a loop for its connections is gone.
CHECK_DEADLOCK FALSE
