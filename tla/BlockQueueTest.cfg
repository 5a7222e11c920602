\* More threads than places on each side, and more elements than places.
\* No symmetry: liveness is checked.
CONSTANTS
    p1 = p1
    p2 = p2
    p3 = p3
    c1 = c1
    c2 = c2
    c3 = c3
    Producers = {p1, p2, p3}
    Consumers = {c1, c2, c3}
    Main = p1
    maxSize_ = 2
    Pushes = 2
SPECIFICATION FairSpec
INVARIANTS
    TypeOK
    NoLostWakeup
PROPERTIES
    RefinesFIFO
    JoinReturns
