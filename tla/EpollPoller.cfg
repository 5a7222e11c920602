\* Four channels, and room for two in the first epoll_wait.
CONSTANTS
    c1 = c1
    c2 = c2
    c3 = c3
    c4 = c4
    Channels = {c1, c2, c3, c4}
    InitSize = 2
SPECIFICATION Spec
SYMMETRY Symmetry
INVARIANTS
    TypeOK
    KernelAgrees
    NoCtlFails
    BatchIsRegistered
