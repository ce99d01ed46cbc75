CONSTANTS
    Sock = {s1, s2, s3, s4}
    Queue = {q1, q2}
    UmemFd = UmemFd
    None = None
    MaxLost = 1
    MaxSkips = 1
SYMMETRY Symmetry
SPECIFICATION Spec
CHECK_DEADLOCK FALSE
INVARIANTS RefsExact FdsExact MapsExact
