CONSTANTS
    Sock = {s1, s2, s3}
    Clone = {c1, c2}
    Name = {n1, n2}
    Buf = {b1}
    None = None
SYMMETRY Symmetry
SPECIFICATION Spec
CHECK_DEADLOCK FALSE
INVARIANTS OneOwner TokenOfPool PortExclusive PayloadAlive
