CONSTANTS
    Buf = {b1, b2, b3, b4}
    RingSize = 2
SPECIFICATION FairSpec
INVARIANT Partitioned
PROPERTIES InOrder Forwarded
