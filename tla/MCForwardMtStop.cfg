CONSTANTS
    Buf = {b1, b2, b3}
    RingSize = 1
SPECIFICATION FairSpec
PROPERTY Terminates
