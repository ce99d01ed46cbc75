CONSTANTS
    Buf = {b1, b2, b3, b4, b5, b6}
    Batch = 1
    Cache = 3
    SpscLen = 2
    Slots = 2
    FirstRx = 1
    LastRx = 2
    MaxTokens = 2
SPECIFICATION FairSpec
INVARIANT OneOwner
PROPERTIES PoolSpec DropOnlyWhenExhausted NoRingStarves
