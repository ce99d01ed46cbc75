CONSTANTS
    NumMbufs = 10
    RxRing = 2
    TxRing = 2
    Burst = 3
    Batch = 2
    Cache = 4
    SpscLen = 10
    MaxTokens = 2
SPECIFICATION FairSpec
CHECK_DEADLOCK FALSE
INVARIANTS Conserved TxRoom NullsLast
PROPERTY ReceivesGoOn
