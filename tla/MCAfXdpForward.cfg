CONSTANTS
    Frame = {f0, f1, f2, f3, f4}
    Zero = f0
    Batch = 2
    Cache = 5
    SpscLen = 5
    FillSize = 1
    TxSize = 2
    CompSize = 2
    RxSize = 2
    RxBatch = 2
    TxBatch = 2
    CompBatch = 2
    MaxTokens = 1
    Sending = TRUE
    Persistent = FALSE
SYMMETRY Symmetry
SPECIFICATION Spec
CHECK_DEADLOCK FALSE
INVARIANTS TxAccounting ExclusiveUntilStarved
PROPERTIES LossPerFlush PoolSpec
