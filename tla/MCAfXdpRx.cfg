CONSTANTS
    Frame = {f0, f1, f2, f3, f4, f5}
    Zero = f0
    Batch = 1
    Cache = 6
    SpscLen = 6
    FillSize = 2
    TxSize = 2
    CompSize = 2
    RxSize = 6
    RxBatch = 2
    TxBatch = 1
    CompBatch = 2
    MaxTokens = 1
    Sending = FALSE
    Persistent = TRUE
SPECIFICATION FairSpec
INVARIANTS OneOwner FillSubmitted
PROPERTIES RxFifo KernelFed
