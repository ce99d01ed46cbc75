CONSTANTS
    Frame = {f0, f1, f2, f3}
    Zero = f0
    Batch = 1
    Cache = 4
    SpscLen = 4
    FillSize = 2
    TxSize = 2
    CompSize = 2
    RxSize = 4
    RxBatch = 2
    TxBatch = 1
    CompBatch = 2
    MaxTokens = 1
    Sending = FALSE
    Persistent = TRUE
SYMMETRY Symmetry
SPECIFICATION Spec
INVARIANTS FillSubmitted
