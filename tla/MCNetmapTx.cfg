CONSTANTS
    NTx = 3
    FirstTx = 0
    LastTx = 1
    TxSlots = 3
    BufSize = 1
    PacketLen = {1, 2}
SPECIFICATION TxFairSpec
INVARIANT SlotsHandedOver
PROPERTIES StrayOnlyAfterNone SendsGoOn
