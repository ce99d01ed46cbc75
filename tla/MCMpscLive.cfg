CONSTANTS
    Thread = {t1, t2}
    Handle = {h1, h2}
    Elem = {e1, e2}
    Batch = 1
    Cache = 1
    SpscLen = 1
    MaxRings = 2
    NoThread = NoThread
    NoElem = NoElem
SPECIFICATION FairSpec
PROPERTIES
    CallReturns
    GroupLeavesRing
