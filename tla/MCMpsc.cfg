CONSTANTS
    Thread = {t1, t2, t3}
    Handle = {h1, h2}
    Elem = {e1, e2, e3, e4}
    Batch = 2
    Cache = 3
    SpscLen = 1
    MaxRings = 2
    NoThread = NoThread
    NoElem = NoElem
SYMMETRY Symmetry
SPECIFICATION Spec
INVARIANTS
    TypeOK
    CacheBound
    RegistryMatches
    AbortOnlyWhenFull
    Exclusive
    TeardownAlone
PROPERTIES
    LossOnlyWhenDrained
    PoolSpec
