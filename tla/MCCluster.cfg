CONSTANTS
    Caller = {t1, t2}
    Id = {n1, n2}
    FirstId = n1
    PoolObj = {p1, p2}
    NoId = NoId
    NoPool = NoPool
    Patterns <- AllAndFirst
    Settings <- MixedSettings
    MaxErrors = 2
SPECIFICATION FairSpec
INVARIANTS
    TypeOK
    PoolsAccounted
PROPERTIES
    EndEndsPools
    RetryEnds
