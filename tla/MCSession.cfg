CONSTANTS
    Sql = {q1, q2}
    NoSql = NoSql
    MaxPrepared = 1
    MaxIds = 2
    JunkPackets = 2
    Apis <- AllApis
    Extras = {}
SPECIFICATION FairSpec
INVARIANTS
    TypeOK
    ConnectedHasTransport
    Synchronised
    NeverWaitsInVain
    ExecutesItsStatement
    NoStatementLeak
PROPERTIES
    CallReturns
    CacheSpec

