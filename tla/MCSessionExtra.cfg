CONSTANTS
    Sql = {q1}
    NoSql = NoSql
    MaxPrepared = 1
    MaxIds = 2
    JunkPackets = 2
    Apis <- AllApis
    Extras = {"extra_results"}
SPECIFICATION Spec
INVARIANT
    Synchronised
