CONSTANTS
    Sql = {q1, q2}
    NoSql = NoSql
    MaxPrepared = 1
    MaxIds = 3
    JunkPackets = 2
    Apis <- StatementApis
    Extras = {}
SPECIFICATION Spec
INVARIANT
    NoStaleExecute
