CONSTANTS
    Sql = {q1}
    NoSql = NoSql
    MaxPrepared = 1
    MaxIds = 2
    JunkPackets = 2
    Apis <- StatementApis
    Extras = {}
SPECIFICATION Spec
INVARIANT
    ReadsTheGreeting
