CONSTANTS
    Client = {t1, t2, t3}
    Conn = {c1}
    NoConn = NoConn
    ConnectionLimit = 1
    Settings <- ResetSettings
SPECIFICATION FairSpec
PROPERTY CapacityReachesWaiter
CHECK_DEADLOCK FALSE
