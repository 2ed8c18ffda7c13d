CONSTANTS
    Client = {t1, t2, t3}
    Conn = {c1, c2}
    NoConn = NoConn
    ConnectionLimit = 2
    Settings <- LiveSettings
SPECIFICATION FairSpec
PROPERTIES
    TimedAcquireReturns
    EndReleasesWaiters
CHECK_DEADLOCK FALSE
