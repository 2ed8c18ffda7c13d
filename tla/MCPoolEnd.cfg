CONSTANTS
    Client = {t1, t2, t3}
    Conn = {c1, c2}
    NoConn = NoConn
    ConnectionLimit = 2
    Settings <- PlainSettings
SPECIFICATION Spec
PROPERTY EndSparesCheckedOut
CHECK_DEADLOCK FALSE
