CONSTANTS
    Client = {t1, t2, t3, t4}
    Conn = {c1, c2, c3}
    NoConn = NoConn
    ConnectionLimit = 2
    Settings <- SafetySettings
SPECIFICATION Spec
SYMMETRY Symmetry
INVARIANTS
    TypeOK
    Accounting
    SessionsBounded
    OnlyHeldOpenAfterEnd
    QueueBounded
    NoLostWakeup
    NoOrphans
    ResetHygiene
PROPERTY
    LeaseSpec
CHECK_DEADLOCK FALSE
