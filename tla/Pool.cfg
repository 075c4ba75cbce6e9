SPECIFICATION PoolFairSpec
CONSTANTS
    Tasks = {t1, t2, t3}
    Conns = {c1, c2, c3}
    NoConn = NoConn
    MaxSize = 2
    IdleTimeout = 1
    Tls = FALSE
INVARIANTS
    PermitConservation
    PoolBound
    ExclusiveOwnership
    NoLostWakeup
PROPERTIES
    LeaseContract
    GetEnds
