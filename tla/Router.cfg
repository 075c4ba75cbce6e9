SPECIFICATION FairSpec
CONSTANTS
    Tasks = {t1, t2}
    Conns = {c1}
    NoConn = NoConn
    MaxSize = 1
    IdleTimeout = 0
    Tls = FALSE
    MaxCalls = 1
    MaxBatch = 3
    SocketRoom = 2
    ReadTimeout = TRUE
    Faults = {"close", "oversize"}
INVARIANTS
    AlignedUnlessTimedOut
    StreamsAligned
PROPERTY ReturnsUnlessBlocked
