SPECIFICATION Spec
CONSTANTS
    Tasks = {t1, t2}
    Conns = {c1}
    NoConn = NoConn
    MaxSize = 1
    IdleTimeout = 0
    Tls = FALSE
    MaxCalls = 1
    MaxBatch = 1
    SocketRoom = 3
    ReadTimeout = TRUE
    Faults = {}
SYMMETRY Symmetry
INVARIANT AnswersMatch
