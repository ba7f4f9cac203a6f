CONSTANTS
    Conns = {c1, c2, c3, c4}
    NoConn = NoConn
    ConnWorkers = {w1, w2}
    MaxConnections = 2
    ConnectionBacklog = 1
SPECIFICATION FairSpec
CHECK_DEADLOCK FALSE
INVARIANT SlotAccounting
INVARIANT OneHandler
INVARIANT CleanStop
PROPERTY ConnsAreClosed
PROPERTY StopCompletes
