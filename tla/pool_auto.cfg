CONSTANTS
    Threads = {t1, t2}
    Conns = {c1, c2, c3, c4}
    NoConn = NoConn
    MaxPool = 3
    MinPool = 1
    Configs <- DefaultConfig
SPECIFICATION Spec
INVARIANT ConnectionsExclusive
CHECK_DEADLOCK FALSE
