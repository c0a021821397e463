CONSTANTS
    Threads = {t1, t2, t3}
    Conns = {c1, c2, c3, c4}
    NoConn = NoConn
    MaxPool = 3
    MinPool = 1
    Configs <- AnyConfig
SPECIFICATION Spec
INVARIANTS TypeOK SteadyPoolIsExclusive ActiveCounted NothingLeaks NoLostWakeup
SYMMETRY PoolSymmetry
CHECK_DEADLOCK FALSE
