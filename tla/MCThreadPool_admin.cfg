CONSTANTS
    j1 = j1
    j2 = j2
    j3 = j3
    j4 = j4
    t1 = t1
    t2 = t2
    t3 = t3
    None = None
    Jobs = {j1, j2}
    Threads = {t1, t2, t3}
    MaxThreads = 1
    MinThreads = 1
    Commands = {"reload", "destroy", "monitor", "rejection"}
    MaxCommands = 2
    Faults = {"exit", "spawn"}
SPECIFICATION Spec
SYMMETRY Symmetry
INVARIANTS PoolTypeOK ThreadExclusive JobInOnePlace
PROPERTIES LendsAsPromised
CHECK_DEADLOCK FALSE
