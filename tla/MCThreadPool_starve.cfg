CONSTANTS
    j1 = j1
    j2 = j2
    j3 = j3
    j4 = j4
    t1 = t1
    t2 = t2
    t3 = t3
    None = None
    Jobs = {j1, j2}
    Threads = {t1, t2, t3}
    MaxThreads = 2
    MinThreads = 1
    Commands = {}
    MaxCommands = 2
    Faults = {}
SPECIFICATION FairSpec


PROPERTIES QueuedJobRuns
CHECK_DEADLOCK FALSE
