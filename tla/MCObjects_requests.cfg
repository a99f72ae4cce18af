\* Four requests on one object, two at a time, and one restart; an object that
\* two threads hold, three of whose core names callers use too;
\* three models in two domains, registered in any order, and two threads.
CONSTANTS
    c1 = c1
    c2 = c2
    e1 = e1
    e2 = e2
    d1 = d1
    f1 = f1
    l1 = l1
    Creates = {c1, c2}
    Edits = {e1, e2}
    Removes = {d1}
    Finds = {f1}
    Loads = {l1}
    Missing = Missing
    Failing = {"save", "find", "delete"}
    RunOffline = TRUE
    MaxOverlap = 2
    MaxCrashes = 1
    MaxRequests = 4
    Holders = {"main", "worker"}
    t1 = t1
    t2 = t2
    Models = {"A", "B", "C"}
    domainOf <- domains
    relatedTo <- relations
    ThreadIds = {t1, t2}
    Cores = 2
    MaxReloads = 1
    UserKeys = {"id", "updateTime", "validate"}
    LastPort = 3
    maxRetry <- retryFirst
    Undoable = {1, 3}
    MaxIncidents = 2
SPECIFICATION MCSpec
SYMMETRY Symmetry
INVARIANTS
    SoloUpdatesKept
    OneCreation
    StoreCatchesUp
    AcknowledgedIsStored
    RemovedForGood
    CoreProtected
    PoolsShareMaps
    PortsTypeOK
    FlowInOrder
    NothingSkipped
    StormBounded
PROPERTIES
    RunsAsSaga
    OwnRunBackedOut
CHECK_DEADLOCK FALSE
