\* Two cores, two reloads and a crash; two nodes that look for a switch, one of
\* them a backup; three events whose code is imported; three hosts, two of them
\* with the service of an object that is written three times; a workflow of
\* two ports, one of them called twice, and two incidents.
SPECIFICATION MCSpec
CONSTANTS
    numCores = 2
    MaxReloads = 2
    MaxTicks = 1
    MaxCrashes = 1
    sw = sw
    n1 = n1
    n2 = n2
    Primary = sw
    Others = {n1, n2}
    Backups = {n2}
    maxRetries = 1
    MaxDeaths = 1
    k1 = k1
    k2 = k2
    k3 = k3
    ImportCalls = {k1, k2, k3}
    HasPorts = TRUE
    InCache = TRUE
    b1 = b1
    b2 = b2
    w2 = w2
    w3 = w3
    w4 = w4
    Workers = {b1, b2, w2, w3, w4}
    hostOf <- hosts
    ofService = {b1, b2}
    MaxWrites = 3
    MaxFinds = 1
    LastPort = 2
    maxRetry <- retryFirst
    Undoable = {1, 2}
    MaxIncidents = 2
INVARIANTS
    RegisteredComplete
    CopiesSettle
PROPERTIES
    RollsAsPromised
    ReloadEnds
    SwitchIsFound
    RelationReturns
    WorkflowEnds
CHECK_DEADLOCK FALSE
