\* Two nodes, one of which may start three times, that publish twice and meet
\* two incidents; or three threads on two hosts and two events they fire, one
\* of them is stopped; or two operations on a pool of one client, and a stream
\* of five records that are stored by twos; or three handlers of one event, one
\* of them for once and one a singleton; or two requests of any kind and two
\* exceptions that nobody catches; or three calls through one circuit.
SPECIFICATION MCSpec
CONSTANTS
    n1 = n1
    n2 = n2
    Nodes = {n1, n2}
    CLIENT_MAX_ERRORS = 1
    MaxLives <- threeLives
    MaxMsgs = 2
    MaxIncidents = 2
    o1 = o1
    o2 = o2
    r2 = r2
    Threads = {o1, o2, r2}
    onHost <- twoHosts
    Owners = {o1, o2}
    MaxFired = 2
    MaxRenewals = 1
    p1 = p1
    p2 = p2
    Callers = {p1, p2}
    numConns = 1
    HIGHWATERMARK = 2
    idOf <- records
    MaxClients = 4
    MaxCloses = 2
    h1 = h1
    h2 = h2
    h3 = h3
    e1 = e1
    Handlers = {h1, h2, h3}
    Events = {e1}
    eventOf <- allOfOne
    Once = {h1}
    Singletons = {h3}
    MaxNotifies = 2
    MaxDrops = 1
    q1 = q1
    q2 = q2
    Clients = {q1, q2}
    MaxUncaught = 2
    c1 = c1
    c2 = c2
    c3 = c3
    slow = slow
    fatal = fatal
    None = None
    Undefined = Undefined
    Calls = {c1, c2, c3}
    Errors = {slow, fatal}
    Interval <- MCInterval
    CallVolume <- MCCallVolume
    ErrorRate <- MCErrorRate
    RetryDelay = 0
    MaxLag = 1
    Horizon = 3
    MaxEvents = 1
INVARIANTS
    OnlyOverlappedUnlisted
    InOrder
    HeardOnceInOrder
    DeadLinkNoticed
    PoolBounded
    StreamStored
    RemovedStaysSilent
    EachCutCostsOne
    AnsweredTruly
    BreakerTypeOK
    HalfOpenIsTested
PROPERTIES OpensOnEvidence KeepsPromise
CHECK_DEADLOCK FALSE
