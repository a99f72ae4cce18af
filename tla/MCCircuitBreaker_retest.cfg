CONSTANTS
    c1 = c1
    c2 = c2
    c3 = c3
    slow = slow
    fatal = fatal
    None = None
    Undefined = Undefined
    Calls = {c1, c2, c3}
    Errors = {slow, fatal}
    Interval <- MCInterval
    CallVolume <- MCCallVolume
    ErrorRate <- MCErrorRate
    RetryDelay = 1
    MaxLag = 1
    Horizon = 4
    MaxEvents = 0
SPECIFICATION Spec
SYMMETRY Symmetry
PROPERTIES RetestsAfterDelay
CHECK_DEADLOCK FALSE
