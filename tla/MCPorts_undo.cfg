\* A workflow of three ports, two of them undoable, and one incident.
CONSTANTS
    LastPort = 3
    maxRetry <- retryFirst
    Undoable = {1, 3}
    MaxIncidents = 1
SPECIFICATION WorkflowSpec
INVARIANTS CompleteMeansUndone
CHECK_DEADLOCK FALSE
