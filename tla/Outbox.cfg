SPECIFICATION FairSpec
CONSTANTS
    e1 = e1
    e2 = e2
    w1 = w1
    w2 = w2
    export_geoparquet = export_geoparquet
    match_notifications = match_notifications
    Events = {e1, e2}
    Workers = {w1, w2}
    Handlers = {export_geoparquet, match_notifications}
    HandlersOf <- MCHandlersOf
    MaxRetries = 2
    Backoff <- MCBackoff
    BatchSize = 1
    MaxOverdue = 0
    MaxFaults = 1
    NULL = NULL
INVARIANTS
    TypeOK
    ProcessedMeansHandled
    DispatchedAlone
    RepeatsAccounted
PROPERTIES
    CompletedIsSkipped
    EveryEventSettles
