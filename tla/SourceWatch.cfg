SPECIFICATION Spec
CONSTANTS
    NULL = NULL
    Watched <- MCWatched
    Interval <- MCInterval
    StalenessFactor = 1
    MaxFailures = 2
    ReminderAfter = 2
INVARIANTS
    TypeOK
PROPERTIES
    OutageIsReported
    OnlyNewsIsSent
