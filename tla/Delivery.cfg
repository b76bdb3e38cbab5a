SPECIFICATION Spec
CONSTANTS
    s = s
    t = t
    d1 = d1
    d2 = d2
    d3 = d3
    Subscriptions = {s, t}
    Deliveries = {d1, d2, d3}
    SubscriptionOf <- MCSubscriptionOf
    MinInterval = 1
    PauseAfter = 2
    Ceiling = 1
    Backoff <- MCBackoff
    Limit = 2
    MaxFaults = 1
    MaxOrders = 1
    NULL = NULL
SYMMETRY MCSymmetry
INVARIANTS
    TypeOK
    SentWasReceived
    RepeatsAccounted
PROPERTIES
    MessagesApart
    PausedAfterSilence
