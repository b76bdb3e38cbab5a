SPECIFICATION Spec
CONSTANTS
    s = s
    t = t
    d1 = d1
    d2 = d2
    d3 = d3
    Subscriptions = {s, t}
    Deliveries = {d1, d3}
    SubscriptionOf <- MCSubscriptionOfTwo
    MinInterval = 1
    PauseAfter = 1
    Ceiling = 1
    Backoff <- MCBackoff
    Limit = 2
    MaxFaults = 0
    MaxOrders = 2
    NULL = NULL
PROPERTIES
    ResumeFindsNothingPending
