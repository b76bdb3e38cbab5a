SPECIFICATION FairSpec
CONSTANTS
    s = s
    t = t
    d1 = d1
    d2 = d2
    d3 = d3
    Subscriptions = {s, t}
    Deliveries = {d1, d3}
    SubscriptionOf <- MCSubscriptionOfTwo
    MinInterval = 1
    PauseAfter = 1
    Ceiling = 1
    Backoff <- MCBackoff
    Limit = 1
    MaxFaults = 1
    MaxOrders = 1
    NULL = NULL
PROPERTIES
    PendingSettles
