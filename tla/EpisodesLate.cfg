SPECIFICATION Spec
CONSTANTS
    a = a
    b = b
    f = f
    w = w
    storm = storm
    fire = fire
    quake = quake
    Ids = {a, b, f, w}
    SourceOf <- MCSourceOf
    Key <- MCKey
    Batches <- MCWithdrawal
    Severities = {1, 2, 3}
    Grace = 1
    QuakeMaxAge = 1
    Processes = {p, q}
    p = p
    q = q
    MaxTime = 2
    CLOSED = CLOSED
    NULL = NULL
PROPERTIES
    LateRetryIsHarmless
