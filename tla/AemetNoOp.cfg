SPECIFICATION Spec
CONSTANTS
    x = x
    y = y
    c = c
    v1 = v1
    v2 = v2
    Ids = {x, y, c}
    Contents = {v1, v2}
    NULL = NULL
    Bulletins <- MCBulletins
    MaxTime = 4
    MaxFailures = 1
PROPERTIES
    NoChangePollIsNoOp
