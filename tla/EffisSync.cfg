SPECIFICATION FairSpec
CONSTANTS
    f = f
    g = g
    h = h
    v1 = v1
    v2 = v2
    Ids = {f, g, h}
    Contents = {v1, v2}
    NULL = NULL
    Lasting = {f, g}
    Catalogues <- MCCatalogues
    MaxTime = 2
    MaxFaults = 1
INVARIANTS
    TypeOK
    OpenIsServed
    EveryChangeAnnounced
PROPERTIES
    NoChangePollIsNoOp
    LayerIsTracked
