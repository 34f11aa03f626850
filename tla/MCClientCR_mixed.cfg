SPECIFICATION FairSpec
CONSTANTS
    a = a
    b = b
    c = c
    d = d
    e = e
    Req = {a, b, c, d, e}
    NumIdxRep = 3
    Kind <- MixKind
    Key <- MixKey
    Target <- MixBlock
    InitSlot = 1
    InitKey = "k"
    SyncReq = {b, d}
    CacheReq = {a, d}
    FullReq = {c, e}
    StopReq = {a, b, c}
INVARIANTS
    PipelineInv
    BoundedRetries
    DivergenceIsSeen
PROPERTIES
    ChainOrder
    EveryCRReturns
