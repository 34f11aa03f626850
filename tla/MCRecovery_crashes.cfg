SPECIFICATION RFairSpec
CONSTANTS
    a = a
    b = b
    c = c
    replayA = replayA
    replayC = replayC
    Req = {a, b, c, replayA, replayC}
    Backups = {b1, b2}
    b1 = b1
    b2 = b2
    Kind <- MixKind
    Key <- RecKey
    Target <- MixBlocks
    InitSlot = 0
    InitKey = "k"
    SyncReq = {a, c, replayA, replayC}
    CacheReq = {}
    FullReq = {}
    StopReq = {}
    CrashReq = {a, c}
    Replay <- MixReplay
    Block <- MixBlock
    NumReplication = 3
    MaxCrashes = 2
    AtomicRead = TRUE
INVARIANTS
    CommittedSurvives
    OneWinnerUnderRecovery
PROPERTIES
    
    SurvivorsReturn
CHECK_DEADLOCK FALSE
