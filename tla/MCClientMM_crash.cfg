SPECIFICATION Spec
CONSTANTS
    c1 = c1
    c2 = c2
    k1 = k1
    k2 = k2
    Clients = {c1, c2}
    First <- FirstOf
    NumMemory = 2
    NumBlocks = 2
    NumSub = 2
    NumTables = 1
    Coros = {k1}
    Hint <- HintOf
    MaxRestart = 1
INVARIANTS
    OneOwner
    LogHoldsPublished
    RecoversLastAndHead
PROPERTIES
    RestartKeepsFree
CHECK_DEADLOCK FALSE
