SPECIFICATION Spec
CONSTANTS
    c1 = c1
    c2 = c2
    k1 = k1
    k2 = k2
    Clients = {c1}
    First <- FirstOf
    NumMemory = 2
    NumBlocks = 2
    NumSub = 1
    NumTables = 1
    Coros = {k1, k2}
    Hint <- HintOf
    MaxRestart = 0
INVARIANTS
    OwnInv
CHECK_DEADLOCK FALSE
