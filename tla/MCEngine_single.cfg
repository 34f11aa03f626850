SPECIFICATION HSpec
CONSTANTS
    Main = t0
    Threads = {t0}
    Early = {}
    Names = {"x", "y"}
    Calls <- AnyCall
    GroupSize = 8
    MaxId = 5
    Wrap = 4
    MaxFail = 1
INVARIANTS
    TreeOK
    
