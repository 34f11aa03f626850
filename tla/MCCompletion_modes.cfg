SPECIFICATION FairSpec
CONSTANTS
    Fibers = {"f1", "f2"}
    Servers = {"s1", "s2"}
    Loads <- AllModes
INVARIANTS
    NoCompletionLost
PROPERTIES
    ReturnsAfterOwnWork
    CallsReturn
CHECK_DEADLOCK FALSE
