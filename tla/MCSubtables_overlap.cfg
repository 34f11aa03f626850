SPECIFICATION FairSpec
CONSTANTS
    Clients = {"a", "b"}
    Prefix <- Neighbours
    Prefixes = 2
    Servers = 2
    HashRange = 4
INVARIANTS
    CannotHaveHappened
