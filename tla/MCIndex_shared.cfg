SPECIFICATION FairSpec
CONSTANTS
    Clients = {"c1", "c2"}
    Keys <- TwoKeys
    HashRange = 4
    Prefixes = 2
    HashOf <- Places
    Assoc = 1
    Requests <- MoveAndSearch
    Replicated = FALSE
    Occupied <- Sometimes
INVARIANTS
    PlaceInv
    ReportedInsertStays
    OneSlotPerKey
PROPERTIES
    SearchAnswersOneMoment
    GivesUpOnlyWhenFull
    RequestsEnd
