\* Two ids, three push clients, any step of Init failing.
CONSTANTS
    i1 = i1
    i2 = i2
    Ids = {i1, i2}
    MaxClients = 3
SPECIFICATION FairSpec
INVARIANTS
    SourceOutlivesThread
    NothingLeaks
    NoOfferAfterError
PROPERTIES GivesWayToComplete OnlyHangHoldsHandler
CHECK_DEADLOCK FALSE
