\* One sender, and two pages that type in one id or two.
CONSTANTS
    Senders = {s1}
    Receivers = {r1, r2}
    Ids = {i1, i2}
    NoId = NoId
    None = None
    MaxClients = 2
    MaxIce = 1
SPECIFICATION FairSpec
INVARIANTS OwnOfferAnswered NoCandidateBeforeAnswer
PROPERTIES ServerUsedAsAssumed 
CHECK_DEADLOCK FALSE
