\* Any ids: the late offer of the first session.
CONSTANTS
    Senders = {s1}
    Receivers = {r1, r2}
    Ids = {i1}
    NoId = NoId
    None = None
    MaxClients = 2
    MaxIce = 1
SPECIFICATION Spec
INVARIANTS AnswerMatchesOffer
CHECK_DEADLOCK FALSE
