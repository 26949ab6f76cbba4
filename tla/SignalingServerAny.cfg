\* The server with clients of any make: each may offer itself and request again.
CONSTANTS
    s1 = s1
    s2 = s2
    r1 = r1
    r2 = r2
    i1 = i1
    i2 = i2
    Senders = {s1, s2}
    Receivers = {r1, r2}
    Ids = {i1, i2}
    NoId = NoId
    None = None
SPECIFICATION AnySpec
SYMMETRY Symmetry
INVARIANTS NoDanglingKeys IndexSound
PROPERTIES SurvivorTold OnlyOwnDisconnectEnds
CHECK_DEADLOCK FALSE
