\* The sender and the end of a session.
CONSTANTS
    Senders = {s1}
    Receivers = {r1, r2}
    Ids = {i1, i2}
    NoId = NoId
    None = None
    MaxClients = 2
    MaxIce = 1
SPECIFICATION Spec
INVARIANTS ClientEndsWithSession
CHECK_DEADLOCK FALSE
