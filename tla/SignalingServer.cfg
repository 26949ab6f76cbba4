\* The server with the clients of this repository: 2 senders, 2 pages, 2 ids.
CONSTANTS
    s1 = s1
    s2 = s2
    r1 = r1
    r2 = r2
    i1 = i1
    i2 = i2
    Senders = {s1, s2}
    Receivers = {r1, r2}
    Ids = {i1, i2}
    NoId = NoId
    None = None
SPECIFICATION FairSpec
INVARIANTS IndexAgrees RoutedWithinSession
PROPERTIES StaleSessionCleared ImplementsBroker
CHECK_DEADLOCK FALSE
