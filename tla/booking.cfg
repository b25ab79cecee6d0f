SPECIFICATION FairSpec
CONSTANTS
    u1 = u1
    u2 = u2
    p1 = p1
    p2 = p2
    Ids = {b1, b2}
    Users <- MCUsers
    Points <- MCPoints
    Asks <- MCAsks
    Windows <- MCWindows
    Reqs = {r1, r2}
    Nobody = Nobody
INVARIANTS
    NoDoubleBooking
    OneActivePerUser
    CanceledAtIffCanceled
    EveryChangeAnnounced
    PushesStayTrue
PROPERTIES
    LockProtectsSlot
    LedgerSpec
    RequestsFinish
CHECK_DEADLOCK FALSE
