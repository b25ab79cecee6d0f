SPECIFICATION FairSpec
CONSTANTS
    u1 = u1
    u2 = u2
    p1 = p1
    b1 = b1
    b2 = b2
    t1 = t1
    t2 = t2
    Ids = {b1, b2}
    Users = {u1, u2}
    Points = {p1}
    Asks <- DueAsks
    Instances = {i1}
    Tokens = {t1, t2}
    NoUser = NoUser
    ReminderLead = 2
    LateDelay = 1
    LateCap = 2
    MaxClock = 4
    MaxFaults = 1
CONSTRAINT QuietWorld
INVARIANTS
    NeverEarly
PROPERTY
    DueStagesGoOut
