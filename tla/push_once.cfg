SPECIFICATION Spec
CONSTANTS
    u1 = u1
    u2 = u2
    p1 = p1
    b1 = b1
    b2 = b2
    t1 = t1
    t2 = t2
    Ids = {b1}
    Users = {u1}
    Points = {p1}
    Asks <- SoonAsks
    Instances = {i1, i2}
    Tokens = {t1, t2}
    NoUser = NoUser
    ReminderLead = 1
    LateDelay = 1
    LateCap = 2
    MaxClock = 0
    MaxFaults = 1
SYMMETRY Symmetry
CONSTRAINT OneStage
INVARIANTS
    AtMostOnce
    RecordsAreTrue
PROPERTY
    StagesSpec
