SPECIFICATION Spec
CONSTANTS
    u1 = u1
    u2 = u2
    u3 = u3
    p1 = p1
    p2 = p2
    Ids = {b1, b2}
    Users <- MCUsers
    Points <- MCPoints
    Asks <- MCAsks
    Baskets <- MCBaskets
    Prices <- MCPrices
    Day = 2
    Hour = 1
    WeekDays = 2
    MonthDays = 2
    Moments = {1, 2, 7}
    Window = 1
    MaxClock = 2
    MaxScans = 2
CONSTRAINT ScansApart
SYMMETRY Symmetry
INVARIANTS
    BoardLosesNobody
    ReportsAgree
    UtilizationWithinDay
    ScansAddUp
PROPERTIES
    TicketsStable
    OverflowInvisible
CHECK_DEADLOCK FALSE
