SPECIFICATION Spec
CONSTANTS
    Users = {u1}
    Tokens = {t1, t2, t3}
    Reqs = {r1, r2}
    NoToken = NoToken
    NoEntry = NoEntry
    MaxFailures = 2
    LockDuration = 2
    MaxEntries = 0
    MaxClock = 3
    MaxFails = 3
SYMMETRY Symmetry
INVARIANTS
    OneTokenPerLogin
    LockedIffEarned
PROPERTY
    LoginsSpec
CHECK_DEADLOCK FALSE
