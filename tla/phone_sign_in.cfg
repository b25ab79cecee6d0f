SPECIFICATION Spec
CONSTANTS
    Reqs = {r1, r2}
    Limited = {"verify"}
    Limit = 2
    Window = 2
    OTPCooldown = 1
    OTPTTL = 0
    OTPMaxAttempts = 2
    MaxLag = 1
    MaxCodes = 2
    MaxClock = 3
SYMMETRY Symmetry
INVARIANTS
    CodesAccountedFor
    LimitRespected
