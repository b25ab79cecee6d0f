SPECIFICATION Spec
CONSTANTS
    Applications = {a1}
    Points = {p1, p2}
    Phones = {f1}
    Reqs = {r1, r2}
    None = None
    BoxesCount = 2
    MaxLogins = 2
SYMMETRY Symmetry
INVARIANTS
    ApprovedMeansReady
    OncePerApplication
    ActiveMeansActivated
CHECK_DEADLOCK FALSE
