SPECIFICATION Spec
CONSTANTS
    Codes = {c1, c2, c3}
    Points = {p1, p2}
    Reqs = {r1, r2}
    None = None
SYMMETRY Symmetry
INVARIANTS
    PoolCoherent
    PointHasItsCode
PROPERTY
    DisabledComesBackOnlyByUnassign
CHECK_DEADLOCK FALSE
