SPECIFICATION ListSpec
CONSTANTS
    Edits = {r1, r2}
    MaxRows = 3
    maxPhotosPerBooking = 2
INVARIANTS
    AtMostOneDefault
    OneMarkWhenUndisturbed
    RowsHaveFiles
CHECK_DEADLOCK FALSE
