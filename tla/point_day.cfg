SPECIFICATION Spec
CONSTANTS
    AvailabilitySlotStep = 2
    Inputs <- MCInputs
    Durations = {1, 2}
    Horizon = 3
    MaxBoxes = 2
    MaxBookings = 2
    r1 = r1
    r2 = r2
    Reqs <- MCReqs
SYMMETRY Symmetry
INVARIANTS
    OfferedIffBookable
    BoxesDisjoint
    WindowsAreOpenHours
    SweepCountsBusyBoxes
