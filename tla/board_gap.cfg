SPECIFICATION StreamSpec
CONSTANTS
    Boards = {b1}
    Trackers = {t1}
    Writers = {w1, w2}
    MaxCommits = 2
    MaxFlips = 1
INVARIANT
    NoMissedChange
