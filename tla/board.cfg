SPECIFICATION FairSpec
CONSTANTS
    Boards = {b1}
    Trackers = {t1}
    Writers = {w1, w2}
    MaxCommits = 1
    MaxFlips = 1
INVARIANTS
    NoLostWakeup
PROPERTIES
    ChangesReachStreams
    TrackersEnd
