SPECIFICATION Spec
CONSTANTS
    Photos = {p1, p2}
    Challenges = {c1}
    WithId = {c1}
    MaxAward = 1
    kMaxPendingWrites = 1
    MaxLaunches = 1
    MaxMails = 0
    MaxPresses = 0
    MaxLosses = 0
SYMMETRY PhotoSymmetry
CHECK_DEADLOCK FALSE
INVARIANT FirstEntryCounted
