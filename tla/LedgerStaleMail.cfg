SPECIFICATION Spec
CONSTANTS
    Photos = {p1}
    Challenges = {c1}
    WithId = {c1}
    MaxAward = 1
    kMaxPendingWrites = 1
    MaxLaunches = 1
    MaxMails = 1
    MaxPresses = 0
    MaxLosses = 0

CHECK_DEADLOCK FALSE
INVARIANT MailAsksTotalEarned
