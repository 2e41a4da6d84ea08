\* One photo, two launches, and a sign-in answer that comes late.
SPECIFICATION Spec
CONSTANTS
    Photos = {p1}
    Challenges = {c1}
    WithId = {c1}
    MaxAward = 1
    kMaxPendingWrites = 1
    MaxLaunches = 2
    MaxMails = 0
    MaxPresses = 1
    MaxLosses = 0
CHECK_DEADLOCK FALSE
INVARIANTS ChallengesWithinSnaps MoneyWithinSnaps  
PROPERTY ImplementsRewardAccount
