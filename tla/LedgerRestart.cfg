\* One photo and one mail over two launches and a lost connection.
SPECIFICATION FairSpec
CONSTANTS
    Photos = {p1}
    Challenges = {c1, c2}
    WithId = {c1}
    MaxAward = 1
    kMaxPendingWrites = 2
    MaxLaunches = 2
    MaxMails = 1
    MaxPresses = 0
    MaxLosses = 1
CHECK_DEADLOCK FALSE
INVARIANTS TypeOK MailWithinBalance SnapsWithinAccepted
PROPERTY PhotosSettle
