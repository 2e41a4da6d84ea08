\* Three writes, one of them refused, two users, three faults.
SPECIFICATION FairSpec
CONSTANTS
    Users = {"uid", ""}
    Writes = {"w1", "w2", "bad"}
    Bad = {"bad"}
    kMaxPendingWrites = 2
    MaxFaults = 3
INVARIANTS NoHardAssertFails AnswersMatchPipeline NoWriteLost
    CompletionsTellTheTruth
PROPERTIES ImplementsPendingWrites WritesSettle
CHECK_DEADLOCK FALSE
