\* Two reads of one document that the server may change once, two failures.
CONSTANTS
    Docs = {"users"}
    Reads = {r1, r2}
    MaxVersion = 1
    MaxFaults = 2
SPECIFICATION FairSpec
INVARIANTS NoHardAssertFails CalledAtMostOnce AnswersAreFresh AnswersAreDue
PROPERTIES ReadsAreAnswered
CHECK_DEADLOCK FALSE
