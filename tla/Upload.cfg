\* Photos of up to 13 bytes in chunks of four, granules of two, five failures.
SPECIFICATION FairSpec
CONSTANTS
    Lengths = {0, 1, 2, 3, 4, 5, 6, 7, 8, 9, 10, 11, 12, 13}
    BufferSize = 5
    Granularity = 2
    Slack = 2
    MaxFaults = 5
INVARIANTS StoredIsPrefix SuccessMeansStored
PROPERTIES UploadEnds
CHECK_DEADLOCK FALSE
