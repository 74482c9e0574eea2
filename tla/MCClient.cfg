SPECIFICATION ClientSpec
CONSTANTS
    Configs <- MCConfigs
    Week = 1
    MaxTime = 2
    DELETE_AFTER = 2
    MaxRuns = 2
    MaxOps = 3
INVARIANTS
    FetchReturnsClean
    StopLeavesNothing
    RecordsDoNotMix
PROPERTIES
    FetchEnds
    StoredAreSent
CHECK_DEADLOCK FALSE
