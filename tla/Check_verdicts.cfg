CONSTANTS
    Task <- MCTask
    Checker = {"c1", "c2"}
    ObjCap = 1
    Window = 2
    MarkLength = 2
    Scenario <- Everything
    File <- MCFile
    RootFile <- MCRoot
    Order <- MCOrder
    Line <- MCLine
    OwnerDir <- MCOwnerDir
    Capacity = 1
SPECIFICATION FairSpec
INVARIANTS TypeOK EveryTaskReported VerdictRight FailedMeansFailed FlushCovers CloseCovers ClosedLast
PROPERTIES RunEnds
