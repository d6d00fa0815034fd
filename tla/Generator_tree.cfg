SPECIFICATION FairSpec
CONSTANTS
    w1 = w1  w2 = w2
    Depth = 2
    Width = 2
    FilesPerDir = 1
    Worker = {w1, w2}
    KeyCap = 1
    RecordCap = 1
    Size = {3}
    PartSize = {2}
    PatternLengths = {0, 4, 5}
    MaxErrors = 1
    DiskMayFail = TRUE
INVARIANTS TypeOK EveryKeyAccounted Md5Complete UploadsSettled
PROPERTIES RunEnds
