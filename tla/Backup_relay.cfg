SPECIFICATION Spec
CONSTANTS
    k1 = k1  k2 = k2
    Key = {k1, k2}
    Versions <- Rewritten
    File <- TwiceLines
    ChCap = 1
    NumNodes = 2
    NumWorkers = 2
    Threshold = 2
    Recovery = TRUE
    MaxOutages = 1
    MaxFaults = 20
    MaxSignals = 0
    MaxChanges = 1
    MaxRefusals = 0
INVARIANTS TypeOK OkMeansFaithful UploadsAborted
           OneNodeDoesNotMatter ThresholdIsolates
