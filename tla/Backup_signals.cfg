SPECIFICATION FairSpec
CONSTANTS
    k1 = k1  k2 = k2
    Key = {k1, k2}
    Versions <- Plain
    File <- MixedLines
    ChCap = 1
    NumNodes = 1
    NumWorkers = 2
    Threshold = 2
    Recovery = TRUE
    MaxOutages = 1
    MaxFaults = 20
    MaxSignals = 2
    MaxChanges = 0
    MaxRefusals = 1
INVARIANTS OneResultPerLine IsolationEarned
PROPERTIES RunEnds Clients
