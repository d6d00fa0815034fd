SPECIFICATION Spec
CONSTANTS
    r = r  a = a  b = b  o1 = o1  o2 = o2 
    w1 = w1  w2 = w2  c1 = c1  none = none
    Root = r  NoTask = none
    Prefix = {r, a}
    Object = {o1, o2}
    Pages <- LatePages
    PipeKey = {}
    PipeToken = {}
    Worker = {w1, w2}
    Checker = {c1}
    ChCap = 1
    IsCheck = TRUE
    SameDir = TRUE
    FirstBatchMayFail = FALSE
    RetryMayFail = FALSE
    FirstBatchMayTear = FALSE
    LineMayTear = FALSE
    MaxRuns = 2
    MaxSignals = 0
    MaxListErrors = 0
    MaxShortWrites = 0
INVARIANTS FrontierClosed NothingLost CleanRunJournalsAll
SYMMETRY Symmetric
