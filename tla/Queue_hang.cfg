SPECIFICATION FairSpec
CONSTANTS
    r = r  a = a  b = b
    w1 = w1  w2 = w2  w3 = w3
    Worker = {w1, w2}
    Item = {r, a, b}
    Subs <- Tree
    Seeds = {r}
    NoItem = NoItem
    MaxListErrors = 1
PROPERTY ScanEnds
CHECK_DEADLOCK FALSE
