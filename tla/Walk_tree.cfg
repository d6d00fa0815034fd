SPECIFICATION FairSpec
CONSTANTS
    r = r  a = a  b = b  c = c  d = d
    o1 = o1  o2 = o2  o3 = o3  o4 = o4  o5 = o5
    Prefix = {r, a, b, c, d}
    Root = r
    Object = {o1, o2, o3, o4, o5}
    Tree <- SmallTree
    PipeKey = {o2}
    PipePrefix = {c}
    ListConcurrency = 2
    Capacity = 1
    Consumer = {"c1", "c2"}
    Modes = {TRUE, FALSE}
    MaxSignals = 2
    MaxListErrors = 2
INVARIANTS SlotsHeld ClosedLast EndedWalksCovered WholeTree ListedOnce
PROPERTIES RunEnds
