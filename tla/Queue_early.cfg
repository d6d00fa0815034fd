SPECIFICATION Spec
CONSTANTS
    r = r  a = a  b = b
    w1 = w1  w2 = w2  w3 = w3
    Worker = {w1}
    Item = {r, a, b}
    Subs <- Tree
    Seeds = {a, b}
    NoItem = NoItem
    MaxListErrors = 0
INVARIANT NothingDropped
CHECK_DEADLOCK FALSE
