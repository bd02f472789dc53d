SPECIFICATION FairSpec
CONSTANTS
    t1 = t1
    t2 = t2
    Empty = Empty
    Computes <- EmptyTail
    Faults = {}
CHECK_DEADLOCK FALSE
PROPERTY RunReturns
