SPECIFICATION Spec
CONSTANTS
    t1 = t1
    t2 = t2
    Empty = Empty
    Computes <- RoomyArray
    Faults = {}
CHECK_DEADLOCK FALSE
INVARIANT JobsKeepEnvironment
