SPECIFICATION FairSpec
CONSTANTS
    t1 = t1
    t2 = t2
    Empty = Empty
    Computes <- SeveralComputes
    Faults = {"process", "payload", "submit", "save"}
CHECK_DEADLOCK FALSE
INVARIANTS
    TypeOK
    EveryEventOnce
    JobsOwnEnvironment
    
PROPERTIES
    RunAdvances
    ImplementsPromise
    RunReturns
