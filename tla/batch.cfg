SPECIFICATION Spec
CONSTANTS
    a = a
    b = b
    c = c
    d = d
    e1 = e1
    e2 = e2
    NoJob = NoJob
    Job <- Four
    Caller <- Both
    Events <- TwoEvents
    ManifestDeps <- Deps
    Retries <- OneRetried
    Faults = {"submit", "list", "stop"}
CHECK_DEADLOCK FALSE
INVARIANTS
    TypeOK
    DependencyOrder
    StopsAll
    StopsWhatRan
