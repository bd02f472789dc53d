SPECIFICATION Spec
CONSTANTS
    a = a
    b = b
    c = c
    d = d
    e1 = e1
    e2 = e2
    NoJob = NoJob
    Job <- Four
    Caller <- Both
    Events <- TwoEvents
    ManifestDeps <- Deps
    Retries <- NoneRetried
    Faults = {}
CHECK_DEADLOCK FALSE
INVARIANTS
    QueryStopsAll
