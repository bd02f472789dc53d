SPECIFICATION FairSpec
CONSTANTS
    a = a
    b = b
    c = c
    s1 = s1
    NoJob = NoJob
    Job <- Three
    Submitter <- One
    Batch <- ChainBatch
    ManifestDeps <- FanDeps
    Concurrency = 0
    Faults = {}
    TornReads = TRUE
CHECK_DEADLOCK FALSE
INVARIANTS
    NoStrandedRunnable
    ContainersWithinLimit
PROPERTIES
    SubmitReturns
    RunnableStarts
