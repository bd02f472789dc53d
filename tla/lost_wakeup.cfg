SPECIFICATION FairSpec
CONSTANTS
    a = a
    b = b
    c = c
    s1 = s1
    NoJob = NoJob
    Job <- Two
    Submitter <- One
    Batch <- SmallBatch
    ManifestDeps <- EdgeDeps
    Concurrency = 1
    Faults = {}
    TornReads = FALSE
CHECK_DEADLOCK FALSE
PROPERTY PendingJobStarts
