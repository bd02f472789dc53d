SPECIFICATION OperationsFairSpec
CONSTANTS
    a = a
    b = b
    s1 = s1
    NoJob = NoJob
    Job <- Two
    Submitter <- One
    Batch <- ChainBatch
    ManifestDeps <- ChainDeps
    Concurrency = 2
    Faults = {"client", "create"}
    TornReads = FALSE
    Clients <- AtOnce
    Matching <- Two
    StopMayFail = TRUE
CHECK_DEADLOCK FALSE
INVARIANTS
    OperationsTypeOK
    LimiterAccount
    TerminatedAreOver
    StartedAfterEnded
    SafeWhenQuiet
    StatusComplete
PROPERTIES
    StoppedFreesSlot
