SPECIFICATION Spec
CONSTANTS
    a = a
    b = b
    c = c
    s1 = s1
    NoJob = NoJob
    Job <- Two
    Submitter <- One
    Batch <- SmallBatch
    ManifestDeps <- SmallDeps
    Concurrency = 1
    Faults = {"registry", "client", "prepare", "create", "start", "logs", "logread", "wait"}
    TornReads = FALSE
CHECK_DEADLOCK FALSE
INVARIANTS
    TypeOK
    OrderInv
    DependencyOrder
    LimiterAccount
PROPERTIES
    ImplementsScheduler
    CoreAdvances
