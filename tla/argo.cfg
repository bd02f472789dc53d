SPECIFICATION Spec
CONSTANTS
    a = a
    b = b
    c = c
    e1 = e1
    e2 = e2
    id = id
    p1 = p1
    p2 = p2
    NoJob = NoJob
    Job <- Three
    Caller <- Both
    Events <- TwoEvents
    Definition <- Plugin
    EventID <- SameID
    Inputs <- EventInputs
    Faults = {"get", "create", "list", "stop"}
CHECK_DEADLOCK FALSE
INVARIANTS
    TypeOK
    WorkflowComplete
    TakenBySameWords
    SlugIsLabel
    ListedAreOver
