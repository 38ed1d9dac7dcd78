\* One job and three workers through every outside event, with the real queue options.
SPECIFICATION FairSpec
CONSTANTS
    Jobs = {j1}
    Workers = {w1, w2, w3}
    NoJob = NoJob
    NoWorker = NoWorker
    Attempts = 3
    MaxStalls = 1
    Envelope <- AllButAmbiguousAdd
INVARIANTS
    TypeOK
    ExclusiveProcessing
    CompletedIsSucceeded
    SucceededHasOutput
    MergesBounded
    FailuresCountedOnce
PROPERTIES
    ImplementsLifecycle
    QueueDrains
\* The system stops when every job is done.
CHECK_DEADLOCK FALSE
