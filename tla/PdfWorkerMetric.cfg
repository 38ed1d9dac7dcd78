\* A lost lock makes the failure counter count a job that succeeded.
SPECIFICATION Spec
CONSTANTS
    Jobs = {j1}
    Workers = {w1}
    NoJob = NoJob
    NoWorker = NoWorker
    Attempts = 3
    MaxStalls = 1
    Envelope <- LockLoss
INVARIANTS
    CountedFailuresFailed
\* The system stops when every job is done.
CHECK_DEADLOCK FALSE
