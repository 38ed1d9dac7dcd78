\* A retry of a submission whose job has finished.
SPECIFICATION Spec
CONSTANTS
    Requests = {r1, r2}
    r1 = r1
    r2 = r2
    r3 = r3
    k1 = k1
    f1 = f1
    f2 = f2
    NoKey = NoKey
    KeyOf <- DoubleClickKeys
    FormOf <- DoubleClickForms
    Jobs = {j1, j2}
    Workers = {w1}
    NoJob = NoJob
    NoWorker = NoWorker
    Attempts = 1
    MaxStalls = 1
    Envelope <- NoFaults
INVARIANTS
    RetryResolvesToSameJob
\* The system stops when every job is done.
CHECK_DEADLOCK FALSE
