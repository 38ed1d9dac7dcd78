\* Two jobs and two workers that lose their locks but never die.
SPECIFICATION Spec
CONSTANTS
    Jobs = {j1, j2}
    Workers = {w1, w2}
    NoJob = NoJob
    NoWorker = NoWorker
    Attempts = 3
    MaxStalls = 1
    Envelope <- LockLoss
SYMMETRY Symmetry
INVARIANTS
    RunningIsOwned
    OutputIsReferenced
\* The system stops when every job is done.
CHECK_DEADLOCK FALSE
