\* A double click while the queue may refuse the job and workers lose locks.
SPECIFICATION FairSpec
CONSTANTS
    Requests = {r1, r2}
    r1 = r1
    r2 = r2
    r3 = r3
    k1 = k1
    f1 = f1
    f2 = f2
    NoKey = NoKey
    KeyOf <- DoubleClickKeys
    FormOf <- DoubleClickForms
    Jobs = {j1}
    Workers = {w1, w2}
    NoJob = NoJob
    NoWorker = NoWorker
    Attempts = 2
    MaxStalls = 1
    Envelope <- LocksAreLost
PROPERTIES
    AcceptedSettles
\* The system stops when every job is done.
CHECK_DEADLOCK FALSE
