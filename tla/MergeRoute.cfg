\* Two submissions under one key and a third of another form, while the web process may die.
SPECIFICATION Spec
CONSTANTS
    Requests = {r1, r2, r3}
    r1 = r1
    r2 = r2
    r3 = r3
    k1 = k1
    f1 = f1
    f2 = f2
    NoKey = NoKey
    KeyOf <- OneKeyTwoForms
    FormOf <- TwoForms
    Jobs = {j1, j2}
    Workers = {w1}
    NoJob = NoJob
    NoWorker = NoWorker
    Attempts = 2
    MaxStalls = 1
    Envelope <- WebFaults
INVARIANTS
    TypeOK
    OneJobPerKey
    AcceptedFormMatches
    AcceptedIsInHand
    RefusedNeverStarts
PROPERTIES
    RetriesOfUnfinishedResolve
\* The system stops when every job is done.
CHECK_DEADLOCK FALSE
