\* Three requests of one caller around the ends of windows of two seconds.
SPECIFICATION Spec
CONSTANTS
    Keys = {k1}
    Requests = {r1, r2, r3}
    Limit = 1
    WindowSeconds = 2
    EndOfTime = 6
    Flushes = 1
    Envelope <- Everything
    Durations <- Latencies
    Observations = 2
SYMMETRY Symmetry
INVARIANTS
    TypeOK
    BurstIsBounded
    RetryAfterSuffices
    HistogramAgrees
\* The system stops when every request is answered and time is over.
CHECK_DEADLOCK FALSE
