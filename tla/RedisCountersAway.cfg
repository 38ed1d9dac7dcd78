\* One upload while Redis goes away and need not come back.
SPECIFICATION FairSpec
CONSTANTS
    Keys = {k1}
    Requests = {r1}
    Limit = 1
    WindowSeconds = 1
    EndOfTime = 1
    Flushes = 0
    Envelope <- Everything
    Durations <- Latencies
    Observations = 1
PROPERTIES
    MetricsFailOpen
\* The system stops when every request is answered and time is over.
CHECK_DEADLOCK FALSE
