\* Two overlapping cleanup runs through every outside event.
SPECIFICATION FairSpec
CONSTANTS
    Files = {f1, f2}
    Jobs = {j1}
    NoFile = NoFile
    Cleaners = {c1, c2}
    BatchSize = 1
    Envelope <- Everything
INVARIANTS
    TypeOK
    NoUploadWithoutRow
    TimelyJobsLeaveNothing
PROPERTIES
    UnexpiredUntouched
    RunsEnd
    ExpiredAreDeleted
\* The system stops when every job is done.
CHECK_DEADLOCK FALSE
