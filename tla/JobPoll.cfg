\* Two jobs, and a user who hides, shows, restarts, cancels and changes the job.
SPECIFICATION FairSpec
CONSTANTS
    Jobs = {j1, j2}
    NoJob = NoJob
INVARIANTS
    TypeOK
    ShownIsTrue
    OneChain
    FlagsAreTrue
    EndsAtFinal
PROPERTIES
    CanceledStaysQuiet
    FinalIsShown
\* The page may be left alone for good.
CHECK_DEADLOCK FALSE
