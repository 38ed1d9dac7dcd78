\* A job that fails and is tried again while the page watches it.
SPECIFICATION FairSpec
CONSTANTS
    Jobs = {j1}
    NoJob = NoJob
PROPERTIES
    DownloadIsOffered
\* The page may be left alone for good.
CHECK_DEADLOCK FALSE
