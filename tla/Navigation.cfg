\* A backend that may take its time over a pause.
SPECIFICATION FairSpec
CONSTANTS
    Jobs = {j1, j2, j3}
    NoJob = NoJob
    SlowPause = TRUE
    MaxCommands = 3
INVARIANTS
    CoordinatorInv
PROPERTIES
    ReactionsEnd
\* Commands and reactions are bounded.
CHECK_DEADLOCK FALSE
