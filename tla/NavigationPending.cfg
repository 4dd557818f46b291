SPECIFICATION Spec
CONSTANTS
    Jobs = {j1, j2}
    NoJob = NoJob
    SlowPause = FALSE
    MaxCommands = 2
PROPERTIES ResumesWithNothingPending
CHECK_DEADLOCK FALSE
