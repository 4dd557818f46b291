SPECIFICATION Spec
CONSTANTS
    Hackathon = TRUE
    AllowMiss = TRUE
    Backlog = 4
    MaxJobs = 1
INVARIANT AbortIsFinal
CHECK_DEADLOCK FALSE
