\* The normal profile as the constants say, the attended one as MCReactionInterlock says.
SPECIFICATION ProfileSpec
CONSTANTS
    Hackathon = FALSE
    AllowMiss = TRUE
    Backlog = 4
    MaxJobs = 2
INVARIANTS
    InterlockInv
PROPERTIES
    ResumesAreEarned
    InterlockEnds
\* The process closes.
CHECK_DEADLOCK FALSE
