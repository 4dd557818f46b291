\* The integrated launcher's start, with the hackathon recoveries.
SPECIFICATION FairSpec
CONSTANTS
    Route <- ShortRoute
    Cycles = 1
    MaxOps = 3
    Hackathon = TRUE
    StartPaused = TRUE
INVARIANTS
    ConfirmedPauseHolds
    RecoveryStandsStill
PROPERTIES
    NoMoveAfterStop
    ServiceSpec
    RequestsAreHonoured
\* The run ends.
CHECK_DEADLOCK FALSE
