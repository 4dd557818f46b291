\* The stealth app or the viewer, with the custom notice.
SPECIFICATION FairSpec
CONSTANTS
    CustomNotice = TRUE
    MaxInputs = 2
    MaxClock = 1
INVARIANTS
    EngineInv
PROPERTIES
    EngineEnds
\* The system stops when the engine is closed.
CHECK_DEADLOCK FALSE
