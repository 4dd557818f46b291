SPECIFICATION Spec
CONSTANTS
    Route <- ForwardRoute
    Cycles = 1
    MaxOps = 2
    Hackathon = TRUE
    StartPaused = FALSE
PROPERTY ResumeSticks
CHECK_DEADLOCK FALSE
