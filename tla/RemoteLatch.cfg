SPECIFICATION Spec
CONSTANTS
    Callers = {worker, operator}
    Beats = {b1, b2}
    NoThread = NoThread
    MaxCalls = 3
    MaxFaults = 2
PROPERTIES NoMovementWhileLatched
CHECK_DEADLOCK FALSE
