SPECIFICATION RelayFairSpec
CONSTANTS
    Watchdog = 2
    MaxSends = 3
    MaxLosses = 1
    MaxRestarts = 0
    MaxRefusals = 1
PROPERTIES RobotStops
CHECK_DEADLOCK FALSE
