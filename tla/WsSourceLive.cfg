CONSTANTS
    UseTls = FALSE
    MaxReconnectAttempts = 2
    MaxStops = 1
    MaxRestarts = 1
SPECIFICATION FairSpec
PROPERTIES
    ConnectsOrGivesUp
    StopSettles
    RestartHonoured
CHECK_DEADLOCK FALSE
