CONSTANTS
    UseTls = TRUE
    MaxReconnectAttempts = 3
    MaxStops = 2
    MaxRestarts = 2
SPECIFICATION Spec
INVARIANTS
    NeverStuck
    RetriesBounded
    OneThingAtATime
CHECK_DEADLOCK FALSE
