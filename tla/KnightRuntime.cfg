CONSTANTS
    UseTls = TRUE
    MaxReconnectAttempts = 2
    Capacity = 2
    SnapshotMaxAttempts = 3
    MaxSignals = 2
SPECIFICATION FairSpec
INVARIANTS
    TypeOK
    HandlerOutlived
    TerminatesOnlyInWindow
    OneSignalDoesNotKill
PROPERTY
    ShutdownEnds
CHECK_DEADLOCK FALSE
