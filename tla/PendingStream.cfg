CONSTANTS
    Request = {r1, r2}
    Client = {c1, c2}
    Outcome = {"included"}
SPECIFICATION Spec
SYMMETRY Symmetry
INVARIANTS
    SeqNumsDense
    SnapshotPlusStreamComplete
    StreamAtMostOnce
    LiveRegistryExact
CHECK_DEADLOCK FALSE
