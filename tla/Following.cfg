CONSTANTS
    Request = {r1, r2}
    Client = {c1, c2}
    Outcome = {"included"}
    Capacity = 1
SYMMETRY Symmetry
SPECIFICATION FollowingSpec
INVARIANTS
    MissesOnlyForCause
    LogFollowsAnswers
CHECK_DEADLOCK FALSE
