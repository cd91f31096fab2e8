CONSTANTS
    Request = {r1, r2}
    Private = {p1}
    MaxBundle = 2
    ExternalMiner = FALSE
SPECIFICATION Spec
INVARIANT
    BundleExecutedInOrder
