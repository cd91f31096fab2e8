CONSTANTS
    Request = {r1, r2}
    Private = {p1}
    MaxBundle = 2
    ExternalMiner = TRUE
SPECIFICATION Spec
SYMMETRY Symmetry
INVARIANTS
    MarkedAsOnChain
    PendingMinedOnlyIfStrayed
    SimulationLeavesNoTrace
    IncludedReplyTruthful
    BundleInOneBlock
PROPERTIES
    FinalStatusKept
