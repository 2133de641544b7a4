SPECIFICATION PSpec
CONSTANTS
    r1 = r1
    r2 = r2
    p1 = p1
    p2 = p2
    Runs = {r1, r2}
    Launches = {"run"}
    NumGates = 1
    NumProfilers = 1
    HasOptimizer = FALSE
    Exclusive = TRUE
    Timeouts = FALSE
    Faults = {}
    Crashes = FALSE
    Reverts = FALSE
    MaxEdits = 1
    MaxUnhashedEdits = 0
    MaxProtectedEdits = 0
    Promoters = {p1, p2}
    Destinations = {}
SYMMETRY PromoterSymmetry
INVARIANTS
    NoRemains
    EvidenceIsOwn
    PromotedIsMeasured
PROPERTIES
    LifecycleIsStrict
CHECK_DEADLOCK FALSE
