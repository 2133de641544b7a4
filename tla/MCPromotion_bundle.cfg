SPECIFICATION PSpec
CONSTANTS
    r1 = r1
    p1 = p1
    p2 = p2
    Runs = {r1}
    Launches = {"run"}
    NumGates = 1
    NumProfilers = 1
    HasOptimizer = FALSE
    Exclusive = TRUE
    Timeouts = FALSE
    Faults = {"store", "files"}
    Crashes = TRUE
    Reverts = TRUE
    MaxEdits = 1
    MaxUnhashedEdits = 0
    MaxProtectedEdits = 1
    Promoters = {p1, p2}
    Destinations = {}
SYMMETRY PromoterSymmetry
INVARIANTS
    PromotedHasBundle
    OnePromotion
    PInv
CHECK_DEADLOCK FALSE
