SPECIFICATION Spec
CONSTANTS
    r1 = r1
    Runs = {r1}
    Launches = {"run", "lane", "doctor"}
    NumGates = 2
    NumProfilers = 2
    HasOptimizer = TRUE
    Exclusive = TRUE
    Timeouts = TRUE
    Faults = {"store", "files"}
    Crashes = TRUE
    Reverts = FALSE
    MaxEdits = 2
    MaxUnhashedEdits = 1
    MaxProtectedEdits = 1
INVARIANTS
    PromotableIsProven
    EventsFollowRow
    IInv
PROPERTIES
    LifecycleIsStrict
CHECK_DEADLOCK FALSE
