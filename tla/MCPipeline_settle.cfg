SPECIFICATION FairSpec
CONSTANTS
    r1 = r1
    Runs = {r1}
    Launches = {"run", "lane", "doctor"}
    NumGates = 2
    NumProfilers = 2
    HasOptimizer = TRUE
    Exclusive = TRUE
    Timeouts = TRUE
    Faults = {}
    Crashes = FALSE
    Reverts = FALSE
    MaxEdits = 1
    MaxUnhashedEdits = 0
    MaxProtectedEdits = 1
INVARIANTS
    FailureRecorded
PROPERTIES
    RunsSettle
CHECK_DEADLOCK FALSE
