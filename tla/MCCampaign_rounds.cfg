SPECIFICATION Spec
SYMMETRY Symmetry
CONSTANTS
    r1 = r1
    r2 = r2
    v1 = v1
    v2 = v2
    Rounds = {r1, r2}
    Names = {v1, v2}
    Profiles = {"standard", "production"}
    Faults = {"files", "store"}
    Crashes = TRUE
    MaxEdits = 2
    Solution = Solution
    None = None
INVARIANTS
    CInv
    ArchivedIsProven
    OutcomeFollowsKernel
    CleanExitIsProven
PROPERTIES
    ArchiveIsAtomic
CHECK_DEADLOCK FALSE
