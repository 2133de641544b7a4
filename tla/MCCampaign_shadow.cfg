SPECIFICATION Spec
CONSTANTS
    r1 = r1
    v1 = v1
    Rounds = {r1}
    Names = {v1}
    Profiles = {"production"}
    Faults = {}
    Crashes = FALSE
    MaxEdits = 1
    Solution = Solution
    None = None
INVARIANTS
    DeniedIsUnproven
CHECK_DEADLOCK FALSE
