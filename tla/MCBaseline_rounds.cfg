SPECIFICATION Spec
SYMMETRY Symmetry
CONSTANTS
    c1 = c1
    c2 = c2
    w1 = w1
    w2 = w2
    Children = {c1, c2}
    Workloads = {w1, w2}
    Envs = {"b200", "h100"}
    Unknown = "unknown"
    Sources = {"reference", "expert"}
    Modes = {2}
    Kits = {"claude"}
    DefaultKit = "claude"
    None = None
    Calls = {"report", "variance"}
    Forcing = TRUE
    Sequential = TRUE
    Faults = {"measure", "bench"}
    MaxMeasures = 2
    MaxInits = 2
INVARIANTS
    PromotedOnce
    ScoresAreWhole
    RoundsInv
PROPERTIES
    GoldenIsFrozen
    TermsStay
CHECK_DEADLOCK FALSE
