SPECIFICATION Spec
SYMMETRY Symmetry
CONSTANTS
    c1 = c1
    c2 = c2
    w1 = w1
    w2 = w2
    Children = {c1, c2}
    Workloads = {w1, w2}
    Envs = {"b200"}
    Unknown = "unknown"
    Sources = {"reference"}
    Modes = {2}
    Kits = {"claude"}
    DefaultKit = "claude"
    None = None
    Calls = {"report", "compare"}
    Forcing = FALSE
    Sequential = FALSE
    Faults = {"measure", "bench", "init"}
    MaxMeasures = 2
    MaxInits = 1
INVARIANTS
    SeededScores
CHECK_DEADLOCK FALSE
