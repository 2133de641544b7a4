SPECIFICATION Spec
SYMMETRY Symmetry
CONSTANTS
    p1 = p1
    p2 = p2
    p3 = p3
    n1 = n1
    n2 = n2
    d1 = d1
    d2 = d2
    s1 = s1
    s2 = s2
    Procs = {p1, p2, p3}
    Names = {n1, n2}
    Paths = {d1, d2}
    Skills = {s1, s2}
    Tracked = {s2}
    MaxVersion = 1
    MaxRuns = 2
    Faults = {"git", "files", "checks"}
    Crashes = TRUE
    None = None
INVARIANTS
    LInv
    LoadableIsComplete
    NothingLeft
    RecordsAgree
PROPERTIES
    LanesStay
CHECK_DEADLOCK FALSE
