SPECIFICATION Spec
SYMMETRY Symmetry
CONSTANTS
    b1 = b1
    b2 = b2
    s1 = s1
    s2 = s2
    short = short
    long = long
    None = None
    Torn = Torn
    t1 = t1
    t2 = t2
    Seconds = {t1, t2}
    Sources = {s1, s2}
    Benches = {b1, b2}
    Labels = {short, long}
    Calls <- SomeCalls
    Within <- ShortInLong
    Anchors = {long}
    MaxEdits = 1
    MaxBenches = 2
    Crashes = TRUE
INVARIANTS
    TInv
    ResultsOfSources
    ComparedAsMeasured
    LostOnlyToRace
PROPERTIES
    SnapshotsStay
CHECK_DEADLOCK FALSE
