SPECIFICATION FairSpec
CONSTANTS
    h1 = h1
    Helpers = {h1}
    Streams = {"stdout", "stderr"}
    MaxLines = 2
    Agent = Agent
    None = None
    Killed = Killed
INVARIANTS
    CleanExitCounts
    TimeoutEndsGroup
    TranscriptIsComplete
    SInv
PROPERTIES
    TimeoutReturns
    LaneEnds
CHECK_DEADLOCK FALSE
