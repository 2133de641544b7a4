SPECIFICATION FairSpec
CONSTANTS
    h1 = h1
    Helpers = {h1}
    Streams = {"stdout", "stderr"}
    MaxLines = 1
    Agent = Agent
    None = None
    Killed = Killed
PROPERTIES
    BoundedEnds
CHECK_DEADLOCK FALSE
