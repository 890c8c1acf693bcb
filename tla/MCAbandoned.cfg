CONSTANTS
    NumFrames = 12
    GENERATION_CHILDREN = 4
    MaxNodes = 6
    MaxGen = 3
    Units = 2
    Null = Null
    Server = FALSE
    Outcomes = {"ok", "error"}
    Targets = {}
    Sizes = {2}
    InitAllocs = 3
    MaxOps = 1
    MaxFaults = 0
SPECIFICATION EvalerSpec
INVARIANT LiveAgrees
CHECK_DEADLOCK FALSE
