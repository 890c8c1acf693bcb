CONSTANTS
    NumFrames = 12
    GENERATION_CHILDREN = 4
    MaxNodes = 6
    MaxGen = 3
    Units = 2
    Null = Null
    Server = TRUE
    Outcomes = {"ok", "error", "readonly"}
    Targets = {}
    Sizes = {2}
    InitAllocs = 3
    MaxOps = 1
    MaxFaults = 0
SPECIFICATION EvalerSpec
INVARIANT WritesAreTrapped
CHECK_DEADLOCK FALSE
