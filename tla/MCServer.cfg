CONSTANTS
    NumFrames = 12
    GENERATION_CHILDREN = 2
    MaxNodes = 8
    MaxGen = 3
    Units = 2
    Null = Null
    Server = TRUE
    Outcomes = {"ok"}
    Targets = {}
    Sizes = {1, 2}
    InitAllocs = 2
    MaxOps = 2
    MaxFaults = 0
SPECIFICATION EvalerSpec
INVARIANTS TreeOK WritesAreTrapped OwnPagesAreWritable MapsAgree 
CHECK_DEADLOCK FALSE
