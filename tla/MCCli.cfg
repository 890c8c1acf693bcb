CONSTANTS
    NumFrames = 10
    GENERATION_CHILDREN = 2
    MaxNodes = 7
    MaxGen = 3
    Units = 2
    Null = Null
    Server = FALSE
    Outcomes = {"ok", "error", "nothing"}
    Targets = {0, 1, 2}
    Sizes = {2}
    InitAllocs = 2
    MaxOps = 2
    MaxFaults = 1
SPECIFICATION EvalerSpec
INVARIANTS PagesHaveHomes PagesAreDisjoint OlderAbove
    LiveAgreesUnlessTainted  CommittedAreProtected
PROPERTIES CheckoutAsListed  ImplementsVersionStore
CHECK_DEADLOCK FALSE
