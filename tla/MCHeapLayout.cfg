CONSTANTS
    PAGE_SIZE = 7
    GenSize = 3
    INITIAL_PAGES = 4
    PageSizes = {1, 3, 6}
    MaxFrames = 12
SPECIFICATION Spec
INVARIANTS NodesAreApart NodesAreInside
CHECK_DEADLOCK FALSE
