CONSTANTS
    PAGE_SIZE = 16
    PageHead = 3
    SegmentHead = 2
    Pointer = 1
    Requests = {1, 2, 5, 9, 10, 20}
    MaxPages = 2
SPECIFICATION Spec
INVARIANTS SegmentsAreApart OnlyTightSizesAbort
 
CHECK_DEADLOCK FALSE
