CONSTANTS
    MaxTransacs = 4
    MaxGoto = 1
SPECIFICATION Spec
INVARIANTS TreeShowsWhatArrived HeadIsNewest InputIsDrawn
