CONSTANTS
    NumRequests = 3
    Dbs = {d1, d2}
    MaxPerDb = 1
    AnswerLines = {1}
    Null = Null
SPECIFICATION Spec
INVARIANTS   BadMeansDied
CHECK_DEADLOCK FALSE
