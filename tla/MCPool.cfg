CONSTANTS
    NumRequests = 3
    Dbs = {d1}
    MaxPerDb = 3
    AnswerLines = {1}
    Null = Null
SPECIFICATION Spec
INVARIANTS HeldWhileServed AnswersAreOwn
PROPERTIES NothingRunsAfterReply 
CHECK_DEADLOCK FALSE
