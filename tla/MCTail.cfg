CONSTANTS
    Dbs = {d1, d2}
    Stored = 2
    NumRequests = 2
    MaxLoggers = 2
    NumTails = 2
    Base = 2
    Null = Null
SPECIFICATION Spec
INVARIANTS TypeOK LostOnlyInWindow TwiceOnlyIfRacing
 
CHECK_DEADLOCK FALSE
