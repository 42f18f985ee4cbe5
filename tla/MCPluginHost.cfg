SPECIFICATION FairSpec
CONSTANTS
    Callers = {main}
    MaxRequests = 5
    MaxLines = 2
INVARIANTS
    OwnReply
    InSync
PROPERTIES
    CallReturns
CHECK_DEADLOCK FALSE
