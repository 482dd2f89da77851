SPECIFICATION PeerFairSpec
CONSTANTS
    Calls = {c1}
    s1 = s1
    Sessions = {s1, s2}
    Async = {s2}
    MaxReplies = 1
    Nobody = Nobody
    Owner <- MCOwner
INVARIANTS
    PendingCallsAreOpen
PROPERTIES
    GracefulStopWaitsForCalls
    SessionsEndFirst
    StopCompletes
    
CHECK_DEADLOCK FALSE
