SPECIFICATION TableSpec
CONSTANTS
    Namespaces = {n1, n2}
    Keys = {k1, k2}
    Values = {empty, v1}
    Empty = empty
    Lists <- UpToThree
    MaxRev = 2
    Cons <- EveryConstraint
    NoCon = NoCon
INVARIANTS
    UpdateLoopIsUpdated
    ClearLoopIsCleared
    MatcherIsMeaning
CHECK_DEADLOCK FALSE
