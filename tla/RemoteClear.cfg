SPECIFICATION Spec
CONSTANTS
    Namespaces = {n1}
    Keys = {k1}
    Values = {empty, v1}
    Empty = empty
    Lists <- OneAttr
    MaxRev = 3
    Threads = {t1}
    Ops = {"update", "clear"}
INVARIANT CachedReadsAreCorrect
