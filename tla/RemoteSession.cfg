SPECIFICATION Spec
CONSTANTS
    Namespaces = {n1}
    Keys = {k1}
    Values = {empty, v1}
    Empty = empty
    Lists <- OneAttr
    MaxRev = 2
    Threads = {t1, t2}
    Ops = {"head", "fetch", "update", "clear", "destroy"}
SYMMETRY Symmetry
INVARIANTS
    RevisionsExist
    ClosedMeansDestroyed
    LaterReadsAreCorrect
PROPERTY SharedIsVersioned
