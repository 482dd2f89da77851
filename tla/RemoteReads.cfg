SPECIFICATION Spec
CONSTANTS
    Namespaces = {n1}
    Keys = {k1}
    Values = {empty, v1}
    Empty = empty
    Lists <- OneAttr
    MaxRev = 3
    Threads = {t1, t2}
    Ops = {"fetch", "update"}
SYMMETRY Symmetry
INVARIANTS
    CachedReadsAreCorrect
    FetchedReadsAreCorrect
    FrozenEntriesAreFinal
    ShorterUpdateIsSame
    UpdatesTakeEffect
