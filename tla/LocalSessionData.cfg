SPECIFICATION Spec
CONSTANTS
    Namespaces = {n1}
    Keys = {k1, k2}
    Values = {empty, v1}
    Empty = empty
    Lists <- Distinct
    Clients = {c1, c2}
    MaxRev = 2
    MaxSeq = 0
SYMMETRY Symmetry
CONSTRAINT NoHandlers
INVARIANTS
    ReadsAreCorrect
    StaleOnlyIfModified
    FrozenForever
PROPERTY ImplementsVersioned
