SPECIFICATION FairSpec
CONSTANTS
    Namespaces = {n1}
    Keys = {k1}
    Values = {empty, v1}
    Empty = empty
    Lists <- OneAttr
    Clients = {c1, c2}
    MaxRev = 1
    MaxSeq = 2
INVARIANTS
    TypeOK
    IssuedInOrder
    ErrorsAreTruthful
    DestroyedIsSilent
    DoneMeansQuiescent
PROPERTIES
    NothingAfterDestroy
    DestroyCompletes
