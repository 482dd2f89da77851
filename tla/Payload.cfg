SPECIFICATION FairSpec
CONSTANTS
    Payloads = {p1, p2}
    Data = {d1, d2}
    Buffers = {b1, b2, b3}
    Nil = Nil
INVARIANTS
    BytesStayValid
    BufferHasOneOwner
PROPERTIES
    CallsReturn
CHECK_DEADLOCK FALSE
