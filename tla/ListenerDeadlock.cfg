SPECIFICATION FairSpec
CONSTANTS
    Callers = {c1}
    Sessions = {s1}
    Namespaces = {n1}
    Dispatchers = {d1}
    NoRequest = NoRequest
PROPERTY DoneCloses
CHECK_DEADLOCK FALSE
