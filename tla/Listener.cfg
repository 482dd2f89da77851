SPECIFICATION FairSpec
CONSTANTS
    Callers = {c1, c2}
    Sessions = {s1}
    Namespaces = {n1}
    Dispatchers = {d1}
    NoRequest = NoRequest
INVARIANTS
    BindingsMatch
PROPERTIES
    GracefulStopWaits
    NoHandlerAfterDestroy
    StopReleasesAll
CHECK_DEADLOCK FALSE
