SPECIFICATION Spec
CONSTANTS
    n1 = n1
    r1 = r1
    Namespaces = {n1}
    Requests = {r1, r2}
    Executed = {r2}
    MaxPending = 2
    NamespaceOf <- MCNamespaceOf
    Kinds <- MCKinds
INVARIANT BalancedNotLost
CHECK_DEADLOCK FALSE
