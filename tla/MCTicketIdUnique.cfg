SPECIFICATION Spec
CONSTANTS
    r1 = r1
    r2 = r2
    r3 = r3
    r4 = r4
    a = a
    Request = {r1, r2, r3, r4}
    Node = {a}
    NodeOf <- OneNode
    SuffixMax = 2
    PrefetchThreshold = 1
    MaxSeq = 3
CHECK_DEADLOCK FALSE
INVARIANT UniqueTickets
SYMMETRY Calls
