SPECIFICATION FairSpecR
CONSTANTS
    r1 = r1
    r2 = r2
    r3 = r3
    r4 = r4
    a = a
    b = b
    Request = {r1, r2, r3, r4}
    Node = {a, b}
    NodeOf <- TwoNodes
    SuffixMax = 2
    PrefetchThreshold = 1
    MaxSeq = 3
CHECK_DEADLOCK FALSE
INVARIANTS NonZeroTicket UniqueUnlessRaced
PROPERTY EveryCallReturns
