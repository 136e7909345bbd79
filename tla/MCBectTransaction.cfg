SPECIFICATION Spec
CONSTANTS
    in1 = in1
    in2 = in2
    ci1 = ci1
    re1 = re1
    re2 = re2
    ex1 = ex1
    a = a
    b = b
    Node = {a, b}
    Checkin = {in1}
    Commit = {ci1}
    Reserve = {re1, re2}
    Exit = {ex1}
    NodeOf <- TwoNodes
    Ticket = {1}
    TicksPerSecond = 2
    MaxTime = 3
    MaxAccount = 2
    MaxLosses = 1
CHECK_DEADLOCK FALSE
INVARIANTS MessagesFollowPhases PhasesInOrder
