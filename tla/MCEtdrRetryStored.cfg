SPECIFICATION Spec
CONSTANTS
    a = a
    b = b
    Node = {a}
    Ticket = {1}
    MaxRetries = 3
    Limits <- OneFault
CHECK_DEADLOCK FALSE
INVARIANT SavedMeansStored
