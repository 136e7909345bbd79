SPECIFICATION FairSpec
CONSTANTS
    a = a
    b = b
    Node = {a, b}
    Ticket = {1}
    MaxRetries = 3
    Limits <- MCLimits
CHECK_DEADLOCK FALSE
INVARIANTS TypeOK OneWorkerPerTicket
PROPERTY Drained
