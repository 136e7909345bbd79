SPECIFICATION FairSpec
CONSTANTS
    in1 = in1
    in2 = in2
    out1 = out1
    Checkin = {in1, in2}
    Checkout = {out1}
    Capacity = 2
    BatchSize = 2
    MaxAttempts = 2
    MaxListLen = 1
    ReplayBatch = 1
    ReplayMax = 1
    MaxSendFailures = 1
    MaxKeydbFailures = 1
    MaxCrashes = 1
CHECK_DEADLOCK FALSE
INVARIANTS TypeOK NothingVanishes SentOnce
PROPERTIES Drained ImplementsOutbox
