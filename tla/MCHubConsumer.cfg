SPECIFICATION FairSpec
CONSTANTS
    n1 = n1
    n2 = n2
    p1 = p1
    t1 = t1
    Node = {n1, n2}
    Partition = {p1}
    Ticket = {t1}
    Record <- MCRecord
    Cached <- MCCached
    Slot = {1, 2}
    MAX_INIT_RETRIES = 1
    RECONNECT_AFTER_CONSECUTIVE_ERRORS = 2
    FixedPartitions = FALSE
    MaxLog = 2
    MaxEvents = 2
INVARIANTS NothingSkipped TwoReadersNeedExpiry NewestHubIdWins
PROPERTIES OffsetsAdvance  CaughtUp
CHECK_DEADLOCK FALSE
