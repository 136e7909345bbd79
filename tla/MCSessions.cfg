SPECIFICATION FairSpec
CONSTANTS
    Conn = {1, 2}
    MaxSid = 3
    Old = {1}
    BUFFER_MAX_SESSIONS = 1
    FLUSH_BATCH_SIZE = 1
    Limits <- MCLimits
INVARIANTS MapFollowsConnections SavesKept OpenRowsHaveAnEnd
PROPERTIES EventuallySettled
CHECK_DEADLOCK FALSE
