SPECIFICATION FairSpec
CONSTANTS
    Conn = {1, 2, 3}
    RequestId = {1}
    CHANNEL = 2
    reply_in_flight_limit = 1
    reply_send_max_concurrent = 2
    MAX_CONSECUTIVE_ERRORS = 2
    MAX_CLOSED_CONN_IDS = 1
    ip_block_failure_threshold = 2
    ip_block_duration = 2
    Limits <- MCLimits
INVARIANTS TypeOK OpenNotDropped RepliesMatchRequests TerminateCloses TollsInTheirRow BlocksEarned
PROPERTIES Served
CHECK_DEADLOCK FALSE
