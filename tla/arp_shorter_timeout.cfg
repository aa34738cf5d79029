CONSTANTS
    Dest = {"a"}
    Packet = {1, 2, 3}
    To <- OneNeighbour
    WaitReplyTimeout = 2
    AliveTimeout = 3
    DeadTimeout = 2
    MaxRetries = 2
    PendingQueueSize = 2
    NewTimeouts = {1}
    Static = {}
    MaxAge = 4
SPECIFICATION Spec
INVARIANT NeverAborted
CHECK_DEADLOCK FALSE
