CONSTANTS
    Dest = {"a", "b"}
    Packet = {1, 2, 3, 4}
    To <- TwoNeighbours
    WaitReplyTimeout = 2
    AliveTimeout = 1
    DeadTimeout = 1
    MaxRetries = 1
    PendingQueueSize = 2
    NewTimeouts = {1}
    Static = {"b"}
    MaxAge = 3
SPECIFICATION FairSpec
INVARIANTS TypeOK AbortsOnlyAfterNewTimeout PacketsConserved SentInOrder
PROPERTIES GivenUpOnlyAfterRetries QueueDrains
CHECK_DEADLOCK FALSE
