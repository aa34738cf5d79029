CONSTANTS
    Node <- RingNode
    NDevices <- RingNDevices
    Loopback <- RingNDevices
    Link <- RingLink
    DstPort <- RingDstPort
    Src = 3
    Dst = 4
    Forwarding <- RingNode
    NextHops <- ShortestNextHops
    Algorithm = "bfs"
    RandomEcmpRouting = FALSE
    RespondToInterfaceEvents = FALSE
    InitialTtl = 8
    Query = {"packet", "null"}
    MaxEvents = 4
    NumberOfSwitches = 4
SPECIFICATION Spec
PROPERTY BfsDetourAbortsOnlyAfterLoopback
CHECK_DEADLOCK FALSE
