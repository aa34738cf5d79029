CONSTANTS
    Node <- DiamondNode
    NDevices <- DiamondNDevices
    Loopback <- DiamondNDevices
    Link <- DiamondLink
    DstPort <- DiamondDstPort
    Src = 4
    Dst = 5
    Forwarding <- DiamondNode
    NextHops <- ShortestNextHops
    Algorithm = "bfs"
    RandomEcmpRouting = FALSE
    RespondToInterfaceEvents = FALSE
    InitialTtl = 6
    Query = {"packet"}
    MaxEvents = 0
    NumberOfSwitches = 4
SPECIFICATION Spec
INVARIANT WorkingRouteForwards
CHECK_DEADLOCK FALSE
