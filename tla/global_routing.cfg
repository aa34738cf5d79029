CONSTANTS
    Node <- DiamondNode
    NDevices <- DiamondNDevices
    Loopback <- DiamondNDevices
    Link <- DiamondLink
    DstPort <- DiamondDstPort
    Src = 4
    Dst = 5
    Forwarding <- WithoutTwo
    NextHops <- ShortestNextHops
    Algorithm = "global"
    RandomEcmpRouting = TRUE
    RespondToInterfaceEvents = TRUE
    InitialTtl = 8
    Query = {"packet"}
    MaxEvents = 4
    NumberOfSwitches = 4
SPECIFICATION FairSpec
PROPERTIES PacketMeetsItsEnd ForwardsDatagrams
CHECK_DEADLOCK FALSE
