CONSTANTS
    Node <- DiamondNode
    NDevices <- DiamondNDevices
    Loopback <- DiamondNDevices
    Link <- DiamondLink
    DstPort <- DiamondDstPort
    Src = 4
    Dst = 5
    Forwarding <- DiamondNode
    NextHops <- ShortestNextHops
    Algorithm = "dfs"
    RandomEcmpRouting = FALSE
    RespondToInterfaceEvents = FALSE
    InitialTtl = 16
    Query = {"packet"}
    MaxEvents = 4
    NumberOfSwitches = 4
SPECIFICATION ObservedFairSpec
INVARIANTS TypeOK TagNamesLinks DfsAbortsOnlyWithoutParent ParentsFormTree DetourFindsPath
PROPERTIES ParentFixed DetourLossOnlyTowardsParent PacketMeetsItsEnd
CHECK_DEADLOCK FALSE
