CONSTANTS
    Host = {"a", "b"}
    Packet = {1, 2}
    From <- Source
    To <- Destination
    MAX_MULTICAST_SOLICIT = 1
    MAX_UNICAST_SOLICIT = 2
    UnresQlen = 2
    MaxInFlight = 1
    MaxEvents = 1
SPECIFICATION FairSpec
INVARIANTS TypeOK RetransmitHasPacket PacketsConserved OnlyNewsStrandsPackets
PROPERTIES GivenUpOnlyAfterSolicits DoubtEnds
CHECK_DEADLOCK FALSE
