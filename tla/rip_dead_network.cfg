CONSTANTS
    Router = {"A", "B"}
    Net = {"dst", "AB"}
    Attached <- Pair
    Dst = "dst"
    InterfaceMetric <- UnitMetric
    LinkDown = 4
    TimeoutDelay = 3
    GarbageCollectionDelay = 2
    Strategy = "poison"
    Flapping <- InterfacesOfA
    MaxEvents = 1
    MaxLosses = 0
    ChannelSize = 2
SPECIFICATION Spec
INVARIANT ValidIsReachable
CHECK_DEADLOCK FALSE
