CONSTANTS
    Router = {"A", "B", "C"}
    Net = {"dst", "AB", "BC"}
    Attached <- Line
    Dst = "dst"
    InterfaceMetric <- UnitMetric
    LinkDown = 4
    TimeoutDelay = 3
    GarbageCollectionDelay = 2
    Strategy = "poison"
    Flapping <- InterfacesOfA
    MaxEvents = 2
    MaxLosses = 1
    ChannelSize = 2
SPECIFICATION FairSpec
INVARIANTS TypeOK RoutesExpire DirectFirst NeverTooGood
PROPERTY Converges
CHECK_DEADLOCK FALSE
