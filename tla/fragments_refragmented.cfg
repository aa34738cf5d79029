CONSTANTS
    Size <- OnlySeven
    Room <- TwoLinks
    Align = 2
    IdModulus = 1
    MaxDuplicates = 0
SPECIFICATION Spec
INVARIANT GetsEntirePacket
CHECK_DEADLOCK FALSE
