CONSTANTS
    Writes <- SingleBytes
    ReadSizes = {2}
    SegmentSize = 3
    SndBufSize = 3
    RcvBufSize = 3
    Windows = {3}
    ReTxThreshold = 2
    DataRetries = 2
    DelAckMaxCount = 2
    Options <- AllOrNone
    MaxInFlight = 2
SPECIFICATION FairSpec
INVARIANTS TypeOK StreamInOrder HeldWithinBuffer
PROPERTIES TransferEnds CarriesStream
CHECK_DEADLOCK FALSE
