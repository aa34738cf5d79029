CONSTANTS
    Size <- SixAndSeven
    Room <- TwoLinks
    Align = 2
    IdModulus = 1
    MaxDuplicates = 1
SPECIFICATION FairSpec
INVARIANTS TypeOK FragmentsInPlace DeliveredIntact NothingHeldBack SizeWrapsOnlyIfMixed TimerPerReassembly
PROPERTY ReassemblyEnds
CHECK_DEADLOCK FALSE
