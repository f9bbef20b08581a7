SPECIFICATION FairSpec
CONSTANTS
    Maps = {m1, m2}
    Streams = {}
    RingSize = 4
    Watermark = 2
    MaxClock = 3
    MaxNest = 1
    MaxOther = 1
    MaxStream = 0
    MaxTick = 0
    MayDisable = TRUE
    NoMap = NoMap
CHECK_DEADLOCK FALSE
INVARIANTS
    NeverUnordered
    SpaceSafe
    ExactlyOnce
    FinalFlush
PROPERTIES
    Drained
