SPECIFICATION Spec
CONSTANTS
    Maps = {m1, m2}
    Streams = {}
    RingSize = 4
    Watermark = 2
    MaxClock = 4
    MaxNest = 0
    MaxOther = 0
    MaxStream = 0
    MaxTick = 0
    MayDisable = FALSE
    NoMap = NoMap
SYMMETRY Symmetry
CHECK_DEADLOCK FALSE
INVARIANTS
    OnlyDelayedFixed
