SPECIFICATION Spec
CONSTANTS
    Maps = {m1, m2}
    Streams = {s1}
    RingSize = 4
    Watermark = 2
    MaxClock = 4
    MaxNest = 0
    MaxOther = 0
    MaxStream = 3
    MaxTick = 1
    MayDisable = FALSE
    NoMap = NoMap
SYMMETRY Symmetry
CHECK_DEADLOCK FALSE
INVARIANTS
    CausalOrder
