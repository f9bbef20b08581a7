SPECIFICATION FairSpec
CONSTANTS
    BUF_LEN = 8
    SockLen = 2
    Watched = {1}
    Envs <- Streams
    MaxRing = 2
    MaxHangups = 1
INVARIANTS WholeStream LossAccounted OrderTimeSafe FallsBack
PROPERTIES Drains
CHECK_DEADLOCK FALSE
