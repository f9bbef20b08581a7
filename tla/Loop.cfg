SPECIFICATION LoopSpec
CONSTANTS
    Timers = {t1, t2}
    Fds = {f1, f2}
    Addrs = {a1, a2}
    NULL = NULL
    maxevents = 2
    max_exp_once = 1
    MaxTicks = 2
    Opened = {1, 2}
    Initial = {1}
    Pids = {1, 2, 3}
    Workloads = {TRUE, FALSE}
    MaxTraps = 1
    MaxKills = 1
CHECK_DEADLOCK FALSE
INVARIANTS
    NoUseAfterFree
    NodesSafe
    RunsWithDevices
    StoppedForFork
PROPERTIES
    NoLateCall
    TimerFires
    DetachDone
