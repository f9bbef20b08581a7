SPECIFICATION Spec
CONSTANTS
    Envs <- CommandLines
    Ins = {1, 2}
    StartTime = 4
    MaxEvents = 5
INVARIANTS
    OnlyTruePairs
    SafePairsReported
    DetailComplete
    NoBug
    MinEvTimeSafe
