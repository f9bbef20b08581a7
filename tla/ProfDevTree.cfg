SPECIFICATION Spec
CONSTANTS
    None = None
    m = m  s = s  s2 = s2  k = k  c1 = c1  c2 = c2  p1 = p1 p2 = p2  p3 = p3
    Devs = {m, k, s, c1, c2}
    Pids = {p1, p2}
    Top = m
    InitKids <- KidAndSource
    Forwarded = {s}
    Slots = {c1, c2}
    Traced = {k, s}
    Attached = {p1}
    Workloads = {None}
    Caching = {m}
    Limited = {}
    ExitN <- NoLimit
    Stdin = TRUE
    Killable = FALSE
    NrFds = 1
    MaxRing = 1
    MaxSamples = 2
    MaxTicks = 1
INVARIANTS NoUseAfterFree FlushedBeforeFree ListsAgree
PROPERTY Stops
