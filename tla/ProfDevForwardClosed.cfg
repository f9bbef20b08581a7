SPECIFICATION Spec
CONSTANTS
    None = None
    m = m  s = s  s2 = s2  k = k  c1 = c1  c2 = c2  p1 = p1 p2 = p2  p3 = p3
    Devs = {m, s, c1}
    Pids = {p1, p2}
    Top = m
    InitKids <- OneSource
    Forwarded = {s}
    Slots = {c1}
    Traced = {s}
    Attached = {p1}
    Workloads = {p1}
    Caching = {m}
    Limited = {}
    ExitN <- AllTwo
    Stdin = TRUE
    Killable = FALSE
    NrFds = 1
    MaxRing = 2
    MaxSamples = 3
    MaxTicks = 1
INVARIANT NoForwardToClosed
