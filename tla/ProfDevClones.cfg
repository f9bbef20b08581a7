SPECIFICATION Spec
CONSTANTS
    None = None
    m = m  s = s  s2 = s2  k = k  c1 = c1  c2 = c2  p1 = p1 p2 = p2  p3 = p3
    Devs = {m, c1, c2}
    Pids = {p1, p2, p3}
    Top = m
    InitKids <- NoKids
    Forwarded = {}
    Slots = {c1, c2}
    Traced = {m}
    Attached = {p1}
    Workloads = {p1, None}
    Caching = {}
    Limited = {m}
    ExitN <- AllTwo
    Stdin = FALSE
    Killable = FALSE
    NrFds = 1
    MaxRing = 1
    MaxSamples = 2
    MaxTicks = 1
INVARIANT ClosedIsQuiet
