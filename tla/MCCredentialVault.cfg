SPECIFICATION Spec
CONSTANTS
    t1 = t1
    t2 = t2
    u1 = u1
    p1 = p1
    p2 = p2
    Threads = {t1, t2, u1}
    Process <- TwoProcesses
    Ids = {id1, id2, id3}
    Hosts = {h}
    Tokens = {k1, k2, k3}
    Projects = {a, b, c}
    MaxEntries = 2
    MaxProjects = 2
    MaxCalls = 3
    MaxFaults = 1
    NoOne = NoOne
SYMMETRY Symmetric
INVARIANT AlwaysDecodes
PROPERTY UpdatesAreAtomic
CHECK_DEADLOCK FALSE
