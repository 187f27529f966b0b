SPECIFICATION Spec
CONSTANTS
    plain = plain
    cut = cut
    small = small
    large = large
    Threads = {t1, t2}
    Projects = {p1, p2, p3}
    Labels = {plain, cut}
    RawLabel <- MCRawLabel
    Sanitizers <- MCSanitizers
    Bodies = {small, large}
    Size <- MCSize
    MaxProjects = 2
    MaxEntries = 3
    MaxFileBytes = 4
    MaxCalls = 4
    MaxFaults = 1
    None = None
SYMMETRY Symmetric
INVARIANT SavedDocumentLoads
PROPERTY OldestGoFirst
CHECK_DEADLOCK FALSE
