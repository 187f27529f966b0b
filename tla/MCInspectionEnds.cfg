SPECIFICATION FairSpec
CONSTANTS
    h = h
    a = a
    b = b
    k1 = k1
    k2 = k2
    e2 = e2
    Ids = {id1, id2, id3}
    Hosts = {h}
    Tokens = {k1, k2}
    Projects = {a}
    MaxEntries = 2
    MaxProjects = 2
    Requests = {r1, r2, r3}
    Asks <- EndAsks
    Slots = 2
    Configured <- MCConfigured
    CandidateLimit = 5
    Roots = {v1}
    Evidence = {e1}
    RootOnly = {e1}
    Size <- MCSize
    CacheEntries = 1
    CacheBytes = 2
    Ttl = 1
    Partial = Partial
    None = None
    MaxChanges = 0
    MaxForgets = 0
    MaxTime = 0
PROPERTY EveryRequestAnswered
CHECK_DEADLOCK FALSE
