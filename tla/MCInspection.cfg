SPECIFICATION Spec
CONSTANTS
    h = h
    a = a
    b = b
    k1 = k1
    k2 = k2
    e2 = e2
    Ids = {id1, id2, id3}
    Hosts = {h}
    Tokens = {k1, k2}
    Projects = {a, b}
    MaxEntries = 2
    MaxProjects = 2
    Requests = {r1, r2}
    Asks <- MCAsks
    Slots = 2
    Configured <- MCConfigured
    CandidateLimit = 5
    Roots = {v1, v2}
    Evidence = {e1, e2}
    RootOnly = {e1, e2}
    Size <- MCSize
    CacheEntries = 1
    CacheBytes = 2
    Ttl = 1
    Partial = Partial
    None = None
    MaxChanges = 1
    MaxForgets = 1
    MaxTime = 1
SYMMETRY Symmetric
INVARIANTS TypeOK CacheSound AssociationsVerified
PROPERTIES CachedAnswersAreOwn SavedOnlyOnRequest
CHECK_DEADLOCK FALSE
