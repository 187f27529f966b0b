SPECIFICATION Spec
CONSTANTS
    Procs = {p1, p2}
    Paths = {"a", "b"}
    Plans <- OnePath
    ProjectIds = {i1, i2}
    PipelineIds = {1, 2}
    JobIds = {j1}
    PerProject = 2
    Concurrency = 2
    MaxPipelines = 2
    MaxProjects = 1
    MaxListPages = 2
    TraceOutcomes = {"analyzed"}
    MaxRuns = 3
    MaxFaults = 1
    NoOne = NoOne
SYMMETRY Symmetric
INVARIANTS StoreValidates FinishedMeansFinished StopsAreNotObservations
PROPERTIES NoRequestAfterRateLimit ObservationsAccumulate
CHECK_DEADLOCK FALSE
