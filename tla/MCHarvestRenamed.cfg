SPECIFICATION Spec
CONSTANTS
    Procs = {p1, p2}
    Paths = {"a", "b"}
    Plans <- EitherPath
    ProjectIds = {i1}
    PipelineIds = {1}
    JobIds = {j1}
    PerProject = 1
    Concurrency = 2
    MaxPipelines = 2
    MaxProjects = 2
    MaxListPages = 1
    TraceOutcomes = {"analyzed"}
    MaxRuns = 2
    MaxFaults = 0
    NoOne = NoOne
INVARIANT SelectedCountsAreThisRuns
CHECK_DEADLOCK FALSE
