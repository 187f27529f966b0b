SPECIFICATION Spec
CONSTANTS
    Procs = {p1, p2}
    Paths = {"a", "b"}
    Plans <- OnePath
    ProjectIds = {i1, i2}
    PipelineIds = {1}
    JobIds = {j1}
    PerProject = 1
    Concurrency = 2
    MaxPipelines = 2
    MaxProjects = 1
    MaxListPages = 1
    TraceOutcomes = {"analyzed"}
    MaxRuns = 2
    MaxFaults = 0
    NoOne = NoOne
INVARIANT DocumentedProjectCap
CHECK_DEADLOCK FALSE
