SPECIFICATION FairSpec
CONSTANTS
    Procs = {p1, p2}
    Paths = {"a", "b"}
    Plans <- OnePath
    ProjectIds = {1}
    PipelineIds = {1, 2}
    JobIds = {1, 2}
    PerProject = 2
    Concurrency = 2
    MaxPipelines = 2
    MaxProjects = 2
    MaxListPages = 2
    TraceOutcomes = {"analyzed"}
    MaxRuns = 1
    MaxFaults = 1
    NoOne = NoOne
PROPERTY RunsEnd
CHECK_DEADLOCK FALSE
