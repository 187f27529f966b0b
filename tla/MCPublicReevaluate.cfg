SPECIFICATION CorporaSpec
CONSTANTS
    p1 = p1  p2 = p2  r1 = r1  r2 = r2  j1 = j1  NoJob = NoJob
    PublicProcesses = {p1, p2}
    Repositories = {r1, r2}
    Plans <- GivenPlans
    RunIds = {1}
    JobIds = {j1}
    WorkflowOf <- NamedWorkflows
    JobAnswers = {"unavailable"}
    WorkflowAnswers = {"invalid"}
    LogAnswers = {"captured"}
    ConfigAnswers <- Configs
    Verdicts = {"classified"}
    RunsPerRepository = 1
    MaxRepositories = 2
    MaxRetainedRuns = 2
    PublicStarts = 3
    PublicInitialFiles <- Files
    s1 = s1  s2 = s2  t1 = t1  t2 = t2  Blank = Blank
    DatasetProcesses = {p1, p2}
    Sources = {s1, s2}
    Texts = {t1, t2}
    CsvOf <- Csvs
    RowLimit = 4
    MaxStoreRows = 2
    DatasetStarts = 0
SYMMETRY ProcessesAlike
INVARIANT PublicStoreValidates
CHECK_DEADLOCK FALSE
