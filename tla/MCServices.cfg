SPECIFICATION MCSpec
CONSTANTS
    N = 2
    Signals = {2, 15}
    Codes <- MCCodes
    None = None
    MaxTurns = 4
    MaxToolCalls = 3
    MaxSourceReads = 1
    MaxContextChars = 2
    CallsPerReply = 2
    MaxCited = 2
    Paths = {"main", "ci", "secret", "other"}
    KnownPaths = {"main", "ci", "secret"}
    BundledPaths = {"ci"}
    ModifiedPaths = {"secret"}
    Content <- MCContent
    Patches <- MCPatches
    ToolEvidence <- MCToolEvidence
    NoPatch = NoPatch
    Incidents = {"j1", "j2"}
    IncidentRequests = {"pipe", "queued"}
    JobsOf <- MCJobsOf
    Deliveries = {"queued"}
    Alike <- MCAlike
    MaxRetries = 2
    MaxCrashes = 1
    Feedbacks <- MCFeedbacks
    NoText = NoText
    NoRow = NoRow
    Files = {"r", "a", "b", "w", "x", "y", "z"}
    RootFile = "r"
    Entries <- MCEntries
    Remote = {"w", "y"}
    Misses <- MCMisses
    Pinned = {"y", "z"}
    Branched = {"w", "x"}
    Declarations <- MCDeclarations
    Troubles <- MCTroubles
    FileLimits = {0, 1, 3, 4}
    MaxIncludeDepth = 2
    RefCandidates = 2
    Parallel = 2
    Jobs = {"a", "b", "c", "d"}
    Listing <- MCListing
    RetryOf <- MCRetryOf
    ByInterest <- MCByInterest
    AllowedToFail = {"b"}
    Pipelines <- MCPipelines
    References <- MCReferences
    MaxJobs = {2}
    NoRun = "norun"
    NoJob = "nojob"
    RepairPaths = {"data", "vault", "manifest", "yaml", "ci", "load", "job", "code"}
    PathOrder <- MCPathOrder
    DataConfigs = {"data", "vault"}
    Manifests = {"manifest"}
    Scripts = {"yaml", "ci", "load", "job"}
    Yamls = {"yaml", "ci"}
    Sharp = {"code"}
    Wrong = {"data", "vault", "manifest", "yaml", "ci", "load", "job"}
    Secrets <- MCSecrets
    RepairResults <- MCRepairResults
    MaxResults = 3
    MaxRemediations = 3
    MaxCandidateReads = 3
    MaxConcurrentReads = 2
INVARIANTS
    ServicesTypeOK
    NoServiceLeft
    NeverSuccess
    CitesOnlyIssued
    KeptPatchIsExact
    AnswerMeansSaved
    CompleteIsExact
    PassedIsProven
    TracesWellSpent
    SuccessNotOverridden
    ProposalsAreExact
    LacksAreNamed
PROPERTIES
    SignalIsHonoured
    OneEndStopsAll
    FeedbackKept
    EveryTaskEnds
CHECK_DEADLOCK FALSE
