SPECIFICATION Spec
CONSTANTS
    ExtractCalls <- MCExtractCalls
    RecommendCalls <- MCRecommendCalls
    DistanceCalls <- MCDistanceCalls
    Paths <- MCPaths
    SymbolOf <- MCSymbolOf
    TimestampCalls <- MCTimestampCalls
    ClockCalls <- MCClockCalls
    AssociationCalls <- MCAssociationCalls
    SeedLimit = 2
    SessionCalls <- MCSessionCalls
    Timeout = 2
    Grace = 1
    OutputLimit = 2
    QueueLimit = 1
    PipeRoom = 1
    MaxLines = 3
    SyncCalls <- MCSyncCalls
    RefCalls <- MCRefCalls
    Packages <- MCPackages
    MaxVisited = 5
    CacheCalls <- MCCacheCalls
    Writers <- MCWriters
    CacheKeep = 1
    DeadTempAge = 1
    StaleTempAge = 2
    MaxTime = 2
    MaxRestarts = 1
    StateCalls <- MCStateCalls
    RivalNodes <- MCRivalNodes
    FamilyCalls <- MCFamilyCalls
    Branches <- MCBranches
    GitCommits <- MCGitCommits
    LegacyStem <- MCLegacyStem
    DetachedStem <- MCDetachedStem
    MaxFamilyOps = 5
    PolicyCalls <- MCPolicyCalls
    Window = 1
    MaxReal = 7
    EvaluationCalls <- MCEvaluationCalls
    EvalVariants <- MCEvalVariants
    LiveCalls <- MCLiveCalls
    LiveVariants <- MCLiveVariants
    MaintainCalls <- MCMaintainCalls
    AskCalls <- MCAskCalls
    QueryCalls <- MCQueryCalls
    Ceiling = 8
    RankUnit = 6
    TreeCalls <- MCTreeCalls
    StatusCalls <- MCStatusCalls
    CompareCalls <- MCCompareCalls
    DirtyCap = 1
    MaxBlob = 1
CHECK_DEADLOCK FALSE
INVARIANTS
    ChangesAreAttributed
    ReplayIsExact
    RecommendationsAreGrounded
    CallsAreContained
    DeliveriesAreProven
    RefsAreScoped
    StateFilesAreSafe
    DatabasesAreTheirOwn
    EvaluationsAreFair
    ToolsAreHonest
    SidesAreFaithful
