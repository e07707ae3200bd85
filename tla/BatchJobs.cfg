SPECIFICATION MCSpec
CONSTANTS
    t1 = t1
    t2 = t2
    t3 = t3
    Main = Main
    Nobody = Nobody
    Unused = Unused
    Inventory <- MCInventory
    Foreign <- MCForeign
    Guards <- MCGuards
    OwnKeys = {1, 3}
    OtherKeys = {0, 4}
    ChunkSize = 2
    MaxTaskFailures = 2
    MaxJobs = 4
    Parts = {1, 2}
    RunIds = {1, 2}
    MaxRuns = 3
    MaxBreaks = 3
    NumTables = 5
    ExtractRequests <- MCExtractRequests
    SizeTiers <- MCSizeTiers
    NumBuckets = 3
    MaxConcurrentRuns = 2
    MaxRetries = 1
    Blocks <- MCBlocks
    TargetBlocks = 3
    MaxGrowth = 2
    Requests <- MCRequests
    Managed <- MCManaged
    MaxLapses = 3
    TextJobs <- MCTextJobs
    LogicalAttempts = 2
    TransportAttempts = 2
    PlanAttempts = {1, 2}
    HandoffJobs <- MCHandoffJobs
    Raws <- MCRaws
    Allowlist = {"a"}
    EngordaProducts <- MCProducts
    EngordaSpecs <- MCSpecs
    RawRows <- MCRawRows
    RawMax <- MCRawMax
    RootTypes <- MCRootTypes
    Orphans = {3}
    Env <- MCEnv
    Uris = {"p", "q"}
    Orders <- MCOrders
    HandCommands <- MCHandCommands
    DefaultPrefix = "MN"
    Moves = 1
    MaxFaults = 2
    MaxLosses = 1
    Registry <- MCRegistry
    Validator <- MCValidator
    CdbProducts <- MCCdb
    Configs <- MCConfigs
    Commands <- MCCommands
    Adoptions <- MCAdoptions
    External <- MCExternal
    MaxPipelines = 3
    MaxAdoptions = 2
    MaxOverlap = 2
    MaxFaulty = 1
    Today = 10
    DefaultTerm = 2
INVARIANTS
    ParentsAreLoaded
    RollbackIsExact
    NothingLost
    OutcomesAreTrue
    EachTableOnce
    ChecksAgree
    SessionIsShared
    HandoffIsSealed
    LineageIsSound
PROPERTY
    RerunsAddNoDuplicate
