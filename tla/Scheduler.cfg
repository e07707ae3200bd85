SPECIFICATION FairSpec
CONSTANTS
    Products = 2
    Chain <- MCChain
    MaxConcurrency = 2
    MaxRetries = 1
    NoRetry = {"load"}
    FaultKinds = {"renew", "acquire", "interrupt", "scheduler", "reserve", "claim", "submit", "quota", "cancel", "poll", "gate"}
    MaxFaults = 2
INVARIANTS
    NeverStuck
    LoadsUnderLease
    NoOverlappingAttempts
    BranchesAreIsolated
PROPERTIES
    LoadsInProductOrder
    EveryPipelineEnds
