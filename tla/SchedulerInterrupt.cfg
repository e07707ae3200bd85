SPECIFICATION Spec
CONSTANTS
    Products = 2
    Chain <- MCChain
    MaxConcurrency = 2
    MaxRetries = 1
    NoRetry = {"load"}
    FaultKinds = {"interrupt"}
    MaxFaults = 1
INVARIANT
    InterruptCancelsRuns
