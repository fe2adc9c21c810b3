CONSTANTS
    Jobs = {1, 2}
    RepoOf <- MCRepoOf
    Priority <- MCPriority
    CronWorkers = {c1}
    InlineWorkers = {i1}
    Lease = 3
    KillAfter = 1
    MaxAttempts = 2
    MaxLag = 1
    Window = 2
    Outcomes = {"done"}
SPECIFICATION Spec
INVARIANT OneScanPerRepo
