\* max_concurrent_jobs is one.
SPECIFICATION Spec
CONSTANTS
    x = x
    y = y
    z = z
    t1 = t1
    t2 = t2
    Targets = {x, y}
    Lease = 2
    Margin = 1
    Units <- OneEach
    Domains = {}
    Pools = {}
    Contracts = {}
    NumJobs = 2
    Removal <- Separate
    NeedsDrain = {}
    DependsOn <- NoDeps
    Rank <- ById
    MaxConcurrent = 1
    MaxDrainFailures = 1
    MaxVerify = 2
    MaxRestore = 1
    MaxPasses = 2
    Tickers = {t1}
    LeaseIds = {1, 2}
    MaxGen = 2
    MaxBoot = 1
    MaxPolicy = 1
    Views <- GoodViews
    Remote = FALSE
    Timely = FALSE
    Faults = {}
    Calls = {}
INVARIANT ConcurrencyBound
