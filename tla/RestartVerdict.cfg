\* A second job on the same target, after a restart.
SPECIFICATION Spec
CONSTANTS
    x = x
    y = y
    z = z
    t1 = t1
    t2 = t2
    Targets = {x, y}
    Lease = 2
    Margin = 1
    Units <- OneEach
    Domains <- OneOut
    Pools = {}
    Contracts = {}
    NumJobs = 2
    Removal <- Same
    NeedsDrain = {}
    DependsOn <- NoDeps
    Rank <- ById
    MaxConcurrent = 2
    MaxDrainFailures = 1
    MaxVerify = 2
    MaxRestore = 1
    MaxPasses = 2
    Tickers = {t1}
    LeaseIds = {1, 2}
    MaxGen = 2
    MaxBoot = 2
    MaxPolicy = 1
    Views <- GoodViews
    Remote = TRUE
    Timely = FALSE
    Faults = {}
    Calls = {}
PROPERTY VerdictRecorded
