\* The process dies between a release and its record.
SPECIFICATION FairSpec
CONSTANTS
    x = x
    y = y
    z = z
    t1 = t1
    t2 = t2
    Targets = {x, y}
    Lease = 2
    Margin = 1
    Units <- OneEach
    Domains <- OneOut
    Pools = {}
    Contracts = {}
    NumJobs = 1
    Removal <- Single
    NeedsDrain = {1}
    DependsOn <- NoDep
    Rank <- Only
    MaxConcurrent = 2
    MaxDrainFailures = 1
    MaxVerify = 2
    MaxRestore = 1
    MaxPasses = 2
    Tickers = {t1}
    LeaseIds = {1, 2}
    MaxGen = 2
    MaxBoot = 2
    MaxPolicy = 1
    Views <- GoodViews
    Remote = TRUE
    Timely = FALSE
    Faults = {}
    Calls = {}
PROPERTY RemovalEnds
