\* Shutdown with two tickers; the second job depends on the first.
SPECIFICATION FairSpec
CONSTANTS
    x = x
    y = y
    z = z
    t1 = t1
    t2 = t2
    Targets = {x, y}
    Lease = 2
    Margin = 1
    Units <- OneEach
    Domains = {}
    Pools = {}
    Contracts = {}
    NumJobs = 2
    Removal <- Separate
    NeedsDrain = {1}
    DependsOn <- Chained
    Rank <- ById
    MaxConcurrent = 2
    MaxDrainFailures = 1
    MaxVerify = 2
    MaxRestore = 1
    MaxPasses = 2
    Tickers = {t1, t2}
    LeaseIds = {1, 2}
    MaxGen = 2
    MaxBoot = 1
    MaxPolicy = 1
    Views <- GoodViews
    Remote = FALSE
    Timely = FALSE
    Faults = {}
    Calls = {"shutdown", "cancel"}
PROPERTY StartIsJustified
PROPERTY Quiesces
CHECK_DEADLOCK FALSE
