\* Both jobs drain; the port of the new incarnation numbers its leases anew.
SPECIFICATION Spec
CONSTANTS
    x = x
    y = y
    z = z
    t1 = t1
    t2 = t2
    Targets = {x, y}
    Lease = 2
    Margin = 1
    Units <- OneEach
    Domains = {}
    Pools = {}
    Contracts = {}
    NumJobs = 2
    Removal <- Separate
    NeedsDrain = {1, 2}
    DependsOn <- NoDeps
    Rank <- ById
    MaxConcurrent = 2
    MaxDrainFailures = 1
    MaxVerify = 2
    MaxRestore = 1
    MaxPasses = 2
    Tickers = {t1}
    LeaseIds = {1, 2, 3}
    MaxGen = 2
    MaxBoot = 2
    MaxPolicy = 1
    Views <- GoodViews
    Remote = FALSE
    Timely = FALSE
    Faults = {}
    Calls = {}
PROPERTY StartIsJustified
