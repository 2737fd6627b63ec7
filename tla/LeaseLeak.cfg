\* The release of a grant nobody wants any more fails once; with MaxBoot = 2 and
\* Remote = TRUE the process dies between the grant of a lease and its record.
SPECIFICATION Spec
CONSTANTS
    x = x
    y = y
    z = z
    t1 = t1
    t2 = t2
    Targets = {x, y}
    Lease = 2
    Margin = 1
    Units <- OneEach
    Domains <- OneOut
    Pools = {}
    Contracts = {}
    NumJobs = 1
    Removal <- Single
    NeedsDrain = {1}
    DependsOn <- NoDep
    Rank <- Only
    MaxConcurrent = 2
    MaxDrainFailures = 1
    MaxVerify = 2
    MaxRestore = 1
    MaxPasses = 2
    Tickers = {t1}
    LeaseIds = {1, 2}
    MaxGen = 2
    MaxBoot = 1
    MaxPolicy = 1
    Views <- GoodViews
    Remote = FALSE
    Timely = FALSE
    Faults = {"release"}
    Calls = {"cancel"}
INVARIANT LeaseAccounted
