\* Two jobs that compete, a third that waits for the first, and a restart.
SPECIFICATION FairSpec
CONSTANTS
    x = x
    y = y
    z = z
    t1 = t1
    t2 = t2
    Targets = {x, y, z}
    Lease = 2
    Margin = 1
    Units <- Units3
    Domains <- OneOut
    Pools = {}
    Contracts = {}
    NumJobs = 3
    Removal <- Third
    NeedsDrain = {1}
    DependsOn <- Follows
    Rank <- LastFirst
    MaxConcurrent = 2
    MaxDrainFailures = 1
    MaxVerify = 2
    MaxRestore = 1
    MaxPasses = 2
    Tickers = {t1}
    LeaseIds = {1, 2}
    MaxGen = 2
    MaxBoot = 2
    MaxPolicy = 1
    Views <- GoodViews3
    Remote = FALSE
    Timely = TRUE
    Faults = {}
    Calls = {}
PROPERTY ApprovedEnds
PROPERTY RemovalEnds
PROPERTY StartIsJustified
