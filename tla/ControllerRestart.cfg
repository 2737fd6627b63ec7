\* Two restarts at any moment; the drain service outlives the process.
SPECIFICATION Spec
CONSTANTS
    x = x
    y = y
    z = z
    t1 = t1
    t2 = t2
    Targets = {x, y}
    Lease = 2
    Margin = 1
    Units <- OneEach
    Domains <- OneOut
    Pools = {}
    Contracts <- OneAvailable
    NumJobs = 2
    Removal <- Separate
    NeedsDrain = {1}
    DependsOn <- NoDeps
    Rank <- ById
    MaxConcurrent = 2
    MaxDrainFailures = 1
    MaxVerify = 2
    MaxRestore = 1
    MaxPasses = 2
    Tickers = {t1}
    LeaseIds = {1, 2, 3}
    MaxGen = 2
    MaxBoot = 3
    MaxPolicy = 1
    Views <- DownViews
    Remote = TRUE
    Timely = FALSE
    Faults = {}
    Calls = {}
INVARIANT JointlyTolerable
INVARIANT LedgerSafe
INVARIANT AuthorityIsCurrent
PROPERTY EndsRestoredOrQuarantined
