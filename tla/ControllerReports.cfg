\* One job on two targets, every report, a drain service that loses answers and drains late.
SPECIFICATION Spec
CONSTANTS
    x = x
    y = y
    z = z
    t1 = t1
    t2 = t2
    Targets = {x, y}
    Lease = 2
    Margin = 1
    Units <- OneEach
    Domains = {}
    Pools = {}
    Contracts = {}
    NumJobs = 1
    Removal <- SingleTwo
    NeedsDrain = {1}
    DependsOn <- NoDep
    Rank <- Only
    MaxConcurrent = 2
    MaxDrainFailures = 2
    MaxVerify = 2
    MaxRestore = 1
    MaxPasses = 2
    Tickers = {t1}
    LeaseIds = {1, 2}
    MaxGen = 2
    MaxBoot = 1
    MaxPolicy = 1
    Views <- AllViews
    Remote = TRUE
    Timely = FALSE
    Faults = {"lost", "release", "draining", "full"}
    Calls = {"restoration", "failure", "abort", "quarantine", "unknown", "cancel"}
INVARIANT DrainHeld
PROPERTY EndsRestoredOrQuarantined
PROPERTY StartIsJustified
