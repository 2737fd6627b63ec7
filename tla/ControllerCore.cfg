\* Two jobs, one of which may be out at a time; operators cancel, re-arm and change the policy.
SPECIFICATION Spec
CONSTANTS
    x = x
    y = y
    z = z
    t1 = t1
    t2 = t2
    Targets = {x, y}
    Lease = 2
    Margin = 1
    Units <- OneEach
    Domains <- OneOut
    Pools <- OneServing
    Contracts = {}
    NumJobs = 2
    Removal <- Separate
    NeedsDrain = {1}
    DependsOn <- NoDeps
    Rank <- ById
    MaxConcurrent = 2
    MaxDrainFailures = 1
    MaxVerify = 1
    MaxRestore = 1
    MaxPasses = 2
    Tickers = {t1}
    LeaseIds = {1, 2}
    MaxGen = 2
    MaxBoot = 1
    MaxPolicy = 2
    Views <- AllViews
    Remote = FALSE
    Timely = FALSE
    Faults = {"refuse", "append"}
    Calls = {"cancel", "rearm", "policy"}
INVARIANT TypeOK
INVARIANT JointlyTolerable
INVARIANT LedgerSafe
INVARIANT DrainHeld
INVARIANT LeaseAccounted
INVARIANT NamedLeaseOnRecord
INVARIANT AuthorityIsCurrent
PROPERTY LifecycleRespected
PROPERTY StartIsJustified
