\* A policy written out: is it the same when it is loaded again?
CONSTANTS
    TargetIds = {1, 2, 3}
    DomainIds = {"d", "e"}
    PoolIds = {1}
    ChainDepth = 1
    MaxMembers = 2
    Width = 2
    MaxRules = 1
    MaxWindows = 2
    MaxContract = 1
    MinLease = 1
    MaxSetting = 2
    TopologyLines <- MCTopologyLines
    PolicyLines <- MCPolicyLines
    Drafts <- MCDrafts
    MaxLines = 3
    MaxLoads = 2
    MaxTime = 3
SPECIFICATION Spec
INVARIANT PolicyReloads
CHECK_DEADLOCK FALSE
