\* A policy of up to three lines, or a topology of one or five lines and up to
\* three more, loaded up to twice, with limits low enough to be met: chains of
\* more than one ancestor, lists of more than one rule, contracts of more than
\* one member.
CONSTANTS
    TargetIds = {1, 2, 3}
    DomainIds = {"d", "e"}
    PoolIds = {1}
    ChainDepth = 1
    MaxMembers = 2
    Width = 2
    MaxRules = 1
    MaxWindows = 2
    MaxContract = 1
    MinLease = 1
    MaxSetting = 2
    TopologyLines <- MCTopologyLines
    PolicyLines <- MCPolicyLines
    Drafts <- MCDrafts
    MaxLines = 3
    MaxLoads = 2
    MaxTime = 3
SPECIFICATION Spec
INVARIANT RestartSame
INVARIANT TopologyReloads
INVARIANT RemovalSetExact
INVARIANT PolicyMeansIt
CHECK_DEADLOCK FALSE
