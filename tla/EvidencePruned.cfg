\* A pruning between an observation and a restart: is valid evidence still there?
CONSTANTS
    Targets = {1, 2}
    Authored = {1}
    Agents = {1}
    Durable = TRUE
    Capacity = 2
    Ttl = 1
    Skew = 1
    Ahead = 1
    MaxTime = 2
    MaxRevision = 1
    MaxRounds = 2
    Threshold = 3
    MaxBoot = 2
SPECIFICATION Spec
CHECK_DEADLOCK FALSE
INVARIANT RestartKeepsValid
