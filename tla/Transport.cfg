\* Two workers, a queue of one, a drain port or an API client, two connections.
CONSTANTS
    Conns = {1, 2}
    Posix = FALSE
    Workers = {w1, w2}
    MaxQueued = 1
    Backlog = 2
    MaxStarts = 1
    Ports = {p}
    Apis = {a}
    MaxCalls = 2
    MaxActive = 1
    Cuts = TRUE
SPECIFICATION MCSpec
INVARIANT OwnAnswer
INVARIANT OneHolder
PROPERTY CleanStream
PROPERTY ServiceKept
PROPERTY QueuedIsServed
CHECK_DEADLOCK FALSE
