\* stop() while a worker is between taking a connection and registering it.
CONSTANTS
    Conns = {1, 2}
    Posix = FALSE
    Workers = {w1, w2}
    MaxQueued = 1
    Backlog = 2
    MaxStarts = 1
    Ports = {p}
    Apis = {a}
    MaxCalls = 2
    MaxActive = 1
    Cuts = TRUE
SPECIFICATION Spec
INVARIANT ParkedReleased
CHECK_DEADLOCK FALSE
