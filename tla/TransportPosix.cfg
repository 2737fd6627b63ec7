\* A platform where sending on a socket that was shut down raises SIGPIPE.
CONSTANTS
    Conns = {1, 2}
    Posix = TRUE
    Workers = {w1, w2}
    MaxQueued = 1
    Backlog = 2
    MaxStarts = 1
    Ports = {p}
    Apis = {a}
    MaxCalls = 2
    MaxActive = 1
    Cuts = TRUE
SPECIFICATION Spec
PROPERTY QueuedIsServed
CHECK_DEADLOCK FALSE
