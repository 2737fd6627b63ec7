\* One command line in both modes: the same exit code and the same effect?
CONSTANTS
    Commands <- MCCommands
    NameLength = 6
    TitleLength = 8
    ReasonLength = 10
    DetailLength = 12
    MaxTargets = 2
    MaxDeps = 1
    MaxText = 4
    MaxBody = 8
    MaxListed = 6
    Sizes = {1, 5, 7, 9}
SPECIFICATION Spec
INVARIANT Identical
CHECK_DEADLOCK FALSE
