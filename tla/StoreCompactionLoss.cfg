\* Compaction only: acknowledged commits after it.
CONSTANTS
    HardKeys = {a, b}
    SoftKeys = {s, e}
    Volatile = {e}
    BootKey = boot
    MaxVersion = 2
    MaxRecords = 6
    MaxSeq = 6
    Threshold = 2
    MaxKinds = 1
    Faults = {"compact"}
SPECIFICATION Spec
INVARIANT DurableCommits
