\* Crashes and restarts with every fault: compaction, a failing rename, a short
\* write or a failing flush, one kind of them in a behaviour.
CONSTANTS
    HardKeys = {a}
    SoftKeys = {s, e}
    Volatile = {e}
    BootKey = boot
    MaxVersion = 2
    MaxRecords = 5
    MaxSeq = 5
    Threshold = 2
    MaxKinds = 1
    Faults = {"compact", "rename", "torn", "fflush", "fsync"}
SPECIFICATION Spec
INVARIANT CommitsSurvive
INVARIANT MemoryMatchesJournal
INVARIANT PrefixRecovery
PROPERTY EpochNeverReused
