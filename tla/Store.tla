-------------------------------- MODULE Store --------------------------------
(***************************************************************************)
(* The persistent store: in-memory tables (src/store/store.cpp) over an    *)
(* append-only journal of checksummed, sequence-numbered frames            *)
(* (src/store/journal.cpp), with replay at open, a boot record per         *)
(* incarnation, compaction, and the machine crashing at any moment.        *)
(*                                                                         *)
(* Data: a table row is a key whose content is a version number, 0 for a   *)
(* row that does not exist.  Hard keys are the rows written through        *)
(* append_and_apply, which flushes (jobs, topology, policy); soft keys are *)
(* the rows appended without a flush (evidence, authority, leases,         *)
(* quarantines).  A frame holds the rows one append wrote.                 *)
(***************************************************************************)
EXTENDS Naturals, Sequences, FiniteSets, Functions

CONSTANTS
    HardKeys,    \* rows whose commit appends and flushes
    SoftKeys,    \* rows whose commit only appends
    Volatile,    \* those of them that hold evidence which expires
    BootKey,     \* the boot epoch record
    MaxVersion,  \* bound on the versions of a row (and on boot epochs)
    MaxRecords,  \* JournalOptions::max_records
    MaxSeq,      \* bound on the sequence numbers one journal hands out
    Threshold,   \* StoreOptions::compaction_threshold
    Faults,      \* subset of AllFaults: what this instance lets happen
    MaxKinds     \* bound on the kinds of fault one behaviour meets

AllFaults == {"compact", "rename", "torn", "fflush", "fsync"}

ASSUME StoreAssumption ==
    /\ BootKey \notin HardKeys \cup SoftKeys
    /\ HardKeys \cap SoftKeys = {} /\ IsFiniteSet(HardKeys \cup SoftKeys)
    /\ Volatile \subseteq SoftKeys
    /\ MaxVersion \in Nat /\ MaxRecords \in Nat /\ MaxSeq \in Nat
    /\ Threshold \in Nat /\ MaxKinds \in Nat
    /\ Faults \subseteq AllFaults

Keys == HardKeys \cup SoftKeys \cup {BootKey}
Version == 0 .. MaxVersion
Empty == [k \in Keys |-> 0]

VARIABLES
    proc,     \* "down" | "replayed" | "up" | "wedged"
    file,     \* the frames after the header, in file order
    synced,   \* how many of them the last flush made durable
    nextSeq,  \* Journal::next_seq_
    records,  \* Journal::records_
    mem,      \* PersistedState
    acked,    \* history: newest version of each hard key reported committed
    claimed,  \* history: newest boot epoch an incarnation has run under
    past,     \* history: every image of the tables the store has exposed
    met       \* history: the faults that have happened

vars == <<proc, file, synced, nextSeq, records, mem, acked, claimed, past, met>>

-----------------------------------------------------------------------------
(* The journal.                                                            *)

\* A frame: its sequence number, whether all its bytes were written, and the
\* rows it sets.
Frame(n, w, rows) == [seq |-> n, whole |-> w, rows |-> rows]

\* Replay accepts the longest run of frames that are complete and numbered
\* consecutively from 1; the first other frame ends it.
Accepted(f) ==
    {n \in 0 .. Len(f) : \A i \in 1 .. n : f[i].whole /\ f[i].seq = i}
Replayable(f) == CHOOSE n \in Accepted(f) : \A m \in Accepted(f) : m <= n

\* The tables after the first n frames were applied: each row as its last
\* frame left it.
Writers(f, n, k) == {i \in 1 .. n : k \in DOMAIN f[i].rows}
Image(f, n) ==
    [k \in Keys |->
        IF Writers(f, n, k) = {} THEN 0
        ELSE f[CHOOSE i \in Writers(f, n, k) :
                  \A m \in Writers(f, n, k) : m <= i].rows[k]]
Recovered(f) == Image(f, Replayable(f))

Updated(rows) == [k \in Keys |-> IF k \in DOMAIN rows THEN rows[k] ELSE mem[k]]

\* JobTable::put accepts only the successor of the stored revision.
Bump(ks) == [k \in ks |-> mem[k] + 1]

\* What compact() writes of the given rows: one frame per existing row, numbered
\* from 1, in the order in which the tables list their rows.
Row(k, v) == [x \in {k} |-> v]
Listing(ks) == CHOOSE f \in Bijection(1 .. Cardinality(ks), ks) : TRUE
SnapshotOf(ks) ==
    LET held == {k \in ks : mem[k] # 0}
        rows == Listing(held)
    IN  [i \in 1 .. Cardinality(held) |-> Frame(i, TRUE, Row(rows[i], mem[rows[i]]))]

\* The rows compact() writes: all but the volatile evidence that has expired.
WrittenHard(expired) == Keys \ SoftKeys
WrittenWithoutBoot(expired) == Keys \ (expired \cup {BootKey})
Written(expired) == Keys \ expired
-----------------------------------------------------------------------------
Init ==
    /\ proc = "down" /\ file = <<>> /\ synced = 0 /\ nextSeq = 1 /\ records = 0
    /\ mem = Empty
    /\ acked = [k \in HardKeys |-> 0] /\ claimed = 0 /\ past = {Empty}
    /\ met = {}

\* next_seq_ after a replay that accepted n frames.
SeqAfterLast(n) == IF n = 0 THEN 1 ELSE n
SeqAfter(n) == n + 1

\* Store::open: replay, cut the file after the last accepted frame (truncate
\* and sync), and continue numbering from there.
Open ==
    /\ proc = "down"
    /\ LET n == Replayable(file) IN
        /\ file' = SubSeq(file, 1, n)
        /\ synced' = n
        /\ nextSeq' = SeqAfter(n) /\ records' = n
        /\ mem' = Image(file, n)
    /\ past' = past \cup {mem'}
    /\ proc' = "replayed"
    /\ UNCHANGED <<acked, claimed, met>>

\* A complete frame reaches the file; flushed says whether an fsync follows.
\* Refused when the journal is at its record bound.
write_frame_unsynced(rows, flushed) ==
    /\ records < MaxRecords
    /\ nextSeq <= MaxSeq
    /\ file' = Append(file, Frame(nextSeq, TRUE, rows))
    /\ nextSeq' = nextSeq + 1 /\ records' = records + 1
    /\ synced' = synced
write_frame(rows, flushed) ==
    /\ records < MaxRecords
    /\ nextSeq <= MaxSeq
    /\ file' = Append(file, Frame(nextSeq, TRUE, rows))
    /\ nextSeq' = nextSeq + 1 /\ records' = records + 1
    /\ synced' = IF flushed THEN Len(file) + 1 ELSE synced

\* An instance that has this fault meets it now.
Meets(f) ==
    /\ f \in Faults
    /\ met' = met \cup {f}
    /\ Cardinality(met') <= MaxKinds

\* The tables take a new value.
Expose(image) == mem' = image /\ past' = past \cup {image}

\* The record goes in and is flushed before the incarnation exists.
begin_incarnation ==
    /\ proc = "replayed"
    /\ mem[BootKey] < MaxVersion
    /\ write_frame(Bump({BootKey}), TRUE)
    /\ Expose(Updated(Bump({BootKey})))
    /\ claimed' = mem'[BootKey]
    /\ proc' = "up"
    /\ UNCHANGED <<acked, met>>

\* The record is written and its flush fails: the daemon gives up, and the
\* record may stay.
begin_incarnation_fails ==
    /\ Meets("fsync") /\ proc = "replayed"
    /\ mem[BootKey] < MaxVersion
    /\ records < MaxRecords
    /\ file' = Append(file, Frame(nextSeq, TRUE, Bump({BootKey})))
    /\ proc' = "down"
    /\ mem' = Empty /\ nextSeq' = 1 /\ records' = 0
    /\ UNCHANGED <<synced, acked, claimed, past>>

\* commit_job, commit_jobs, create_job, commit_topology, commit_policy: the
\* rows of one call are one frame, flushed before the caller is told.
commit_jobs(ks) ==
    /\ proc = "up"
    /\ \A k \in ks : mem[k] < MaxVersion
    /\ write_frame(Bump(ks), TRUE)
    /\ Expose(Updated(Bump(ks)))
    /\ acked' = [k \in HardKeys |-> mem'[k]]
    /\ UNCHANGED <<proc, claimed, met>>

\* The fsync fails after the frame was handed to the system: the caller is told
\* so and the tables are rolled back, but the frame stays and next_seq_ has
\* advanced.  (A later fsync that succeeds is taken to cover it.)
commit_jobs_fsync_fails(ks) ==
    /\ Meets("fsync") /\ proc = "up"
    /\ \A k \in ks : mem[k] < MaxVersion
    /\ write_frame(Bump(ks), FALSE)
    /\ UNCHANGED <<proc, mem, acked, claimed, past>>

\* The fflush fails: of the frames written since the last flush, this one
\* included, any number may have reached the file, and part of the next; the
\* rest is gone with the buffer.  next_seq_ and records_ have counted them all.
Flushable(f) ==
    {SubSeq(f, 1, n) : n \in synced .. Len(f)}
    \cup {Append(SubSeq(f, 1, n), Frame(f[n + 1].seq, FALSE, Bump({}))) : n \in synced .. Len(f) - 1}
commit_jobs_fflush_fails(ks) ==
    /\ Meets("fflush") /\ proc = "up"
    /\ \A k \in ks : mem[k] < MaxVersion
    /\ records < MaxRecords
    /\ nextSeq <= MaxSeq
    /\ file' \in Flushable(Append(file, Frame(nextSeq, TRUE, Bump(ks))))
    /\ nextSeq' = nextSeq + 1 /\ records' = records + 1
    /\ UNCHANGED <<proc, synced, mem, acked, claimed, past>>

\* A short fwrite leaves part of a frame behind.  The tables are rolled back
\* and neither next_seq_ nor records_ counts the frame, but it is not removed.
commit_jobs_torn ==
    /\ Meets("torn") /\ proc = "up"
    /\ records < MaxRecords
    /\ Len(file) < MaxSeq                \* bounds the torn frames
    /\ file' = Append(file, Frame(nextSeq, FALSE, Bump({})))
    /\ UNCHANGED <<proc, synced, nextSeq, records, mem, acked, claimed, past>>

\* observe_evidence, the authority calls, commit_lease(_erased),
\* commit_quarantine: staged in a copy, appended without a flush, published.
commit_soft(k, v) ==
    /\ proc = "up"
    /\ v \in {0, mem[k] + 1} \ {mem[k]}
    /\ v <= MaxVersion
    /\ write_frame(Row(k, v), FALSE)
    /\ Expose(Updated(Row(k, v)))
    /\ UNCHANGED <<proc, acked, claimed, met>>

\* Store::compact: the image goes to a temporary file that is synced, the
\* journal is closed, the temporary renamed over it and reopened.  rewrite
\* puts the sequence counter of the old journal back.
compact(expired) ==
    /\ Meets("compact") /\ proc = "up"
    /\ records >= Threshold
    /\ file' = SnapshotOf(Written(expired))
    /\ synced' = Len(file') /\ records' = Len(file')
    /\ nextSeq' = nextSeq
    /\ UNCHANGED <<proc, mem, acked, claimed, past>>

\* The rename fails after the journal was closed: the old file stays and every
\* later append is refused, until the process is restarted.
compact_rename_fails ==
    /\ Meets("rename") /\ proc = "up"
    /\ records >= Threshold
    /\ proc' = "wedged"
    /\ UNCHANGED <<file, synced, nextSeq, records, mem, acked, claimed, past>>

\* The machine stops: what was flushed survives, and any run of frames after
\* it may.  (A last frame cut in the middle is one replay would cut anyway.)
Crash ==
    /\ proc # "down"
    /\ \E n \in synced .. Len(file) : file' = SubSeq(file, 1, n)
    /\ proc' = "down"
    /\ mem' = Empty /\ nextSeq' = 1 /\ records' = 0
    /\ UNCHANGED <<synced, acked, claimed, past, met>>

Next ==
    \/ Open
    \/ begin_incarnation
    \/ begin_incarnation_fails
    \/ \E ks \in (SUBSET HardKeys) \ {{}} :
          commit_jobs(ks) \/ commit_jobs_fsync_fails(ks) \/ commit_jobs_fflush_fails(ks)
    \/ commit_jobs_torn
    \/ \E k \in SoftKeys, v \in Version : commit_soft(k, v)
    \/ \E expired \in SUBSET Volatile : compact(expired)
    \/ compact_rename_fails
    \/ Crash

Spec == Init /\ [][Next]_vars
-----------------------------------------------------------------------------
(* Properties.                                                             *)

\* The variables keep their types.
TypeOK ==
    /\ proc \in {"down", "replayed", "up", "wedged"}
    /\ \A i \in 1 .. Len(file) :
          /\ file[i].seq \in Nat /\ file[i].whole \in BOOLEAN
          /\ \A k \in DOMAIN file[i].rows : k \in Keys /\ file[i].rows[k] \in Version
    /\ synced \in 0 .. Len(file) /\ nextSeq \in Nat \ {0} /\ records \in Nat
    /\ mem \in [Keys -> Version] /\ acked \in [HardKeys -> Version]
    /\ claimed \in Version /\ met \subseteq Faults

\* What a machine that stops now may have on disk afterwards.
Survivors == {SubSeq(file, 1, n) : n \in synced .. Len(file)}

\* A commit that was reported successful is never lost: whatever part of the
\* journal survives a crash at this moment, replay finds every acknowledged
\* job row, at the acknowledged version or a newer one
\* (Store::append_and_apply, Journal::replay).
DurableCommits ==
    \A f \in Survivors : \A k \in HardKeys : Recovered(f)[k] >= acked[k]

\* DurableCommits is what the store keeps until a compaction, a short write or a
\* failed fflush: neither a failed fsync nor a failed rename ever costs an
\* acknowledged commit, however many crashes and incarnations follow.
CommitsSurvive == met \cap {"compact", "torn", "fflush"} = {} => DurableCommits

\* While the process runs, replaying its journal would give exactly its
\* tables: a refused write leaves neither side ahead of the other (the rollback
\* in Store::commit_job, commit_jobs, create_job).
JournalMatches == proc \in {"up", "wedged"} => Recovered(file) = mem

\* JournalMatches is what the store keeps until a compaction, a short write or
\* a failed flush; and the variables have their types.
MemoryMatchesJournal == TypeOK /\ (met \subseteq {"rename"} => JournalMatches)

\* An image but for volatile evidence that a compaction may have left out.
Near(image, p) ==
    \A k \in Keys : image[k] = p[k] \/ ("compact" \in met /\ k \in Volatile /\ image[k] = 0)

\* Recovery never invents a state: whatever survives a crash, replay rebuilds
\* an image of all the tables that the store had at one moment, less volatile
\* evidence that a compaction has left out as expired.  No half of a
\* transaction, no row newer than a row that was written before it, and no row
\* but that evidence forgotten.  Only a failed flush, whose frame may stay in
\* the file, can make it (Journal::replay, Store::compact).
PrefixRecovery ==
    met \cap {"fflush", "fsync"} = {} => \A f \in Survivors : \E p \in past : Near(Recovered(f), p)

\* No two incarnations share a boot epoch: the epoch a process starts under is
\* newer than every epoch any process before it ran under
\* (Store::begin_incarnation flushes before the incarnation is used).
EpochNeverReused ==
    [][proc # "up" /\ proc' = "up" => mem'[BootKey] > claimed]_vars
==============================================================================
