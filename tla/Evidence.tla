------------------------------ MODULE Evidence ------------------------------
(***************************************************************************)
(* The evidence store (src/domain/evidence.cpp) with the journal under it  *)
(* (Store::observe_evidence, Store::apply, Store::compact) and its three   *)
(* kinds of writer: the health loop of mfd, the controller itself, and     *)
(* agents that report over the API with revisions and clocks of their own. *)
(*                                                                         *)
(* An observation's payload, and the job and attempt it may name, are left *)
(* to the controller's module; here an observation is the revision, time   *)
(* and incarnation that decide whether it is accepted and whether it is    *)
(* fresh.  A restart replays what can be read of the journal: observations *)
(* are appended without a flush, and a compaction may leave a gap in the   *)
(* numbering of the frames, behind which nothing is read (module Store).   *)
(***************************************************************************)
EXTENDS Naturals, Sequences, FiniteSets, Functions

CONSTANTS
    Targets,     \* targets of the topology, numbered
    Authored,    \* targets the controller writes evidence about
    Agents,      \* targets an agent reports on
    Durable,     \* TRUE: agents report evidence of class Durable
    Capacity,    \* capacity_
    Ttl,         \* time to live of an observation
    Skew,        \* kMaxClockSkewNanos
    Ahead,       \* bound: how far an agent's clock runs ahead
    MaxTime,     \* bound: time
    MaxRevision, \* bound: revisions of an agent, and of the controller in a boot
    MaxRounds,   \* bound: health rounds in the first boot, more in later ones
    Threshold,   \* compaction_threshold_records, here of evidence records
    MaxBoot      \* bound: boots

ASSUME EvidenceAssumption ==
    /\ Targets \subseteq Nat \ {0} /\ IsFiniteSet(Targets)
    /\ Authored \cup Agents \subseteq Targets /\ Durable \in BOOLEAN
    /\ {Capacity, Ttl, MaxRevision, MaxRounds, MaxBoot} \subseteq Nat \ {0}
    /\ {Skew, Ahead, MaxTime, Threshold} \subseteq Nat

VARIABLES
    now,       \* the clock
    boot,      \* boot epoch of the running controller
    records,   \* records_: the observation held for a key
    journal,   \* evidence records a replay of the journal reads, oldest first
    synced,    \* how many of them are certain to be in the file
    gap,       \* TRUE: the last compaction left a gap in the numbering
    behind,    \* evidence records behind the gap, which a replay does not read
    revisions, \* last revision used: [health, controller] of this process
    cursor,    \* targets the health loop has still to publish in this round
    round,     \* the time publish_health read when it began the round
    seen,      \* history: [boot, at] when observe accepted the key's record
    pruned,    \* history: a compaction left out a record that is still held
    held       \* history: what the compaction that left the gap wrote

file == <<journal, synced, gap, behind>>
vars == <<now, boot, records, file, revisions, cursor, round, seen, pruned, held>>

\* EvidenceKey: the subject and the source; each source has one kind here.
Keys == (Targets \X {"health"}) \cup (Authored \X {"controller"}) \cup (Agents \X {"agent"})

Observation(k, rev, at) ==
    [key |-> k, rev |-> rev, at |-> at, by |-> boot,
     volatile |-> ~(Durable /\ k[2] = "agent")]

Nobody == [boot |-> 0, at |-> 0]

\* The targets as Topology::targets lists them: by increasing number.
Ascending(s) == \A i, j \in DOMAIN s : i < j => s[i] < s[j]
AllTargets == CHOOSE s \in [1 .. Cardinality(Targets) -> Targets] : Ascending(s)

Init ==
    /\ now = 0 /\ boot = 1
    /\ records = <<>> /\ journal = <<>> /\ synced = 0
    /\ gap = FALSE /\ behind = 0
    /\ revisions = [health |-> 0, controller |-> 0]
    /\ cursor = AllTargets /\ round = 0
    /\ seen = [k \in Keys |-> Nobody] /\ pruned = FALSE /\ held = <<>>
-----------------------------------------------------------------------------
(* EvidenceStore.                                                          *)

Known(recs, r) == r.key \in DOMAIN recs

\* What observe evicts when the store is full: by the time of the new record.
evictable_by_clock(recs, t) == {k \in DOMAIN recs : recs[k].at + Ttl <= now}
Evictable(recs, t) == {k \in DOMAIN recs : recs[k].at + Ttl <= t}

Full(recs) == Cardinality(DOMAIN recs) >= Capacity

\* What observe refuses: StaleRevision, StaleEvidence, LimitExceeded.
accepts_replays(recs, r) ==
    IF Known(recs, r) THEN r.at >= recs[r.key].at
    ELSE Full(recs) => Evictable(recs, r.at) # {}
Accepts(recs, r) ==
    IF Known(recs, r) THEN r.rev > recs[r.key].rev /\ r.at >= recs[r.key].at
    ELSE Full(recs) => Evictable(recs, r.at) # {}

\* The records kept when a new key comes in.
keeps(recs, t) == IF Full(recs) THEN DOMAIN recs \ Evictable(recs, t) ELSE DOMAIN recs

observe(recs, r) ==
    LET others == IF Known(recs, r) THEN DOMAIN recs ELSE keeps(recs, r.at)
    IN  [k \in others \cup {r.key} |-> IF k = r.key THEN r ELSE recs[k]]

\* evaluate, for the running incarnation.
never_foreign(r) == FALSE
foreign(r) == r.volatile /\ r.by < boot
evaluate(recs, k, t) ==
    IF k \notin DOMAIN recs THEN "missing"
    ELSE IF recs[k].at > t + Skew THEN "future"
    ELSE IF foreign(recs[k]) THEN "foreign"
    ELSE IF t > recs[k].at + Ttl THEN "expired"
    ELSE "fresh"

\* fresh_sources of a subject.
fresh_sources(recs, x, t) == {k[2] : k \in {l \in Keys : l[1] = x /\ evaluate(recs, l, t) = "fresh"}}
-----------------------------------------------------------------------------
(* Store.                                                                  *)

\* Journal::records: what has been appended, whether it can be read or not.
Count == Len(journal) + behind

\* Bound: the journal grows past the threshold by one health record only.
Room(n) == Count < Threshold + n

\* Store::observe_evidence: accepted by a copy, appended, then installed.  A
\* refused observation changes nothing.
observe_evidence(r) ==
    IF Accepts(records, r)
    THEN /\ journal' = IF gap THEN journal ELSE Append(journal, r)
         /\ behind' = IF gap THEN behind + 1 ELSE 0
         /\ records' = observe(records, r)
         /\ seen' = [seen EXCEPT ![r.key] = [boot |-> boot, at |-> now]]
    ELSE UNCHANGED <<journal, behind, records, seen>>

\* Store::apply of an evidence record: one that observe refuses is counted and
\* skipped.
apply(recs, r) == IF Accepts(recs, r) THEN observe(recs, r) ELSE recs

\* What the first n records of a journal leave, and what all of them do.
Replayed(js) ==
    LET after[n \in 0 .. Len(js)] == IF n = 0 THEN <<>> ELSE apply(after[n - 1], js[n])
    IN  after
replay(js) == Replayed(js)[Len(js)]

\* Store::compact: what is held is written out, expired volatile records excepted,
\* in the order in which the store lists its keys.  The journal goes on with the
\* number it had, which leaves a gap unless as many records were written.
Listing(ks) == CHOOSE f \in Bijection(1 .. Cardinality(ks), ks) : TRUE
Written == {k \in DOMAIN records : ~(records[k].volatile /\ now > records[k].at + Ttl)}
compact ==
    /\ Count >= Threshold
    /\ journal' = [i \in 1 .. Cardinality(Written) |-> records[Listing(Written)[i]]]
    /\ synced' = Len(journal') /\ behind' = 0
    /\ gap' \in BOOLEAN
    /\ pruned' = (Written # DOMAIN records)
    /\ held' = IF gap' THEN [k \in Written |-> records[k]] ELSE <<>>
    /\ UNCHANGED <<now, boot, records, revisions, cursor, round, seen>>
-----------------------------------------------------------------------------
(* The writers.                                                            *)

Budget(n) == revisions.health + n <= MaxRounds * boot * Cardinality(Targets)

\* The clock is read once, when a round begins.
Reading == IF cursor = AllTargets THEN now ELSE round

\* One turn of the loop in publish_health: the next target, with the next
\* revision of a counter that starts at zero in every process.
publish_if_accepted ==
    /\ Budget(1) /\ Room(1)
    /\ LET r == Observation(<<Head(cursor), "health">>, revisions.health + 1, Reading)
       IN  /\ observe_evidence(r)
           /\ revisions' = IF Accepts(records, r) THEN [revisions EXCEPT !.health = @ + 1]
                           ELSE revisions
    /\ round' = Reading
    /\ cursor' = IF Len(cursor) = 1 THEN AllTargets ELSE Tail(cursor)
    /\ UNCHANGED <<now, boot, synced, gap, pruned, held>>
publish_health ==
    /\ Budget(1) /\ Room(1)
    /\ observe_evidence(Observation(<<Head(cursor), "health">>, revisions.health + 1, Reading))
    /\ revisions' = [revisions EXCEPT !.health = @ + 1]
    /\ round' = Reading
    /\ cursor' = IF Len(cursor) = 1 THEN AllTargets ELSE Tail(cursor)
    /\ UNCHANGED <<now, boot, synced, gap, pruned, held>>

\* make_evidence_locked and write_evidence_locked: one counter for all keys.
write_evidence(x) ==
    /\ revisions.controller < MaxRevision /\ Room(0)
    /\ observe_evidence(Observation(<<x, "controller">>, revisions.controller + 1, now))
    /\ revisions' = [revisions EXCEPT !.controller = @ + 1]
    /\ UNCHANGED <<now, boot, synced, gap, cursor, round, pruned, held>>

\* Controller::observe for an agent: any revision, and a clock of its own.
agent_observe(x) ==
    /\ \E rev \in 1 .. MaxRevision, at \in {now, now + Ahead} \cup {t \in {now - 1} : now > 0} :
        LET r == Observation(<<x, "agent">>, rev, at)
        IN  Accepts(records, r) /\ observe_evidence(r)
    /\ Room(0)
    /\ UNCHANGED <<now, boot, synced, gap, revisions, cursor, round, pruned, held>>

\* The process dies and Controller::open replays the journal, cut off where it can
\* no longer be read; what was not flushed may be lost.
restart ==
    /\ boot < MaxBoot
    /\ boot' = boot + 1
    /\ \E n \in synced .. Len(journal) :
          journal' = SubSeq(journal, 1, n) /\ synced' = n
    /\ gap' = FALSE /\ behind' = 0
    /\ records' = replay(journal')
    /\ revisions' = [health |-> 0, controller |-> 0]
    /\ cursor' = AllTargets /\ pruned' = FALSE /\ held' = <<>>
    /\ UNCHANGED <<now, round, seen>>

\* Time goes on while a round of health revisions is left.
time ==
    /\ now < MaxTime /\ Budget(Cardinality(Targets))
    /\ now' = now + 1
    /\ UNCHANGED <<boot, records, file, revisions, cursor, round, seen, pruned, held>>

Next ==
    \/ publish_health \/ compact \/ restart \/ time
    \/ \E x \in Authored : write_evidence(x)
    \/ \E x \in Agents : agent_observe(x)

\* The health loop of mfd runs for as long as the process does, and so does its
\* ticker, which compacts.
Spec == Init /\ [][Next]_vars /\ WF_vars(publish_health) /\ WF_vars(compact)
-----------------------------------------------------------------------------
(* Properties.                                                             *)

\* The variables keep their types, and the store stays within its capacity.
TypeOK ==
    /\ now \in 0 .. MaxTime /\ boot \in 1 .. MaxBoot
    /\ DOMAIN records \subseteq Keys /\ Cardinality(DOMAIN records) <= Capacity
    /\ \A k \in DOMAIN records : records[k].key = k
    /\ Count <= Threshold + 1 /\ synced \in 0 .. Len(journal)

\* An observation of a live resource that counts as fresh was accepted by the
\* running incarnation, no longer ago than its time to live and the error of
\* the observer's clock (EvidenceStore::evaluate after a replay).
FreshIsCurrent ==
    TypeOK /\
    \A x \in Targets : \A s \in fresh_sources(records, x, now) :
        LET k == <<x, s>>
        IN  records[k].volatile => seen[k].boot = boot /\ now - seen[k].at <= Ttl + Ahead

\* A running controller does not lose an observation within its time to live,
\* but for the error of the observer's clock, and it replaces one only by a
\* later revision (the capacity and replay rules of EvidenceStore::observe).
KeptWhileValid ==
    [][boot' = boot =>
        \A k \in DOMAIN records :
            IF k \in DOMAIN records' THEN records'[k] = records[k] \/ records'[k].rev > records[k].rev
            ELSE records[k].at + Ttl <= now + Ahead]_vars

\* What can be read of the journal gives exactly the observations held in memory,
\* evictions included (Store::apply repeats every decision of
\* Store::observe_evidence), unless a compaction has left out expired records
\* that are still held.  Behind the gap a compaction leaves nothing is read: then
\* it gives exactly what the compaction wrote.
RestartKeepsEvidence ==
    /\ ~pruned /\ ~gap => replay(journal) = records
    /\ gap => replay(journal) = held

\* For what is within its time to live, also when a compaction has left out
\* expired records.
RestartKeepsValid ==
    LET back == replay(journal)
    IN  \A k \in DOMAIN records :
            ~gap /\ now < records[k].at + Ttl => k \in DOMAIN back /\ back[k] = records[k]

\* After a restart the health that mfd publishes is refused until its revisions
\* pass those on record; it is fresh again at last.
HealthRecovers ==
    \A x \in Targets, b \in 1 .. MaxBoot :
        LET k == <<x, "health">>
        IN  (boot = b /\ k \in DOMAIN records) ~>
                (boot # b \/ k \notin DOMAIN records \/ evaluate(records, k, now) = "fresh")

\* "Publish the first health snapshot before entering the loop so a job
\* proposed immediately after startup sees fresh evidence" (apps/mfd/main.cpp).
FirstSnapshotFresh ==
    revisions.health = Cardinality(Targets) =>
        \A x \in Targets : seen[<<x, "health">>].boot = boot
==============================================================================
