# Maintenance Fabric: specifications

TLA+ specifications of the Maintenance Fabric runtime, model-checked with TLC on
small instances, with theorems proved by TLAPS for every instance. `PROJECT.json`
holds the inventory in machine-readable form: components, runs, the source lines
behind every definition, one mutation per property, findings and hazards.

## The system

A single daemon (`apps/mfd`) owns one `Controller`. Operators propose and approve
maintenance jobs; the controller decides when the targets of a job may go out of
service, has them drained by an external service, waits for the executor, verifies
and restores. Its parts:

| Part | Source | Module |
|---|---|---|
| Job lifecycle, the one transition relation | `domain/lifecycle` | `Lifecycle` |
| Capacity impact: pools, failure domains, contracts | `engine/impact` | `Impact` |
| Authority ledger and acquisition rule | `domain/authority`, `engine/authority` | `AuthorityLedger` |
| Controller: passes, drive steps, arbitration, preconditions, drain calls, operator calls, reconciliation | `runtime/controller`, `engine/{arbitrator,preconditions,scheduler,readiness}` | `Controller` |
| Drain ports and the service behind them | `drain/{local,remote}`, `apps/drain_sim` | `Controller` (`port`, `request_drain`, `release_drain`), `TcpClient` (the connection) |
| Store and journal | `store/{store,journal}` | `Store` |
| Evidence store, the daemon's health loop | `domain/evidence`, `apps/mfd` | `Evidence` |
| Topology, its text and its record | `domain/topology`, `config/text`, `store/records` | `Topology` |
| Policy and windows, their text and record | `domain/{policy,window}`, `config/text`, `store/records` | `Policy` |
| Loading, committing, replaying, rendering the two | `config/text`, `runtime/controller`, `store` | `Configuration` |
| Sockets and frames | `transport/{socket,frame}` | `Sockets` |
| TCP server | `transport/server` | `TcpServer`; what it promises: `RpcService` |
| TCP client and its two users | `transport/client`, `drain/remote`, `apps/common/remote_api` | `TcpClient` |
| Server and clients together | | `Transport` |
| Command line, both API modes, request bodies, dispatch | `apps/mfctl`, `apps/common`, `transport/protocol`, `apps/mfd` | `Api` |
| Explanations | `engine/explain` | not modelled |

Everything the controller does to jobs happens under one mutex, `mu_`, except the
calls to the drain service. Concurrency therefore shows in six places: calls of
operators and executors between the locked sections of a tick; answers of the drain
service applied to jobs that have changed meanwhile; a second tick (the `Tick`
request) beside the ticker thread; the drain service, which outlives the process;
the death of the process at any moment; and the threads of the TCP server.

## Modules

`Lifecycle`, `Impact` and `AuthorityLedger` are operators without state. They are
extended by `Controller`.

**Controller.** Variables of the store (`job`, `ledger`, `leases`, `quarantined`,
four kinds of evidence per target, `boot`, `policy`), of the process (`inflight`,
`queued`, `deferred`, `stopping`, where each ticker is, the `view` of the current
pass) and of the drain service (`port`, and `reuse`, ids of earlier incarnations that a
restarted `LocalDrainPort` comes to issue again).

| Action | Code |
|---|---|
| `StartPass` | `tick`: expire, take the deferred releases, build the readiness view |
| `drive` | `drive_locked`, one job of the pass; an alternative per state of the job |
| `arbitrate` | `arbitrate_locked`, one candidate |
| `sweep` | end of `drain_all_locked`: orphaned leases |
| `perform_action` | the call to the drain service, mutex released |
| `apply_outcomes` | `apply_outcomes_locked` |
| `EndTick` | the last pass is over, or shutdown was requested |
| `propose`, `approve`, `rearm`, `cancel`, `report_completion`, `report_restoration`, `clear_quarantine`, `set_policy`, `shutdown` | the public calls |
| `Advance` | time: dwell of blocked jobs, what is left of reservations |
| `Restart` | the process dies; `Controller::open` with `reconcile_locked` |

A pass is split into steps only to keep the formulas small: while a ticker is
inside one no other action is enabled (`LockFree`), except `Restart`.

What is abstracted: an attempt is its ordinal within the job, an authority id is the
attempt it was granted to, block reasons are soft or hard (`is_hard_block`), a
reservation's expiry is the time left. Health, windows (with control-plane quorum),
the age of evidence and of a precondition evaluation are facts a pass finds
(`view`), chosen anew for each pass from the constant `Views`. Drain leases are
reused when nothing refers to them, so that `LeaseIds` bounds only how many exist
at one time. `verFails` and `restFails` rise when a round takes longer than the
estimated duration, which the model leaves open. The constant `Faults` says what may
fail: requests and releases of the drain service and their answers, the room for a record
in the evidence store (`"full"`), and the journal when it is given a quarantine
(`"append"`). An observation of an earlier incarnation may be in the way of one of this
(`MayRefuse`), because evidence revisions start again with the process. Results the code
ignores are ignored: a verdict or a quarantine that the store refuses is not there, and
the job goes on. `Restart` keeps the leases of a remote service; those of `LocalDrainPort`
are gone, and its ids start again.

**Store.** A table row is a version number. Hard keys are rows committed with a
flush (jobs, topology, policy), soft keys those appended only (evidence, authority,
leases, quarantines), the boot record is a key of its own. A frame holds the rows of
one append. `Crash` keeps what was flushed and any run of frames after it. The
constant `Faults` admits compaction, failing renames, torn writes and the two ways a
flush fails: `fsync`, after which the frame stays in the file, and `fflush`, after which
any number of the frames since the last flush are lost with the buffer while the
numbering goes on. `compact` leaves out volatile evidence (`Volatile`) that has expired
and is still held. `met` records which faults have happened and `MaxKinds` bounds how
many kinds meet in one behaviour. `acked`, `claimed` and `past` are history variables.
Each property says after which faults it holds: `CommitsSurvive` without compactions,
torn writes and failing `fflush`; `MemoryMatchesJournal` without anything but failed
renames; `PrefixRecovery` without failed flushes, and but for expired evidence;
`EpochNeverReused` always. What happens in the other cases is listed under Findings.

**Evidence.** The records that `observe` accepts, refuses (revision, time, clock
skew, capacity) or evicts for, with the journal under them, its compaction and its
replay. A compaction may leave a gap in the numbering (`gap`, finding 1); what is
appended behind it is not read at the next start (`behind`), and unflushed records may be
lost there. Three writers: `publish_health` (the loop of `mfd`, whose revision starts
anew with the process and which reads the clock once for a whole round, `round`), the
controller, and agents with clocks that run ahead. A
record is fresh (`fresh`, from `evaluate`) when its time to live has not passed and,
for volatile evidence, its boot is the current one.

**Topology, Policy, Configuration.** Topology and Policy are values with the
operations of the code: `add_domain`, `add_target`, `add_pool` with the three indexes
they maintain; one loader per kind of line; `validate`; `redundancy_for`;
`evaluate_window`, a set of evaluations where ties in its sort leave the choice open;
encoding, decoding and rendering. Configuration puts them on their path: an operator
writes lines, the file is loaded and committed (`set_topology`, `set_policy`, flushed
before it is applied), the append or its flush fails (`commit_fails`), the journal is
compacted, the process starts again and replays what can be read (`gap` as in
`Evidence`). Numbers of policy rules are words of `Width` bits.

**Sockets, TcpServer, TcpClient, Transport.** A stream is a sequence of frame pieces.
A server end is shut down before it is closed, as in the code. Each step of the accept
thread, of a worker (wait, pop, register, read header, read body, handle, answer,
unregister, close) and of `stop` (flag, listener, live connections, notify, join) is
an action; what is done under `mu_` is one action. A worker asleep on `cv_` needs a
notification. Clients connect, send, receive, time out, and keep or drop their
connection as `RemoteDrainPort` and `RemoteApi` do. `RpcService` is the abstract
specification of what the owner of a server relies on: handlers run only from start
until `stop` returns, never two for a connection, never more than there are workers.
`Transport` implements it (`ServiceKept`): the abstract phase is read off the owner's
position in `stop`, the busy connections off the workers in their handler. Left out: the
exit of `serve` for a payload over `max_payload`, which `decode_frame_header` never lets
through (`frame.cpp:126`, the option's default is the same bound), and a server's send
that its timeout cuts on an open socket, after which the connection is closed as it is
after the failing sends that are there.

**Api.** One command line, run in local mode and in remote mode against controllers
that give the same answers. A string is its length, a body the sequence of its
fields; `encode_*`, `decode_*`, the dispatch of `mfd` (`handler`) and `unwrap` apply
the bounds of `ByteWriter` and `ByteReader`, with overlong strings written empty. A
call that fails on its way (refused connections, deadlines) is left to `Transport`.

`MCController`, `MCConfiguration` and `MCApi` define values for the constants;
`MCTransport` lets drain ports call for ever. `Store` and `Evidence` need model values and
numbers only. The modules
whose names end in `Proofs` hold the theorems, see Proofs.

## Runs

Every run is `tlc -config <run>.cfg <module>`, with the module of the second column.

| Run | Module | Instance | Checks |
|---|---|---|---|
| `StoreCore` | `Store` | one hard key, two soft keys of which one is volatile evidence, two versions, five frames, crashes, any one kind of fault | acknowledged commits survive any crash, tables equal what replay would give, recovery yields an image the tables had, boot epochs are never reused |
| `StoreCompactionLoss` | `Store` | compaction | fails: `DurableCommits`, see findings |
| `ControllerCore` | `MCController` | two jobs that may not be out together (a pool and a domain), one needing a drain; cancel, re-arm, policy change, refused drains and quarantines, all views | type invariant, `JointlyTolerable`, `LedgerSafe`, `DrainHeld`, `LeaseAccounted`, `NamedLeaseOnRecord`, `AuthorityIsCurrent`, `LifecycleRespected`, `StartIsJustified` |
| `ControllerReports` | `MCController` | one job on two targets, remote drain service that loses the answer to a grant (the attempt asks again), fails releases and drains late, a full evidence store; all reports, abort, cancel, quarantine | `DrainHeld`, `EndsRestoredOrQuarantined`, `StartIsJustified` |
| `ControllerRestart` | `MCController` | two jobs, remote drain service, two restarts at any moment, contract | what a restart must preserve: `JointlyTolerable`, `LedgerSafe`, `AuthorityIsCurrent`, `EndsRestoredOrQuarantined` |
| `ControllerTickers` | `MCController` | two tickers side by side, cancel, shutdown | joint capacity, lease accounting |
| `ControllerProgress` | `MCController` | three jobs, two competing and one waiting for the first, in-process drain port that forgets its leases, one restart, fair | every approved job ends, every job that removed service ends, starts are justified |
| `RestartOverlap` | `MCController` | one restart, restoration reports | fails: `JointlyTolerable`, see findings |
| `Transport` | `MCTransport` | two workers, a queue of one, a drain port that may call for ever or an API client, two connections, cut sends, stop | `OwnAnswer`, `OneHolder`, `CleanStream`, `ServiceKept` (refinement of `RpcService`), `QueuedIsServed` |
| `Evidence` | `Evidence` | two targets, three kinds of writer, a store of two records, compaction, one restart, fair | `FreshIsCurrent`, `RestartKeepsEvidence`, `KeptWhileValid`, `HealthRecovers` |
| `Configuration` | `MCConfiguration` | all files of a few lines, two loads, failing commits, compactions, restarts | `RestartSame`, `TopologyReloads`, `RemovalSetExact`, `PolicyMeansIt` |
| `Api` | `MCApi` | every command, strings, lists and answers on either side of every bound | `SameCommand`, `OkMeansDone` |

`RemovalSetExact` and `PolicyMeansIt` check algorithms against reference definitions:
removal sets, domain members and pools against what the file says last about each
target; required units against unbounded arithmetic; the chosen window, its closing
time and its close rule against a direct statement of "some window is open". The
reference for windows assumes that windows have ids of their own, see Findings.

**Bounds.** Two jobs are enough for every pairwise relation the properties state
(overlap, budget, dependency, arbitration order); the third in `ControllerProgress` lets
a job wait for one that itself competes. Two targets are enough for a removal set that
is partly reported and for a domain that is exceeded. A second generation, a second
policy revision and a third incarnation each make one stale value of the kind and, for
restarts, a restart during recovery from one. `MaxPasses` is 2 where the code has 8
(`controller.cpp:16`): the tick's end at the bound and its end with nothing to do both
happen. A reservation lasts two units of the soft-block dwell, so it can be renewed, run
out while held, and run out while its job is out of service. Five frames hold a boot
record, commits of both kinds, a compaction and commits after it. `MaxDrainFailures` is
2 in `ControllerReports`, so that an attempt asks a second time after a lost answer, and
1 elsewhere. In `Transport` a second call follows a late or failed first one and, for a
drain port, its second connection exists beside the remains of the first; two workers
can be in `stop`'s way at different places. In `Evidence` a store of two records is full
with one record per writer, and the first health round after a restart carries a
revision already used. In `Configuration` chains, lists and contracts have bounds of one
or two, so that three lines exceed them; words have two bits, so that sums wrap.

Deadlock checking is off where a behaviour rightly ends: a stopped daemon or server
stops (`ControllerTickers`, `Transport`), a command is over (`Api`), and in
`Evidence` and `Configuration` the bounds on time and lines are used up.

**Fairness.** `FairSpec` of `Controller` assumes weak fairness of each ticker's steps
(the ticker thread loops until stopped, and the calls of the drain port have
deadlines), strong fairness of the clock, and strong fairness of the executor's
completion report. The last two need the mutex, which the ticker gives up between
ticks again and again. Nothing is assumed of operators or of restarts.
`ControllerProgress` also takes `Timely`: ticks come more often than authority runs
out, which is what `renewal_margin` is for. Liveness is checked with views in which all
is well; with a window that never opens nothing may happen, by design.
`Transport` assumes weak fairness of the accept thread, of every worker and of a `stop`
that was begun; a blocking read is taken to end with its timeout, which the code sets on
every accepted socket. No fairness of clients is assumed, but `QueuedIsServed` speaks of
behaviours in which they make no more calls from some moment on (`ClientsRest`): `serve`
looks at neither `stopping_` nor an age, so a client that calls within `io_timeout`, as a
busy `RemoteDrainPort` does, keeps its worker, and a connection queued behind it waits.
Without the condition (`QueuedIsServedAlways`) TLC finds that. `Evidence` assumes weak
fairness of the health loop, and of the compaction at the end of a tick.

## Proofs

Each theorem holds for every value of the constants that satisfies the named
assumptions (`ImpactAssumption`, `LedgerAssumption`, `ControllerAssumption`,
`StoreAssumption`, `SocketsAssumption`, `EvidenceAssumption`, `ApiAssumption` and the
like), which TLC evaluates in every run:
any number of jobs, targets, tickers, workers, clients, keys, restarts and crashes, any
views, any faults. The bounds of the model (`MaxGen`, `MaxSeq`, `MaxCalls` ...) are
arbitrary numbers in the proofs. Where a theorem needs more, its statement says so.

**Controller.** `ControllerProofs` has the type invariant and the lifecycle, with one
lemma per step of a pass and per operation, and where the drain calls that tickers have
still to make come from; `ControllerAuthorityProofs` builds on it, and on that, side by
side, `ControllerJointProofs` (what is out together) and `ControllerDrainProofs` (leases).

| Theorem | States | For |
|---|---|---|
| `TypeCorrect` | `TypeOK` | everything |
| `LifecycleSafe` | `LifecycleRespected` | everything |
| `AuthorityCurrent` | `AuthorityIsCurrent` | everything |
| `LedgerOwned` | one reservation per job, of this incarnation, generation and removal set | everything |
| `EndsRestored` | `EndsRestoredOrQuarantined` | a journal that takes quarantines (no `"append"`) |
| `StartGrounded` | service is removed only under a live reservation of the active attempt, with dependencies complete, evidence fresh and policy satisfied | everything |
| `NamedLease` | `NamedLeaseOnRecord` | the remote port, or the first incarnation |
| `LedgerSafeFirst` | `LedgerSafe` | the first incarnation |
| `LedgerSafeSecond` | `LedgerSafe` | the first two, if `Orderly` |
| `OutTolerableFirst` | `JointlyTolerable` | the first incarnation, if `Orderly` |
| `LeasesAccounted` | `LeaseAccounted` | the first incarnation, no grant lost, no release failing |
| `StartCounted` | service is removed only on a policy that counts every other job out of service | the first incarnation, if `Orderly` |

`Orderly`: there is one ticker, or the drain service fails no request. None of the
restrictions is for the prover's sake; without each of them TLC finds the property
violated (`RestartOverlap`, `TickersOverlap`, `LeaseLeak`, and `NamedLeaseOnRecord` in
`LocalPortRestart`), or the code ignores the failure (`"append"`).

How they are proved:

* `IInv` is `TypeOK` and `Ended`: an ended job has no attempt, no authority and no lease.
  It makes late answers harmless: an answer is applied only to the active attempt it was
  asked for, and an ended job has none. One lemma per action shows that it keeps `IInv`
  and changes each job lawfully (`StepOK`); the lemmas about `Moved`, `NewAttempt`,
  `Touched`, `Rearmed` and `Reconciled` say it for the record of one job.
* `AInv` adds what each record and each reservation say of the other (`RecordOK`,
  `LedgerOK`): authority is that of the active attempt, service is out exactly in the
  stages that remove it or in a block after them, only a verification of this incarnation
  leads to restoration. `AuthorityIsCurrent` alone is not inductive: a denied grant is
  told from a held one by the job's state.
* For the ledger, `Swept` says that during a pass every reservation is live, so that what
  arbitration compares with is all there is; a grant is then compatible with each
  reservation, and every other step only shrinks the ledger (`DomainAntitone`).
* For jobs out of service, `OutInv` says that what is out is compatible with what is
  reserved, and that no refusal is on its way to a job that removed service
  (`NoneAwaited`), which would block it out of sight. That rests on `ActionStep`: the
  calls a ticker still holds are those queued by the pass that took them.
* For leases, `LeaseInv` says that the job, the service and the answers on their way
  never connect one lease with two jobs, which is what keeps `apply_outcomes_locked` from
  forgetting a lease another job names. It holds as long as the service issues an id once
  (`IssuedOnce`), which a restarted `LocalDrainPort` does not.

**Store** (`StoreProofs`): `Durability` (`CommitsSurvive`), `TablesMatch`
(`MemoryMatchesJournal`), `RecoveryExposed` (`PrefixRecovery`) and `EpochsFresh`
(`EpochNeverReused`), each for any crashes and up to the faults the property names. The
invariant `StoreInv` speaks of every file that a crash now could leave: replay of each
length from `synced` on gives an image that the tables had, less volatile evidence after
a compaction (`Exposed`, `Less`), with the
acknowledged versions (`Durable`) and an epoch below the next (`Epochs`); frames are
numbered as replay expects (`Numbered`), and the tables are the image of the whole file
(`Matching`). What replay keeps is a longest well-numbered run, so the lemmas on it rest
on least and greatest numbers (`LeastNat`, from the well-foundedness of `<`).

**Transport** (`TransportProofs`): `HeldOnce` (`OneHolder`), `AnswersOwn` (`OwnAnswer`),
`PortStreamClean` (`CleanStream`) and `ServiceSafe`: `Transport` implements the safety
part of `RpcService`. `ServerInv` follows a connection: backlog, accept thread, queue and
workers hold it in turn, and `live_` names only what a worker holds. `ClientInv` pairs
requests and answers. `PortInv` follows the request of a drain port: it is in one place
at a time - in part sent, in the stream, with the worker, in part answered - until the
port has read the answer, so a port that is idle has a clean connection.

**Evidence** (`EvidenceProofs`): `FreshSafe` (`FreshIsCurrent`), `ValidKept`
(`KeptWhileValid`) and `ReplayFaithful` (`RestartKeepsEvidence`), for any targets,
writers, capacity, clocks and restarts. The journal is replayed by a recursive function
over its records, so one more record is one more application of `apply`, and `StoreInv`
carries that replay gives what is held, or, behind a gap, what the compaction wrote.
What is written out and cannot be read yet (`Unread`) is no more than was appended
behind the gap, so that a compaction never makes the journal longer than the bound. The
work is in the store at its capacity: which record is evicted depends on the contents
alone, and a compacted journal, sorted by key, is replayed without an eviction because
what it lists is within capacity.

**Api** (`ApiProofs`): `ModesAgree` (`SameCommand`) and `OkIsDone` (`OkMeansDone`), for
every command line, every bound of the protocol and every answer of the controller. One
lemma per operation shows that its request body decodes to what was encoded when it fits,
and is refused otherwise; `RunOK` says how far a command has come, so that the second
mode, whichever it is, repeats the calls of the first.

Only model-checked:

* liveness (`ApprovedEnds`, `RemovalEnds`, `QueuedIsServed`, `HealthRecovers`, the
  fairness part of `ServiceKept`), which is beyond the prover;
* `DrainHeld`, and with it in `StartIsJustified` that a target to be drained is drained;
  and that a policy satisfied beside the jobs with authority and those out of service is
  satisfied beside the latter alone, which is about a sum over a set (`StartGrounded` and
  `StartCounted` are the rest of it);
* `JointlyTolerable` and `LedgerSafe` in later incarnations, where they hold in
  `ControllerRestart` because no report prolongs a block there;
* `Topology`, `Policy` and `Configuration`, which use recursion and SequencesExt
  throughout and are checked over all inputs within their bounds.

## Findings

Two disagreements with what the repository says of itself have a run:

1. `StoreCompactionLoss`. `Journal::rewrite` numbers the frames of the compacted file
   from 1 and then restores the counter of the old journal. The next frame leaves a
   gap, replay stops there and truncates, and all that was acknowledged since the
   compaction is lost at the next start (`README.md:82` promises "Restart-safe
   persistence").
2. `RestartOverlap`. The reservation re-issued for a job that was out of service is
   not renewed while the job is blocked, and a blocked job does not count as out of
   service. Restoration reports prolong the wait; once the reservation has expired a
   second job may go out beside the first, where `docs/ARCHITECTURE.md:94-96` says the
   capacity stays reserved.

More configurations, each asking one further question. In the first the
properties hold; in the others TLC finds the named property violated.

| Configuration | Module | Property | What it shows |
|---|---|---|---|
| `ControllerShutdown` | `MCController` | `StartIsJustified`, `Quiesces` | with two tickers and a shutdown every ticker comes to rest |
| `RearmPolicy` | `MCController` | `RearmedEnds` | re-arming keeps the policy revision the job was validated under (`controller.cpp:1244`), so after a policy change a re-armed job is refused for ever |
| `DependencyDeadlock` | `MCController` | `ApprovedEnds` | arbitration does not look at dependencies: a dependent job that ranks first keeps the authority its own dependency needs, and both wait for ever |
| `ConcurrencyLimit` | `MCController` | `ConcurrencyBound` | `max_concurrent_jobs` bounds the grants of one arbitration, not the jobs at work |
| `ShutdownRequest` | `MCController` | `NoRequestAfterShutdown` | drain requests queued before a shutdown are still made |
| `RestartVerdict` | `MCController` | `VerdictRecorded` | after a restart evidence numbers start again, a verdict can be refused and the job completes without it |
| `LeaseLeak` | `MCController` | `LeaseAccounted` | a lease whose release failed once before it was recorded is forgotten; with `MaxBoot = 2` and `Remote = TRUE`, also one granted to a process that died |
| `TickersOverlap` | `MCController` | `JointlyTolerable` | two tickers and a drain service that refuses requests: an answer to a release of an earlier attempt clears `inflight_` of the job (`controller.cpp:1033` on), the other ticker asks a second time for the present attempt, the first request is granted and the job goes out, the second is refused and blocks the job, and a blocked job does not count as out of service. This is why `OutTolerableFirst` needs its hypothesis |
| `TickersDrain` | `MCController` | `DrainHeld` | a release that overlaps a repeated request of the same attempt leaves the job with a lease that is gone; with one ticker, so does a release whose answer is lost (`ControllerReports` with `"unacked"` among its faults) |
| `LocalPortRestart` | `MCController` | `StartIsJustified` | `LocalDrainPort` numbers its leases from 1 again after a restart (`local.cpp:83`): a job that was out of service before it releases its lease of then, whose id another job has been given meanwhile, and that job goes out undrained. The documentation calls this port a simulator (`docs/ARCHITECTURE.md:104`, `README.md:138`) |
| `RemoteReleaseStuck` | `MCController` | `RemovalEnds` | with the remote port, a release that was done before a restart is answered with a failure for ever, and the job stays in Restoring; this is why `ControllerProgress` has the in-process port |
| `StoreFlushLoss` | `Store` | `DurableCommits` | after a failed `fflush` the frame is gone and the number it had is used up: commits acknowledged later are behind the gap and lost at replay. With `"torn"` in place of `"fflush"` the same for a short write, which is not cut off; with `"fsync"` and `JournalMatches`, a frame that stays although its tables were rolled back |
| `EvidencePruned` | `Evidence` | `RestartKeepsValid` | compaction leaves out what has expired by its own clock; a later start can accept a record it had refused, or the other way round |
| `EvidenceFirstSnapshot` | `Evidence` | `FirstSnapshotFresh` | the first health snapshot of a restarted daemon carries a revision the store already has and is refused, where the comment at `apps/mfd/main.cpp:491` says a job proposed at once sees fresh evidence |
| `ConfigurationAccepted` | `MCConfiguration` | `AcceptedIsCommitted` | the policy record's decoder has bounds that `validate` has not, so an accepted policy can fail to commit after it was flushed |
| `ConfigurationReload` | `MCConfiguration` | `PolicyReloads` | a rendered policy leaves out a contract's `fresh_evidence=false`, which the digest covers (`policy.cpp:272`), and a name that was too long for its record, and has come back empty, is rendered as a line that does not load; where `text.cpp:879-880` calls it "always re-loadable", `text.hpp:35` speaks of round-trip inspection and `test_core.cpp:254` asks for the same digest |
| `TransportPosix` | `Transport` | `QueuedIsServed` | on POSIX a send on a dead stream raises SIGPIPE, and nothing ignores it |
| `TransportStopRace` | `Transport` | `ParkedReleased` | a connection popped and not yet registered is missed by `stop`, and its worker reads on until its timeout, where `docs/CONCURRENCY.md:72-74` says it is released |
| `ApiIdentical` | `MCApi` | `Identical` | over their bounds, strings and lists make the two modes of `mfctl` differ, where `apps/common/api.hpp:4-5` says they behave identically |
| `ApiIdentical`, with `ActorRecorded` | `MCApi` | `ActorRecorded` | a remote proposal is recorded under the name `remote` (`apps/mfd/main.cpp:299`), and a name that exceeds its field together with the reason is written empty, where the usage text says the operator's name is recorded |

Observations without a run: a topology's revision counts its declarations
(`topology.cpp:23`), so two different topologies can share it and a job bound to one
does not notice the other; with two windows of one id, which `validate` and the
loader accept, a job takes the closing time of one and the close rule of the other
(`controller.cpp:547` looks the window up again by id); and a request's
`window_filter` is stored and written out but read by no decision.

## Not modelled

* A crash inside a drive step that writes evidence before the job, and the loss of
  unflushed rows at a restart of the controller: `Store` shows what may be lost,
  `Restart` keeps all of it.
* A topology that changes under live jobs: `Configuration` follows the file, in
  `Controller` the removal sets are constants. Likewise how readiness is folded from
  evidence, and windows, reach `Controller` as facts of a view.
* The comparison by which arbitration orders candidates (the constant `Rank`), block
  reasons' wording, histories, digests, statistics; `engine/explain`, which only words
  what other components decided.
* Drain queries and refreshes (no `Query` action is ever queued),
  `AuthorityLedger::consume` and `EvidenceStore::evict_expired`: nothing reaches them.
* Creation of the journal's header, the byte formats of frames and records, checksums,
  missing synchronisation of the directory after a rename; records other than topology
  and policy, whose codecs decide nothing; the bodies of drain messages.
* Splitting configuration lines and command lines into tokens, the syntax of numbers
  and times, option parsing of the daemons, logging.

## Plan

1. Composition of `Controller` with `Store`: restarts that lose unflushed rows.
2. Proofs: `DrainHeld` and the rest of `StartIsJustified`; `JointlyTolerable` after restarts under a
   hypothesis on reports; the operators of `Topology` and `Policy`.
