------------------------------ MODULE Controller ------------------------------
(***************************************************************************)
(* The controller (src/runtime/controller.cpp): jobs moving through their  *)
(* lifecycle under one mutex, maintenance authority, drain leases obtained *)
(* from an external service that is called with the mutex released, calls  *)
(* of operators and executors between the locked sections, and restarts of *)
(* the process at any moment.                                              *)
(*                                                                         *)
(* A tick is a sequence of passes.  A pass is: expire reservations, take   *)
(* the deferred releases, drive every job in id order, arbitrate, sweep    *)
(* orphaned leases (all under the mutex, here one step per job, with the   *)
(* mutex held by the ticker), then per action call the drain service and   *)
(* apply its answer.  mfd ticks from its own thread and from the Tick      *)
(* request, so there may be several tickers.                               *)
(*                                                                         *)
(* Data abstracted away: texts, digests, histories, statistics.  Health    *)
(* evidence, windows and the age of a precondition evaluation are outside  *)
(* facts, chosen anew for every pass (view).  Time is the dwell of blocked *)
(* jobs and what is left of reservations, both run down by Advance.        *)
(***************************************************************************)
EXTENDS Lifecycle, AuthorityLedger, Sequences

CONSTANTS
    NumJobs,          \* jobs are 1 .. NumJobs
    Removal,          \* topology.removal_set(job.targets)
    NeedsDrain,       \* jobs with requires_drain
    DependsOn,        \* jobs -> the jobs they depend on
    Rank,             \* arbitration order: tier rank, creation time, id
    MaxConcurrent,    \* policy.max_concurrent_jobs
    MaxDrainFailures, \* policy.max_drain_failures_before_block
    MaxVerify,        \* policy.max_verification_attempts
    MaxRestore,       \* policy.max_restoration_attempts
    MaxPasses,        \* kMaxPassesPerTick
    Tickers,          \* threads that call tick
    LeaseIds,         \* bound: drain leases that exist at the same time
    MaxGen,           \* bound: generations of a job
    MaxBoot,          \* bound: incarnations
    MaxPolicy,        \* bound: policy revisions
    Timely,           \* TRUE: ticks come more often than authority runs out
    Views,            \* the outside facts a pass may find
    Remote,           \* TRUE: RemoteDrainPort, FALSE: LocalDrainPort
    Faults,           \* subset of AllFaults
    Calls             \* subset of AllCalls that operators make

Jobs == 1 .. NumJobs

\* Of the drain service: "refuse": a request fails; "lost": it is granted but the
\* answer is lost; "release": a release fails; "unacked": it is done but the answer
\* is lost; "draining": a lease is granted before the drain is complete.  Of the
\* store: "full": the evidence store has no room for a record; "append": the
\* journal does not take a quarantine.
AllFaults == {"refuse", "lost", "release", "unacked", "draining", "full", "append"}
AllCalls == {"cancel", "rearm", "policy", "shutdown", "quarantine",
             "restoration", "failure", "abort", "unknown"}

View == [fresh : SUBSET Targets, serving : SUBSET Targets,
         window : BOOLEAN, lapsed : BOOLEAN, aged : BOOLEAN]

ASSUME ControllerAssumption ==
    /\ NumJobs \in Nat
    /\ Removal \in [Jobs -> (SUBSET Targets) \ {{}}]
    /\ NeedsDrain \subseteq Jobs
    /\ DependsOn \in [Jobs -> SUBSET Jobs]
    /\ Rank \in [Jobs -> Nat \ {0}]
    /\ \A i, j \in Jobs : Rank[i] = Rank[j] => i = j
    /\ {MaxConcurrent, MaxDrainFailures, MaxVerify, MaxRestore, MaxPasses,
        MaxGen, MaxBoot, MaxPolicy} \subseteq Nat
    /\ LeaseIds \subseteq Nat \ {0} /\ IsFiniteSet(LeaseIds)
    /\ Views \subseteq {v \in View : v.serving \subseteq v.fresh}
    /\ Remote \in BOOLEAN /\ Timely \in BOOLEAN
    /\ Faults \subseteq AllFaults /\ Calls \subseteq AllCalls

VARIABLES
    \* in the store
    job,          \* the job table
    ledger,       \* the authority ledger
    leases,       \* ids of the drain leases on record
    quarantined,  \* targets with an open quarantine
    confirmed,    \* DrainLeaseState evidence per target
    completed,    \* MaintenanceCompletion evidence per target
    checked,      \* RestorationCheck evidence per target, as reported
    verdict,      \* RestorationCheck evidence per target, the controller's own
    boot,         \* boot epoch of the running incarnation
    policy,       \* policy.revision
    \* in the memory of the process
    inflight,     \* drain_inflight_: jobs with a drain call under way
    queued,       \* queued_releases_
    deferred,     \* deferred_releases_
    stopping,     \* stopping_
    tick,         \* where each ticker is
    view,         \* the readiness view of the pass that holds the mutex
    \* at the drain service
    port,         \* the leases it holds
    reuse         \* ids of earlier incarnations that it may issue again

evidence == <<confirmed, completed, checked, verdict>>
store == <<job, ledger, leases, quarantined, evidence, boot, policy>>
memory == <<inflight, queued, deferred, stopping, tick, view>>
vars == <<store, memory, port, reuse>>
-----------------------------------------------------------------------------
(* Records.                                                                *)

NoEvidence == [job |-> 0, att |-> 0, ok |-> FALSE, by |-> 0]
NoAction == [kind |-> "None", job |-> 0, gen |-> 0, att |-> 0, lease |-> 0]
NoOutcome == [status |-> "none", lease |-> 0, drained |-> FALSE]
NoView == [fresh |-> {}, serving |-> {}, window |-> FALSE,
           lapsed |-> FALSE, aged |-> FALSE]
Idle == [pc |-> "idle", pass |-> 0, at |-> 0, grants |-> 0, todo |-> <<>>,
         act |-> NoAction, out |-> NoOutcome]

\* A job that has not been proposed.  0 stands for an invalid id.
NoJob ==
    [state |-> "None",    \* JobState, once proposed
     removed |-> FALSE,   \* service_removed
     block |-> "none",    \* block reason: "none", or is_hard_block "hard"/"soft"
     dwell |-> 0,         \* what is left of the soft-block dwell
     gen |-> 0,           \* generation
     att |-> 0,           \* ordinal of active_attempt
     next |-> 1,          \* next_attempt
     auth |-> 0,          \* authority: the attempt it was granted to
     lease |-> 0,         \* drain lease
     pol |-> 0,           \* policy_revision; set together with removal_set
     drainFails |-> 0, verFails |-> 0, restFails |-> 0,
     failed |-> FALSE,    \* maintenance_failed
     ver |-> 0]           \* history: epoch in which verification passed

JobRecord ==
    [state : JobState \cup {"None"}, removed : BOOLEAN,
     block : {"none", "soft", "hard"}, dwell : {0, 1}, gen : Nat, att : Nat,
     next : Nat, auth : Nat, lease : LeaseIds \cup {0}, pol : Nat, drainFails : Nat,
     verFails : Nat, restFails : Nat, failed : BOOLEAN, ver : Nat]
\* A DrainAction: a request is for a job and its attempt, a release may be for
\* neither.
Action ==
    {a \in [kind : {"None", "Request", "Release"}, job : 0 .. NumJobs, gen : Nat,
            att : Nat, lease : LeaseIds \cup {0}] :
        a.kind = "Request" => a.job # 0 /\ a.att # 0}
\* What the service may answer; a failed request names no lease.
Failure == [NoOutcome EXCEPT !.status = "error"]
Outcomes ==
    {NoOutcome, Failure} \cup
    [status : {"ok", "notfound", "error"}, lease : LeaseIds, drained : BOOLEAN]
Evidence == [job : Nat, att : Nat, ok : BOOLEAN, by : Nat]
PortLease == [id : LeaseIds, job : Nat, att : Nat, drained : BOOLEAN]
TickRecord ==
    [pc : {"idle", "drive", "arbitrate", "act", "apply"}, pass : Nat,
     at : Nat, grants : Nat, todo : Seq(Action), act : Action, out : Outcomes]

\* The sequence of a set of ids in increasing order, as the code's maps keep them.
InOrder(S) ==
    {s \in [1 .. Cardinality(S) -> S] :
        s \in Seq(S) /\ \A i, k \in DOMAIN s : i < k => s[i] < s[k]}

\* job.removal_set: empty until drive_validated expands it.
scope(j) == IF job[j].pol = 0 THEN {} ELSE Removal[j]

ReleaseOf(l) == [NoAction EXCEPT !.kind = "Release", !.lease = l]

\* new_attempt_locked
NewAttempt(r) == [r EXCEPT !.att = r.next, !.next = r.next + 1]

\* commit_job_locked stamps updated_at: the dwell of a blocked job restarts.
Touched(r) == [r EXCEPT !.dwell = IF r.state = "Blocked" THEN 1 ELSE 0]

\* transition_locked: nothing happens to a job the lifecycle does not let pass.
\* Authority and drain lease are given back when the job ends, or is blocked
\* before it removed service.
Retires(r, to) ==
    /\ check_transition(r.state, to, r.removed)
    /\ is_terminal(to) \/ (to = "Blocked" /\ ~r.removed)
Moved(r, to, blk) ==
    LET m == [r EXCEPT !.state = to, !.block = blk,
                       !.removed = @ \/ to = "InMaintenance",
                       !.dwell = IF to = "Blocked" THEN 1 ELSE 0]
    IN  IF ~check_transition(r.state, to, r.removed) THEN r
        ELSE IF is_terminal(to)
             THEN [m EXCEPT !.auth = 0, !.lease = 0, !.att = 0]
        ELSE IF Retires(r, to) THEN [m EXCEPT !.auth = 0, !.lease = 0]
        ELSE m

\* release_resources_locked: the effect on the ledger, and the release that is
\* queued for the drain service.
FreedLedgerKept(L, j, r) == L
FreedLedger(L, j, r) == IF r.auth = 0 THEN L ELSE release(L, j, r.auth, boot)
FreedLease(j, r) ==
    IF r.lease = 0 THEN <<>>
    ELSE <<[kind |-> "Release", job |-> j, gen |-> r.gen, att |-> r.att,
            lease |-> r.lease]>>
QueuesInvalid(r) == {r.lease}
Queues(r) == {r.lease} \ {0}

\* make_evidence_locked numbers its records from a counter that starts again with
\* the process, and the store refuses a record that does not advance the number
\* on file; it also refuses one dated earlier, which two tickers with clocks of
\* their own can produce, and one of a new key when it is full of records that have
\* not expired.  E is the evidence of one kind.  (Eviction is in module Evidence.)
MayRefuse(e) ==
    \/ e.by = 0 /\ "full" \in Faults
    \/ e.by # 0 /\ (e.by # boot \/ \E s, t \in Tickers : s # t)
Writable(E, S) == {W \in SUBSET S : \A x \in S \ W : MayRefuse(E[x])}
Observed(E, W, j, ok) ==
    [x \in Targets |->
        IF x \in W THEN [job |-> j, att |-> job[j].att, ok |-> ok, by |-> boot]
        ELSE E[x]]

\* The mutex is free: no ticker is inside a pass.
LockFree == \A t \in Tickers : tick[t].pc \notin {"drive", "arbitrate"}
-----------------------------------------------------------------------------
(* evaluate_preconditions for a job that has authority, over the view of    *)
(* the pass.  Control-plane quorum counts as part of the view's window.     *)

\* Evidence about target x that names the job's active attempt.
Names(e, j) == e.job = j /\ e.att = job[j].att

PolicyStale(j) == job[j].pol # policy

DependencyBroken(j) == \E d \in DependsOn[j] : job[d].state \in {"Cancelled", "Failed"}
DependencyIgnored(j) == FALSE
DependencyUnmet(j) == \E d \in DependsOn[j] : job[d].state # "Complete"

EvidenceStale(j) == ~(scope(j) \subseteq view.fresh)

\* What is out of service or spoken for, apart from job j itself.
baseline_reserved(j) == reserved_targets(ledger)
baseline(j) ==
    reserved_targets(ledger) \cup
    UNION {scope(k) : k \in {i \in Jobs \ {j} : stage_removes_service(job[i].state)}}

\* Redundancy, failure domains, headroom and contracts.
Intolerable(j) == ~satisfied(baseline(j), scope(j), view.serving)

Conflicting(j) ==
    \/ \E k \in Jobs \ {j} :
          /\ \/ stage_removes_service(job[k].state)
             \/ \E r \in expire(find_for_job(ledger, k, job[k].gen)) : TRUE
          /\ scope(k) \cap scope(j) # {}
    \/ \E r \in expire(ledger) : r.job # j /\ r.targets \cap scope(j) # {}

\* The job's reservation is live, and granted to its active attempt.
Misattributed(j) ==
    \E r \in expire(find_for_job(ledger, j, job[j].gen)) : r.att # job[j].att
UnauthorisedNever(j) == FALSE
Unauthorised(j) == expire(find_for_job(ledger, j, job[j].gen)) = {}

\* The drain lease is there, and evidence confirms it for every target.
Undrained(j) == j \in NeedsDrain /\ job[j].lease = 0
UnconfirmedLapsed(j) == j \in NeedsDrain /\ job[j].lease # 0 /\ view.lapsed
Unconfirmed(j) ==
    /\ j \in NeedsDrain /\ job[j].lease # 0
    /\ \/ view.lapsed
       \/ \E x \in scope(j) : ~(Names(confirmed[x], j) /\ confirmed[x].ok)

Violated(j) ==
    \/ PolicyStale(j) \/ DependencyBroken(j) \/ EvidenceStale(j) \/ Intolerable(j)
    \/ Conflicting(j) \/ ~view.window \/ Misattributed(j) \/ Unconfirmed(j)
Pending(j) == DependencyUnmet(j) \/ Unauthorised(j) \/ Undrained(j)
-----------------------------------------------------------------------------
(* A pass, with the mutex held.                                            *)

\* plan_tick: the jobs to drive, in id order.
runnable_unblocked == {"Validated", "Prerequisites", "Ready",
                       "InMaintenance", "Verifying", "Restoring"}
runnable_to_verified == {"Validated", "Prerequisites", "Ready", "Blocked",
                         "InMaintenance", "Verifying"}
runnable == {"Validated", "Prerequisites", "Ready", "Blocked",
             "InMaintenance", "Verifying", "Restoring"}
Remaining(at) == {j \in Jobs : j > at /\ job[j].state \in runnable}

\* arbitrate_locked considers jobs in Prerequisites that have an attempt and no
\* live reservation for it, in the order of Rank.
Candidates(at) ==
    {j \in Jobs : /\ job[j].state = "Prerequisites" /\ job[j].att # 0
                  /\ ~\E r \in expire(find_for_job(ledger, j, job[j].gen)) :
                        r.att = job[j].att
                  /\ Rank[j] > at}

\* tick: a pass begins.  It does not when shutdown has been requested.
PassIsDue(t) ==
    \/ tick[t].pc = "idle"
    \/ tick[t].pc = "act" /\ tick[t].todo = <<>> /\ tick[t].pass < MaxPasses
MayPass(t) == ~stopping /\ PassIsDue(t)

StartPass(t) ==
    /\ LockFree /\ MayPass(t)
    /\ \E v \in Views : view' = v
    /\ ledger' = expire(ledger)
    /\ deferred' = <<>>
    /\ tick' = [tick EXCEPT ![t] =
           [Idle EXCEPT !.pc = "drive", !.pass = tick[t].pass + 1,
                        !.todo = deferred]]
    /\ UNCHANGED <<job, leases, quarantined, evidence, boot, policy, inflight,
                   queued, stopping, port, reuse>>

\* The tick ends: no pass is left, or shutdown was requested.  (Its compaction
\* of the journal is in module Store.)
EndTick(t) ==
    /\ LockFree
    /\ tick[t].pc = "act" /\ tick[t].todo = <<>>
    /\ tick[t].pass = MaxPasses \/ stopping
    /\ tick' = [tick EXCEPT ![t] = Idle]
    /\ UNCHANGED <<store, inflight, queued, deferred, stopping, view, port, reuse>>

\* Ticker t has driven job j; acts are the calls this adds to the pass.
Drove(t, j, acts) ==
    tick' = [tick EXCEPT ![t].at = j, ![t].todo = @ \o acts]

\* Job j, which drive has changed to r, makes the transition to state to.
Goes(t, j, r, to, blk, L) ==
    /\ job' = [job EXCEPT ![j] = Moved(r, to, blk)]
    /\ ledger' = IF Retires(r, to) THEN FreedLedger(L, j, r) ELSE L
    /\ Drove(t, j, IF Retires(r, to) THEN FreedLease(j, r) ELSE <<>>)
    /\ UNCHANGED <<quarantined, inflight, queued>>

\* Job j stays in its state, as r.
Stays(t, j, r, L) ==
    /\ job' = [job EXCEPT ![j] = r]
    /\ ledger' = L
    /\ Drove(t, j, <<>>)
    /\ UNCHANGED <<quarantined, inflight, queued>>

\* quarantine_targets_locked, which goes on when a quarantine fails, then the
\* transition to Failed.
FailsPlainly(t, j, r) == Goes(t, j, r, "Failed", "soft", ledger)
FailsQuarantined(t, j, r) ==
    /\ \E Q \in SUBSET scope(j) :
          /\ Q = scope(j) \/ "append" \in Faults
          /\ quarantined' = quarantined \cup Q
    /\ job' = [job EXCEPT ![j] = Moved(r, "Failed", "soft")]
    /\ ledger' = FreedLedger(ledger, j, r)
    /\ Drove(t, j, FreedLease(j, r))
    /\ UNCHANGED <<inflight, queued>>
-----------------------------------------------------------------------------
(* drive_locked: one step of a job, according to its state.                *)

\* A target may turn out unknown or not maintainable; otherwise the removal set
\* is expanded and the job is bound to the current policy.
drive_validated(t, j) ==
    LET r == job[j]
        bound == [r EXCEPT !.pol = policy]
    IN  /\ r.state = "Validated"
        /\ \/ /\ "unknown" \in Calls
              /\ Goes(t, j, r, "Blocked", "hard", ledger)
           \/ Goes(t, j, IF r.att = 0 THEN NewAttempt(bound) ELSE bound,
                   "Prerequisites", "none", ledger)

\* An attempt, then authority (granted by arbitration), then the drain lease,
\* then every precondition.
drive_prerequisites(t, j) ==
    LET r == job[j]
        held == {x \in ledger : x.job = j /\ x.att = r.auth}
        L == renew(ledger, j, r.att, boot)
        draining == j \in NeedsDrain /\ r.lease = 0
    IN  /\ r.state = "Prerequisites"
        /\ \/ r.att = 0 /\ Stays(t, j, NewAttempt(r), ledger)
           \/ r.att # 0 /\ r.auth = 0 /\ Stays(t, j, r, ledger)
           \/ /\ r.att # 0 /\ r.auth # 0 /\ held = {}
              /\ Stays(t, j, [r EXCEPT !.auth = 0], ledger)
           \/ /\ r.att # 0 /\ held # {} /\ draining
              /\ r.drainFails >= MaxDrainFailures
              /\ Goes(t, j, r, "Blocked", "soft", L)
           \/ /\ r.att # 0 /\ held # {} /\ draining
              /\ r.drainFails < MaxDrainFailures /\ j \in inflight
              /\ Stays(t, j, r, L)
           \/ /\ r.att # 0 /\ held # {} /\ draining
              /\ r.drainFails < MaxDrainFailures /\ j \notin inflight
              /\ Drove(t, j, <<[kind |-> "Request", job |-> j, gen |-> r.gen,
                                att |-> r.att, lease |-> 0]>>)
              /\ inflight' = inflight \cup {j}
              /\ ledger' = L
              /\ UNCHANGED <<job, quarantined, queued>>
           \/ /\ r.att # 0 /\ held # {} /\ ~draining
              /\ \/ /\ Violated(j)
                    /\ Goes(t, j, r, "Blocked",
                            IF PolicyStale(j) THEN "hard" ELSE "soft", L)
                 \/ ~Violated(j) /\ Pending(j) /\ Stays(t, j, r, L)
                 \/ /\ ~Violated(j) /\ ~Pending(j)
                    /\ Goes(t, j, r, "Ready", "none", L)

\* Everything is evaluated again; only then is service removed.
drive_ready(t, j) ==
    LET r == job[j]
    IN  /\ r.state = "Ready"
        /\ \/ /\ Violated(j)
              /\ Goes(t, j, r, "Blocked",
                      IF PolicyStale(j) THEN "hard" ELSE "soft", ledger)
           \/ /\ ~Violated(j) /\ Pending(j)
              /\ Goes(t, j, r, "Prerequisites", "none", ledger)
           \/ /\ ~Violated(j) /\ ~Pending(j) /\ view.aged
              /\ Goes(t, j, r, "Prerequisites", "soft", ledger)
           \/ /\ ~Violated(j) /\ ~Pending(j) /\ ~view.aged
              /\ Goes(t, j, r, "InMaintenance", "none", ledger)

\* A block is left after the dwell, or at once when the policy has changed; a
\* hard one only in the second case.
drive_blocked(t, j) ==
    LET r == job[j]
        changed == r.pol # 0 /\ r.pol # policy
    IN  /\ r.state = "Blocked"
        /\ \/ /\ ~changed /\ (r.block = "hard" \/ r.dwell > 0)
              /\ Stays(t, j, r, ledger)
           \/ /\ changed \/ (r.block # "hard" /\ r.dwell = 0)
              /\ IF r.removed
                 THEN Goes(t, j, IF r.att = 0 THEN NewAttempt(r) ELSE r,
                           "Verifying", r.block, ledger)
                 ELSE Goes(t, j, r, "Prerequisites", "none", ledger)

completion_confirmed(j) ==
    ~view.lapsed /\ \A x \in scope(j) : Names(completed[x], j)

\* Waits for the executor's report on every target.  The window may close on the
\* job, which is noted in a pass of its own, whatever has been reported; or the
\* job is aborted, its targets quarantined.
drive_in_maintenance(t, j) ==
    LET r == job[j]
    IN  /\ r.state = "InMaintenance"
        /\ \/ /\ ~completion_confirmed(j) \/ "abort" \in Calls
              /\ Stays(t, j, r, ledger)
           \/ /\ ~completion_confirmed(j) /\ "abort" \in Calls
              /\ FailsQuarantined(t, j, r)
           \/ /\ completion_confirmed(j)
              /\ Goes(t, j,
                      [r EXCEPT !.failed = @ \/ \E x \in scope(j) : ~completed[x].ok],
                      "Verifying", "none", ledger)

\* Every target healthy and no negative restoration report.  Otherwise the
\* round goes on, or has taken too long: another one, up to MaxVerify.
drive_verifying(t, j) ==
    LET r == job[j]
        negative == ~view.lapsed /\ \E x \in scope(j) :
                        Names(checked[x], j) /\ ~checked[x].ok
        proven == scope(j) \subseteq view.serving /\ ~negative
        more == [r EXCEPT !.verFails = @ + 1]
    IN  /\ r.state = "Verifying"
        /\ \/ proven /\ Goes(t, j, [r EXCEPT !.ver = boot], "Restoring", "none", ledger)
           \/ ~proven /\ Stays(t, j, r, ledger)
           \/ ~proven /\ more.verFails < MaxVerify /\ Stays(t, j, more, ledger)
           \/ ~proven /\ more.verFails >= MaxVerify /\ FailsQuarantined(t, j, more)

\* The verdict goes on file for every target whose record is not refused.
RecordVerdict(j) ==
    \E W \in Writable(verdict, scope(j)) : verdict' = Observed(verdict, W, j, TRUE)

\* The drain lease is given back first; then every target has to be healthy and
\* free of quarantine.
drive_restoring(t, j) ==
    LET r == job[j]
        proven == scope(j) \subseteq view.serving \ quarantined
        more == [r EXCEPT !.restFails = @ + 1]
    IN  /\ r.state = "Restoring"
        /\ \/ /\ r.lease # 0 /\ (j \in inflight \/ r.lease \in queued)
              /\ Stays(t, j, r, ledger)
           \/ /\ r.lease # 0 /\ j \notin inflight /\ r.lease \notin queued
              /\ Drove(t, j, FreedLease(j, r))
              /\ queued' = queued \cup {r.lease}
              /\ UNCHANGED <<job, ledger, quarantined, inflight>>
           \/ r.lease = 0 /\ ~proven /\ Stays(t, j, r, ledger)
           \/ /\ r.lease = 0 /\ ~proven /\ more.restFails < MaxRestore
              /\ Stays(t, j, more, ledger)
           \/ /\ r.lease = 0 /\ ~proven /\ more.restFails >= MaxRestore
              /\ FailsQuarantined(t, j, more)
           \/ /\ r.lease = 0 /\ proven
              /\ IF r.failed THEN Goes(t, j, r, "Failed", "soft", ledger)
                 ELSE Goes(t, j, r, "Complete", "none", ledger)
        /\ IF r.lease = 0 /\ proven THEN RecordVerdict(j) ELSE UNCHANGED verdict

drive(t) ==
    /\ tick[t].pc = "drive"
    /\ \E j \in Remaining(tick[t].at) :
          /\ \A k \in Remaining(tick[t].at) : j <= k
          /\ \/ drive_restoring(t, j)
             \/ /\ \/ drive_validated(t, j) \/ drive_prerequisites(t, j)
                   \/ drive_ready(t, j) \/ drive_blocked(t, j)
                   \/ drive_in_maintenance(t, j) \/ drive_verifying(t, j)
                /\ UNCHANGED verdict
    /\ UNCHANGED <<leases, confirmed, completed, checked, boot, policy,
                   deferred, stopping, view, port, reuse>>

\* arbitrate_locked: one candidate per step.  The concurrency bound counts the
\* grants of this arbitration.  A job that is denied is blocked, unless it still
\* names an authority (it has just come back from Ready, its reservation having
\* expired); the release of its drain lease is left to the sweep.
arbitrate(t) ==
    LET T == tick[t]
        cs == Candidates(IF T.pc = "drive" THEN 0 ELSE T.at)
    IN  /\ \/ T.pc = "drive" /\ Remaining(T.at) = {}
           \/ T.pc = "arbitrate"
        /\ \E j \in cs :
             LET r == job[j]
                 granted == /\ T.grants < MaxConcurrent
                            /\ acquire_authority(ledger, j, r.gen, scope(j),
                                                 view.fresh, view.serving)
             IN  /\ \A k \in cs : Rank[j] <= Rank[k]
                 /\ tick' = [tick EXCEPT ![t].pc = "arbitrate", ![t].at = Rank[j],
                                 ![t].grants = IF granted THEN @ + 1 ELSE @]
                 /\ \/ /\ granted
                       /\ ledger' = reserve(ledger, j, r.gen, r.att, boot, scope(j))
                       /\ job' = [job EXCEPT ![j].auth = r.att]
                    \/ /\ ~granted /\ r.auth = 0
                       /\ job' = [job EXCEPT ![j] = Moved(r, "Blocked", "soft")]
                       /\ UNCHANGED ledger
                    \/ ~granted /\ r.auth # 0 /\ UNCHANGED <<job, ledger>>
        /\ UNCHANGED <<leases, quarantined, evidence, boot, policy, inflight,
                       queued, deferred, stopping, view, port, reuse>>

\* Leases on record that no live job names.
OrphansOfExpired ==
    {l \in leases \ queued :
        \A j \in Jobs : job[j].lease = l => expire(find_for_job(ledger, j, job[j].gen)) = {}}
Orphans ==
    {l \in leases \ queued :
        \A j \in Jobs : job[j].lease = l => is_terminal(job[j].state)}

\* drain_all_locked ends: orphaned leases are to be released.  With nothing to
\* call, the tick is over.
sweep(t) ==
    LET T == tick[t]
    IN  /\ \/ T.pc = "drive" /\ Remaining(T.at) = {} /\ Candidates(0) = {}
           \/ T.pc = "arbitrate" /\ Candidates(T.at) = {}
        /\ queued' = queued \cup Orphans
        /\ \E ids \in InOrder(Orphans) :
              LET todo == T.todo \o [i \in DOMAIN ids |-> ReleaseOf(ids[i])]
              IN  tick' = [tick EXCEPT ![t] =
                     IF todo = <<>> THEN Idle
                     ELSE [T EXCEPT !.pc = "act", !.at = 0, !.grants = 0, !.todo = todo]]
        /\ view' = NoView
        /\ UNCHANGED <<store, inflight, deferred, stopping, port, reuse>>
-----------------------------------------------------------------------------
(* The drain service, called with the mutex released.  What it does is     *)
(* external; LocalDrainPort and the service behind RemoteDrainPort agree   *)
(* on it, except for releasing a lease that is not there.                  *)

\* Ids that nothing refers to any more stand for the ids still to be issued.
Unused ==
    LeaseIds \ ({p.id : p \in port} \cup leases \cup queued
               \cup {job[j].lease : j \in Jobs}
               \cup {a.lease : a \in Range(deferred)}
               \cup (UNION {{a.lease : a \in Range(tick[t].todo)} : t \in Tickers})
               \cup {tick[t].out.lease : t \in Tickers})

Drained == IF "draining" \in Faults THEN BOOLEAN ELSE {TRUE}
\* next_id_ of LocalDrainPort starts again with the process, and comes to ids that
\* earlier incarnations have left on record.
NewLeases(a) ==
    {[id |-> l, job |-> a.job, att |-> a.att, drained |-> d] :
        l \in {u \in Unused : \A m \in Unused : u <= m} \cup reuse, d \in Drained}
Held(a) == {p \in port : p.job = a.job /\ p.att = a.att}

\* request_drain answers a repeated request of an attempt with its lease.
request_drain(a, out) ==
    \/ /\ "refuse" \in Faults
       /\ out = Failure
       /\ UNCHANGED <<port, reuse>>
    \/ \E p \in IF Held(a) # {} THEN Held(a) ELSE NewLeases(a) :
          /\ port' = port \cup {p}
          /\ reuse' = reuse \ {p.id}
          /\ \/ out = [status |-> "ok", lease |-> p.id, drained |-> p.drained]
             \/ "lost" \in Faults /\ out = Failure

\* release_drain of a lease that is not held is NotFound, which RemoteDrainPort
\* reports as the failure DrainFailed.
release_drain(a, out) ==
    LET answer(status) == [status |-> status, lease |-> a.lease, drained |-> FALSE]
        there == {p \in port : p.id = a.lease}
    IN  /\ \/ /\ there # {}
              /\ port' = port \ there
              /\ \/ out = answer("ok")
                 \/ "unacked" \in Faults /\ out = answer("error")
           \/ /\ there = {}
              /\ out = answer(IF Remote THEN "error" ELSE "notfound")
              /\ UNCHANGED port
           \/ /\ "release" \in Faults
              /\ out = answer("error")
              /\ UNCHANGED port
        /\ UNCHANGED reuse

\* tick marks the job (under the mutex) and calls the service (outside it).
perform_action(t) ==
    /\ LockFree
    /\ tick[t].pc = "act" /\ tick[t].todo # <<>>
    /\ LET a == Head(tick[t].todo)
       IN  \E out \in Outcomes :
             /\ \/ a.kind = "Request" /\ request_drain(a, out)
                \/ a.kind = "Release" /\ release_drain(a, out)
             /\ inflight' = inflight \cup ({a.job} \ {0})
             /\ tick' = [tick EXCEPT ![t].pc = "apply", ![t].act = a,
                             ![t].out = out, ![t].todo = Tail(@)]
    /\ UNCHANGED <<store, queued, deferred, stopping, view>>

\* The live jobs that name lease l.
holders_none(l) == {}
holders(l) == {j \in Jobs : job[j].lease = l /\ ~is_terminal(job[j].state)}

\* apply_outcomes_locked, for a release: the lease is off the record, and the
\* first live job that names it no longer does.
apply_release(a, out) ==
    LET gone == out.status \in {"ok", "notfound"}
        named == holders(a.lease)
    IN  /\ queued' = queued \ {a.lease}
        /\ leases' = IF gone THEN leases \ {a.lease} ELSE leases
        /\ job' = [j \in Jobs |->
                     IF gone /\ j \in named /\ \A k \in named : j <= k
                     THEN Touched([job[j] EXCEPT !.lease = 0]) ELSE job[j]]
        /\ UNCHANGED <<ledger, confirmed, deferred>>

\* A lease nobody wants any more is to be released in the next pass.
UndoForgotten(out) == UNCHANGED <<deferred, queued>>
Undo(out) ==
    /\ deferred' = Append(deferred, ReleaseOf(out.lease))
    /\ queued' = queued \cup {out.lease}

\* apply_outcomes_locked, for a request: the answer to an attempt that is no
\* longer the active one is undone, a failure is counted, a lease is recorded
\* together with the evidence for it.
apply_request(a, out) ==
    LET r == job[a.job]
        stale == r.gen # a.gen \/ r.att # a.att
        more == [r EXCEPT !.drainFails = @ + 1]
        blocked == Moved(more, "Blocked", "soft")
    IN  \/ /\ stale /\ out.status = "ok"
           /\ Undo(out)
           /\ UNCHANGED <<job, ledger, leases, confirmed>>
        \/ /\ stale /\ out.status # "ok"
           /\ UNCHANGED <<job, ledger, leases, confirmed, deferred, queued>>
        \/ /\ ~stale /\ out.status # "ok"
           /\ IF more.drainFails >= MaxDrainFailures
              THEN /\ job' = [job EXCEPT ![a.job] = Touched(blocked)]
                   /\ ledger' = IF Retires(more, "Blocked")
                                THEN FreedLedger(ledger, a.job, more) ELSE ledger
              ELSE job' = [job EXCEPT ![a.job] = Touched(more)] /\ UNCHANGED ledger
           /\ UNCHANGED <<leases, confirmed, deferred, queued>>
        \/ /\ ~stale /\ out.status = "ok"
           /\ leases' = leases \cup {out.lease}
           /\ job' = [job EXCEPT ![a.job] = Touched([r EXCEPT !.lease = out.lease])]
           /\ \E W \in Writable(confirmed, scope(a.job)) :
                 confirmed' = Observed(confirmed, W, a.job, out.drained)
           /\ UNCHANGED <<ledger, deferred, queued>>

apply_outcomes(t) ==
    LET T == tick[t]
    IN  /\ LockFree
        /\ T.pc = "apply"
        /\ inflight' = inflight \ {T.act.job}
        /\ \/ T.act.kind = "Release" /\ apply_release(T.act, T.out)
           \/ T.act.kind = "Request" /\ apply_request(T.act, T.out)
        /\ tick' = [tick EXCEPT ![t].pc = "act", ![t].act = NoAction,
                        ![t].out = NoOutcome]
        /\ UNCHANGED <<quarantined, completed, checked, verdict, boot, policy,
                       stopping, view, port, reuse>>
-----------------------------------------------------------------------------
(* Calls of operators and executors, each one section under the mutex.     *)

\* Ids are handed out in order; a dependency has to exist.
propose(j) ==
    /\ LockFree /\ ~stopping
    /\ job[j].state = "None"
    /\ \A i \in 1 .. j - 1 : job[i].state # "None"
    /\ \A d \in DependsOn[j] : job[d].state # "None"
    /\ job' = [job EXCEPT ![j].state = "Proposed", ![j].gen = 1]
    /\ UNCHANGED <<ledger, leases, quarantined, evidence, boot, policy, memory, port, reuse>>

approve_unvalidated(j) ==
    /\ LockFree
    /\ job[j].state = "Proposed"
    /\ job' = [job EXCEPT ![j].state = "Prerequisites"]
    /\ UNCHANGED <<ledger, leases, quarantined, evidence, boot, policy, memory, port, reuse>>
approve(j) ==
    /\ LockFree
    /\ job[j].state = "Proposed"
    /\ job' = [job EXCEPT ![j].state = "Validated"]
    /\ UNCHANGED <<ledger, leases, quarantined, evidence, boot, policy, memory, port, reuse>>

\* The next generation starts afresh, except that attempts are numbered on and
\* that the policy the job was bound to, and its removal set, stay.
Rearmed(r, to) ==
    [NoJob EXCEPT !.state = to, !.gen = r.gen + 1, !.next = r.next, !.pol = r.pol]

\* A new generation: the resources are given back before the lifecycle is asked,
\* so a job in Prerequisites is refused after its authority has been released.
rearm(j) ==
    LET r == job[j]
        to == IF r.state = "Proposed" THEN "Validated" ELSE "Prerequisites"
    IN  /\ LockFree /\ "rearm" \in Calls
        /\ r.state # "None" /\ ~r.removed /\ ~is_terminal(r.state)
        /\ r.gen < MaxGen
        /\ ledger' = FreedLedger(ledger, j, r)
        /\ IF check_transition(r.state, to, FALSE)
           THEN /\ job' = [job EXCEPT ![j] = Rearmed(r, to)]
                /\ deferred' = deferred \o FreedLease(j, r)
                /\ queued' = queued \cup Queues(r)
           ELSE UNCHANGED <<job, deferred, queued>>
        /\ UNCHANGED <<leases, quarantined, evidence, boot, policy, inflight,
                       stopping, tick, view, port, reuse>>

cancel(j) ==
    LET r == job[j]
    IN  /\ LockFree /\ "cancel" \in Calls
        /\ r.state # "None" /\ ~r.removed /\ ~is_terminal(r.state)
        /\ check_transition(r.state, "Cancelled", r.removed)
        /\ job' = [job EXCEPT ![j] = Moved(r, "Cancelled", "none")]
        /\ ledger' = FreedLedger(ledger, j, r)
        /\ deferred' = deferred \o FreedLease(j, r)
        /\ queued' = queued \cup Queues(r)
        /\ UNCHANGED <<leases, quarantined, evidence, boot, policy, inflight,
                       stopping, tick, view, port, reuse>>

\* The executor reports for the attempt it was given, which has to be the active
\* one.  The loop over the targets stops at the first record that is refused.
report_completion(j, ok) ==
    /\ LockFree
    /\ job[j].state = "InMaintenance"
    /\ ok \/ "failure" \in Calls
    /\ \E W \in SUBSET scope(j) :
          /\ W = scope(j) \/ \E x \in scope(j) \ W : MayRefuse(completed[x])
          /\ completed' = Observed(completed, W, j, ok)
    /\ completed' # completed
    /\ UNCHANGED <<job, ledger, leases, quarantined, confirmed, checked, verdict,
                   boot, policy, memory, port, reuse>>

\* Accepted in any state, for a target of the removal set; the commit restarts
\* the dwell of a blocked job.
report_restoration(j, x, ok) ==
    /\ LockFree /\ "restoration" \in Calls
    /\ job[j].att # 0
    /\ x \in scope(j)
    /\ \E W \in Writable(checked, {x}) :
          /\ checked' = Observed(checked, W, j, ok)
          /\ job' = IF W = {} THEN job ELSE [job EXCEPT ![j] = Touched(@)]
    /\ UNCHANGED <<ledger, leases, quarantined, confirmed, completed, verdict,
                   boot, policy, memory, port, reuse>>

clear_quarantine(x) ==
    /\ LockFree /\ "quarantine" \in Calls
    /\ x \in quarantined
    /\ quarantined' = quarantined \ {x}
    /\ UNCHANGED <<job, ledger, leases, evidence, boot, policy, memory, port, reuse>>

\* set_policy: a new revision (with the same limits).
set_policy ==
    /\ LockFree /\ "policy" \in Calls
    /\ policy < MaxPolicy
    /\ policy' = policy + 1
    /\ UNCHANGED <<job, ledger, leases, quarantined, evidence, boot, memory, port, reuse>>

shutdown ==
    /\ LockFree /\ "shutdown" \in Calls
    /\ ~stopping
    /\ stopping' = TRUE
    /\ UNCHANGED <<store, inflight, queued, deferred, tick, view, port, reuse>>
-----------------------------------------------------------------------------
(* Time and restarts.                                                      *)

Advance ==
    /\ LockFree
    /\ \/ \E j \in Jobs : job[j].dwell > 0
       \/ \E r \in ledger : r.ttl > 0
    /\ Timely => \A r \in ledger : r.ttl = 1 =>
                    job[r.job].state \notin {"Prerequisites", "Ready"}
    /\ job' = [j \in Jobs |-> [job[j] EXCEPT !.dwell = 0]]
    /\ ledger' = Elapse(ledger)
    /\ UNCHANGED <<leases, quarantined, evidence, boot, policy, memory, port, reuse>>

\* reconcile_locked, for one job: attempt and authority of the old incarnation
\* are void.  A job that has removed service gets a new attempt and authority
\* and keeps its drain lease; any other gives the lease back.
ReconciledInPlace(r) ==
    IF is_terminal(r.state) \/ r.state \in {"None", "Proposed", "Validated"} THEN r
    ELSE IF r.removed THEN [NewAttempt(r) EXCEPT !.auth = r.next]
    ELSE [r EXCEPT !.att = 0, !.auth = 0, !.state = "Blocked", !.block = "soft",
                   !.dwell = 1, !.lease = 0]
ReconciledAuthorised(r) ==
    IF is_terminal(r.state) \/ r.state \in {"None", "Proposed", "Validated"} THEN r
    ELSE IF r.removed THEN [NewAttempt(r) EXCEPT !.auth = r.next, !.state = "Blocked",
                                !.block = "soft", !.dwell = 1]
    ELSE [r EXCEPT !.att = 0, !.state = "Blocked", !.block = "soft", !.dwell = 1,
                   !.lease = 0]
Reconciled(r) ==
    LET fenced == [r EXCEPT !.att = 0, !.auth = 0, !.state = "Blocked",
                            !.block = "soft", !.dwell = 1]
        new == NewAttempt(fenced)
    IN  IF is_terminal(r.state) \/ r.state \in {"None", "Proposed", "Validated"}
        THEN r
        ELSE IF r.removed THEN [new EXCEPT !.auth = new.att]
        ELSE [fenced EXCEPT !.lease = 0]

\* Authority of the new incarnation for the jobs that removed service.
ReissuedNone(next) == {}
Reissued(next) ==
    UNION {reserve({}, j, next[j].gen, next[j].att, boot + 1, scope(j)) :
              j \in {i \in Jobs : job[i].removed /\ ~is_terminal(job[i].state)}}

\* The process dies, at any moment, and Controller::open brings up the next
\* incarnation from the store.  Calls under way are never applied.  LocalDrainPort
\* lives in the process: its leases are gone, and their ids are issued again.
Restart ==
    LET next == [j \in Jobs |-> Reconciled(job[j])]
        dropped == {j \in Jobs : job[j].lease # 0 /\ next[j].lease = 0}
    IN  /\ boot < MaxBoot
        /\ boot' = boot + 1
        /\ job' = next
        /\ ledger' = fence_older_incarnations(ledger, boot') \cup Reissued(next)
        /\ \E ids \in InOrder(dropped) :
              deferred' = [i \in DOMAIN ids |->
                              [ReleaseOf(job[ids[i]].lease) EXCEPT !.job = ids[i]]]
        /\ queued' = {job[j].lease : j \in dropped}
        /\ inflight' = {}
        /\ stopping' = FALSE
        /\ tick' = [t \in Tickers |-> Idle]
        /\ view' = NoView
        /\ port' = IF Remote THEN port ELSE {}
        /\ reuse' = IF Remote THEN {} ELSE leases \cup ({job[j].lease : j \in Jobs} \ {0})
        /\ UNCHANGED <<leases, quarantined, evidence, policy>>
-----------------------------------------------------------------------------
Init ==
    /\ job = [j \in Jobs |-> NoJob]
    /\ ledger = {} /\ leases = {} /\ quarantined = {}
    /\ confirmed = [x \in Targets |-> NoEvidence]
    /\ completed = [x \in Targets |-> NoEvidence]
    /\ checked = [x \in Targets |-> NoEvidence]
    /\ verdict = [x \in Targets |-> NoEvidence]
    /\ boot = 1 /\ policy = 1
    /\ inflight = {} /\ queued = {} /\ deferred = <<>> /\ stopping = FALSE
    /\ tick = [t \in Tickers |-> Idle]
    /\ view = NoView
    /\ port = {} /\ reuse = {}

Pass(t) == StartPass(t) \/ drive(t) \/ arbitrate(t) \/ sweep(t)
Call(t) == perform_action(t) \/ apply_outcomes(t)

Next ==
    \/ \E t \in Tickers : Pass(t) \/ Call(t) \/ EndTick(t)
    \/ \E j \in Jobs :
          \/ propose(j) \/ approve(j) \/ rearm(j) \/ cancel(j)
          \/ \E ok \in BOOLEAN : report_completion(j, ok)
          \/ \E x \in Targets, ok \in BOOLEAN : report_restoration(j, x, ok)
    \/ \E x \in Targets : clear_quarantine(x)
    \/ set_policy \/ shutdown \/ Advance \/ Restart

Spec == Init /\ [][Next]_vars

\* The ticker thread keeps ticking and its calls return; the clock moves on; the
\* executor reports the completion of what it was given.  The last two contend
\* for the mutex with the ticker, which sleeps between ticks.
Fairness ==
    /\ \A t \in Tickers : WF_vars(Pass(t)) /\ WF_vars(Call(t)) /\ WF_vars(EndTick(t))
    /\ SF_vars(Advance)
    /\ \A j \in Jobs : SF_vars(report_completion(j, TRUE))

FairSpec == Spec /\ Fairness
-----------------------------------------------------------------------------
(* Properties.                                                             *)

\* The variables keep their types.
TypeOK ==
    /\ job \in [Jobs -> JobRecord]
    /\ ledger \subseteq Reservation
    /\ leases \subseteq LeaseIds /\ queued \subseteq LeaseIds
    /\ quarantined \subseteq Targets
    /\ {confirmed, completed, checked, verdict} \subseteq [Targets -> Evidence]
    /\ boot \in Nat \ {0} /\ policy \in Nat \ {0}
    /\ inflight \subseteq Jobs
    /\ deferred \in Seq(Action)
    /\ stopping \in BOOLEAN
    /\ tick \in [Tickers -> TickRecord]
    /\ view \in Views \cup {NoView}
    /\ port \subseteq PortLease /\ reuse \subseteq LeaseIds

\* r may become n: the lifecycle allows the change of state, a removal is never
\* undone, and an ended job never changes again.
Lawful(r, n) ==
    /\ r.removed => n.removed
    /\ r.state # n.state =>
          \/ r.state = "None" /\ n.state = "Proposed"
          \/ check_transition(r.state, n.state, r.removed)
    /\ is_terminal(r.state) => n = r

\* Whoever changes a job (a pass, an answer of the drain service, an operator, a
\* restart), the change is lawful.  approve, rearm and reconcile_locked write the
\* state without asking transition_locked, and answers come late.
LifecycleRespected == [][\A j \in Jobs : Lawful(job[j], job'[j])]_vars

\* Jobs whose targets are out of service: removed and not yet ended.
Out == {j \in Jobs : job[j].removed /\ ~is_terminal(job[j].state)}

\* What is out of service at the same time never overlaps and never exceeds what
\* the failure domains allow, although authority expires during maintenance and
\* is not renewed: drive_ready evaluates against the jobs as well as the ledger.
JointlyTolerable ==
    /\ \A i, j \in Out : i # j => scope(i) \cap scope(j) = {}
    /\ \A d \in Domains : DomainKept(d, UNION {scope(j) : j \in Out})

\* The ledger by itself: live reservations never overlap, together stay within
\* the failure domains, belong to the running incarnation, and are at most one
\* per job, for its present generation.
LedgerSafe ==
    LET live_ones == expire(ledger)
    IN  /\ \A r, q \in live_ones : r # q => r.targets \cap q.targets = {}
        /\ \A d \in Domains : DomainKept(d, reserved_targets(ledger))
        /\ \A r \in ledger : r.owner = boot /\ r.gen = job[r.job].gen
        /\ \A r, q \in ledger : r.job = q.job => r = q

\* From the start of maintenance until verification has passed (once, whatever
\* restarts follow), the drain service holds the drained lease the job names.
DrainHeld ==
    \A j \in NeedsDrain :
        job[j].state \in {"InMaintenance", "Verifying"} /\ job[j].ver = 0 =>
            \E p \in port : p.id = job[j].lease /\ p.job = j /\ p.drained

\* A lease at the drain service is on record, or about to be: the request is
\* being applied, or its release is queued.
LeaseAccounted ==
    \A p \in port :
        \/ p.id \in leases \cup queued
        \/ \E t \in Tickers : tick[t].pc = "apply" /\ tick[t].out.lease = p.id

\* A job names a lease only if the lease is on record: otherwise nothing would
\* ever release it once the job ends.
NamedLeaseOnRecord ==
    \A j \in Jobs : job[j].lease # 0 => job[j].lease \in leases

\* Service is removed only on complete grounds, still standing when the step is
\* taken: a live reservation of this incarnation and attempt for the whole
\* scope, a drained lease granted to this attempt, every dependency complete,
\* and policy satisfied with everything out that is out.
StartIsJustified ==
    [][\A j \in Jobs :
         ~job[j].removed /\ job'[j].removed =>
            /\ scope(j) # {}
            /\ \E r \in ledger : /\ r.job = j /\ r.att = job[j].att /\ live(r)
                                 /\ r.owner = boot /\ r.targets = scope(j)
            /\ j \in NeedsDrain =>
                  \E p \in port : /\ p.id = job[j].lease /\ p.drained
                                  /\ p.job = j /\ p.att = job[j].att
            /\ \A d \in DependsOn[j] : job[d].state = "Complete"
            /\ satisfied(UNION {scope(k) : k \in Out}, scope(j), view.serving)]_vars

\* A job that removed service ends only in one of two ways: verified by this
\* incarnation and restored with no quarantine on its targets, or failed with
\* all of them quarantined.  A restart never lets an old verification count.
EndsRestoredOrQuarantined ==
    [][\A j \in Out :
         is_terminal(job'[j].state) =>
            \/ /\ job[j].ver = boot /\ job[j].lease = 0
               /\ scope(j) \cap quarantined = {}
               /\ scope(j) \subseteq view.serving
            \/ job'[j].state = "Failed" /\ scope(j) \subseteq quarantined']_vars

\* The restoration verdict is on file when a job completes.
VerdictRecorded ==
    [][\A j \in Jobs :
         job[j].state # "Complete" /\ job'[j].state = "Complete" =>
            \A k \in scope(j) : verdict'[k].job = j /\ verdict'[k].att = job[j].att]_vars

\* Authority and attempts never come from an earlier generation or incarnation:
\* what a job names is what it was granted last.
AuthorityIsCurrent ==
    \A j \in Jobs :
        /\ job[j].auth # 0 => job[j].auth = job[j].att
        /\ \A r \in ledger : r.job = j => r.att = job[j].att

\* At most max_concurrent_jobs jobs are out of service or authorised.
ConcurrencyBound == Cardinality(Out \cup {r.job : r \in expire(ledger)}) <= MaxConcurrent

\* After shutdown no drain request is made.
NoRequestAfterShutdown ==
    [][stopping /\ stopping' => \A p \in port' : p \in port]_vars

\* Once service is removed the job ends, however often the process restarts,
\* unless it is told to stop.
RemovalEnds == \A j \in Jobs : job[j].removed ~> is_terminal(job[j].state) \/ stopping

\* An approved job is not starved by the jobs it competes with, nor left behind
\* by the jobs it waits for once those are approved too, in an incarnation that is
\* neither stopped nor restarted.
ApprovedEnds ==
    \A j \in Jobs :
        (\A i \in {j} \cup DependsOn[j] : job[i].state \notin {"None", "Proposed"})
           ~> is_terminal(job[j].state) \/ boot > 1 \/ stopping

\* Re-arming is the operator's way out of a hard block: a validated job that was
\* put back to Prerequisites under a new generation gets on with its work once
\* the policy no longer changes.
RearmedEnds ==
    \A j \in Jobs :
        (/\ job[j].gen > 1 /\ job[j].pol # 0
         /\ job[j].state = "Prerequisites" /\ policy = MaxPolicy)
           ~> is_terminal(job[j].state)

\* After shutdown every ticker comes to rest, for as long as that incarnation
\* lasts.
Quiesces ==
    \A b \in 1 .. MaxBoot :
        stopping /\ boot = b ~> [](boot = b => \A t \in Tickers : tick[t].pc = "idle")
==============================================================================
