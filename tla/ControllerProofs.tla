--------------------------- MODULE ControllerProofs ---------------------------
(***************************************************************************)
(* Theorems about the controller, for every number of jobs, targets and    *)
(* tickers, every policy, every behaviour of the drain service and any     *)
(* number of restarts: the types, and that jobs change as the lifecycle    *)
(* allows.  First the inductive invariant, what records, ledger and        *)
(* tickers look like after an update, and the steps of a pass; then the    *)
(* remaining steps and the theorems.                                       *)
(***************************************************************************)
EXTENDS Controller, TLAPS

\* The records a job can have: an ended job has no attempt and no dwell.
EndedRecord(r) == is_terminal(r.state) => r.att = 0 /\ r.dwell = 0

\* The inductive invariant behind LifecycleRespected: an answer to a request, or
\* the clock, could otherwise still reach a job that has ended.
Ended == \A j \in Jobs : EndedRecord(job[j])
IInv == TypeOK /\ Ended
-----------------------------------------------------------------------------
(* Records.                                                                *)

\* q differs from the record r in neither state nor removal.
Keeps(q, r) == q \in JobRecord /\ q.state = r.state /\ q.removed = r.removed

\* Updating fields of a record with values of their types yields a record.
LEMMA AttemptUpdate ==
    ASSUME NEW r \in JobRecord, NEW a \in Nat, NEW n \in Nat
    PROVE  [r EXCEPT !.att = a, !.next = n] \in JobRecord
BY Zenon DEF JobRecord

LEMMA StateUpdate ==
    ASSUME NEW r \in JobRecord, NEW to \in JobState, NEW x \in BOOLEAN,
           NEW blk \in {"none", "soft", "hard"}, NEW d \in {0, 1}
    PROVE  [r EXCEPT !.state = to, !.block = blk, !.removed = x, !.dwell = d]
              \in JobRecord
BY Zenon DEF JobRecord

LEMMA FreeUpdate ==
    ASSUME NEW r \in JobRecord
    PROVE  /\ [r EXCEPT !.auth = 0, !.lease = 0] \in JobRecord
           /\ [r EXCEPT !.auth = 0, !.lease = 0, !.att = 0] \in JobRecord
BY Zenon DEF JobRecord

\* new_attempt_locked, commit_job_locked and transition_locked yield records.
LEMMA NewAttemptType ==
    ASSUME NEW r \in JobRecord
    PROVE  /\ NewAttempt(r) \in JobRecord
           /\ NewAttempt(r).state = r.state /\ NewAttempt(r).removed = r.removed
           /\ NewAttempt(r).att = r.next
<1>1. r.next \in Nat /\ r.next + 1 \in Nat
  BY DEF JobRecord
<1>2. NewAttempt(r) \in JobRecord
  BY <1>1, AttemptUpdate, Zenon DEF NewAttempt
<1>3. QED
  BY <1>2 DEF NewAttempt, JobRecord

LEMMA TouchedType ==
    ASSUME NEW r \in JobRecord
    PROVE  /\ Touched(r) \in JobRecord
           /\ Touched(r).state = r.state /\ Touched(r).removed = r.removed
           /\ Touched(r).att = r.att
           /\ r.state # "Blocked" => Touched(r).dwell = 0
BY DEF Touched, JobRecord

\* What transition_locked makes of a job is lawful, and a job it ends is ended.
LEMMA MovedType ==
    ASSUME NEW r \in JobRecord, NEW to \in JobState,
           NEW blk \in {"none", "soft", "hard"}, ~is_terminal(r.state)
    PROVE  LET q == Moved(r, to, blk)
           IN  /\ q \in JobRecord
               /\ r.removed => q.removed
               /\ r.state # q.state =>
                     q.state = to /\ check_transition(r.state, to, r.removed)
               /\ EndedRecord(q)
<1> DEFINE x == r.removed \/ to = "InMaintenance"
           d == IF to = "Blocked" THEN 1 ELSE 0
           m == [r EXCEPT !.state = to, !.block = blk, !.removed = x, !.dwell = d]
           q == Moved(r, to, blk)
<1>1. r.removed \in BOOLEAN /\ x \in BOOLEAN /\ d \in {0, 1}
  BY DEF JobRecord
<1>2. m \in JobRecord
  <2> HIDE DEF x, d
  <2> QED
    BY <1>1, StateUpdate, Zenon
<1>m. m.state = to /\ m.removed = x /\ m.dwell = d
  BY DEF JobRecord
<1>3. \/ q = r
      \/ /\ check_transition(r.state, to, r.removed)
         /\ \/ q = m /\ ~is_terminal(to)
            \/ q = [m EXCEPT !.auth = 0, !.lease = 0, !.att = 0]
            \/ q = [m EXCEPT !.auth = 0, !.lease = 0] /\ ~is_terminal(to)
  BY DEF Moved
<1> HIDE DEF x, d, m, q
<1>4. q \in JobRecord
  BY <1>2, <1>3, FreeUpdate, Zenon
<1>5. /\ r.removed => q.removed
      /\ r.state # q.state => q.state = to
      /\ EndedRecord(q)
  <2>1. CASE q = r
    BY <2>1 DEF EndedRecord
  <2>2. CASE q = m /\ ~is_terminal(to)
    BY <2>2, <1>m, Zenon DEF EndedRecord, x
  <2>3. CASE q = [m EXCEPT !.auth = 0, !.lease = 0, !.att = 0]
    <3>1. q.state = to /\ q.removed = x /\ q.dwell = d /\ q.att = 0
      BY <2>3, <1>2, <1>m DEF JobRecord
    <3>2. QED
      BY <3>1, Zenon DEF EndedRecord, x, d, is_terminal
  <2>4. CASE q = [m EXCEPT !.auth = 0, !.lease = 0] /\ ~is_terminal(to)
    <3>1. q.state = to /\ q.removed = x
      BY <2>4, <1>2, <1>m DEF JobRecord
    <3>2. QED
      BY <2>4, <3>1, Zenon DEF EndedRecord, x
  <2>5. QED
    BY <1>3, <2>1, <2>2, <2>3, <2>4
<1>6. QED
  BY <1>3, <1>4, <1>5 DEF q
-----------------------------------------------------------------------------
(* The ledger, drain actions and tickers.                                  *)

\* Every operation of the ledger yields reservations.
LEMMA LedgerType ==
    ASSUME NEW L \in SUBSET Reservation, NEW j \in Nat, NEW a \in Nat, NEW o \in Nat
    PROVE  /\ expire(L) \subseteq Reservation
           /\ release(L, j, a, o) \subseteq Reservation
           /\ fence_older_incarnations(L, o) \subseteq Reservation
BY DEF expire, release, fence_older_incarnations

LEMMA RenewType ==
    ASSUME NEW L \in SUBSET Reservation, NEW j \in Nat, NEW a \in Nat, NEW o \in Nat
    PROVE  renew(L, j, a, o) \subseteq Reservation
<1>1. Margin \in Nat
  BY LedgerAssumption
<1>2. \A r \in Reservation : [r EXCEPT !.ttl = @ + Margin] \in Reservation
  BY <1>1 DEF Reservation
<1>3. QED
  BY <1>2 DEF renew

LEMMA ElapseType ==
    ASSUME NEW L \in SUBSET Reservation
    PROVE  Elapse(L) \subseteq Reservation
<1>1. \A r \in Reservation :
         [r EXCEPT !.ttl = IF @ = 0 THEN 0 ELSE @ - 1] \in Reservation
  BY DEF Reservation
<1>2. QED
  BY <1>1 DEF Elapse

LEMMA ReserveType ==
    ASSUME NEW L \in SUBSET Reservation, NEW j \in Nat, NEW g \in Nat,
           NEW a \in Nat, NEW o \in Nat, NEW ts \in SUBSET Targets
    PROVE  reserve(L, j, g, a, o, ts) \subseteq Reservation
BY LedgerAssumption DEF reserve, Reservation

LEMMA JobsAreNat == Jobs \subseteq Nat /\ \A j \in Jobs : j \in 0 .. NumJobs /\ j # 0
BY ControllerAssumption DEF Jobs

LEMMA ScopeType == \A j \in Jobs : scope(j) \subseteq Targets
BY ControllerAssumption DEF scope

\* release_resources_locked.
LEMMA FreedType ==
    ASSUME NEW r \in JobRecord, NEW j \in Jobs, NEW L \in SUBSET Reservation,
           boot \in Nat
    PROVE  /\ FreedLedger(L, j, r) \subseteq Reservation
           /\ FreedLease(j, r) \in Seq(Action)
<1>1. r.auth \in Nat /\ r.gen \in Nat /\ r.att \in Nat /\ r.lease \in LeaseIds \cup {0}
  BY DEF JobRecord
<1>2. FreedLedger(L, j, r) \subseteq Reservation
  BY <1>1, LedgerType, JobsAreNat DEF FreedLedger
<1>3. [kind |-> "Release", job |-> j, gen |-> r.gen, att |-> r.att,
       lease |-> r.lease] \in Action
  BY <1>1, JobsAreNat DEF Action
<1>4. QED
  BY <1>2, <1>3 DEF FreedLease
-----------------------------------------------------------------------------
(* One job changes.                                                        *)

\* What every step does to the jobs, and what a pass does to the rest.
JobsLawful ==
    /\ job' \in [Jobs -> JobRecord] /\ Ended'
    /\ \A j \in Jobs : Lawful(job[j], job'[j])
PassTyped ==
    /\ ledger' \subseteq Reservation /\ tick' \in [Tickers -> TickRecord]
    /\ quarantined' \subseteq Targets /\ inflight' \subseteq Jobs
    /\ queued' \subseteq LeaseIds

LEMMA JobsUnchanged ==
    ASSUME IInv, UNCHANGED job
    PROVE  JobsLawful
BY DEF IInv, TypeOK, JobsLawful, Ended, Lawful

LEMMA JobChange ==
    ASSUME IInv, NEW j \in Jobs, NEW n \in JobRecord, EndedRecord(n),
           Lawful(job[j], n), job' = [job EXCEPT ![j] = n]
    PROVE  JobsLawful
<1>1. job \in [Jobs -> JobRecord] /\ Ended
  BY DEF IInv, TypeOK
<1>2. job' \in [Jobs -> JobRecord] /\ job'[j] = n /\ \A i \in Jobs \ {j} : job'[i] = job[i]
  BY <1>1
<1>3. \A i \in Jobs : EndedRecord(job'[i])
  BY <1>1, <1>2 DEF Ended
<1>4. \A i \in Jobs : Lawful(job[i], job'[i])
  BY <1>2 DEF Lawful
<1>5. QED
  BY <1>2, <1>3, <1>4 DEF JobsLawful, Ended

\* A change that leaves the state of a live job alone is lawful.
LEMMA SameState ==
    ASSUME NEW r \in JobRecord, NEW n, Keeps(n, r), ~is_terminal(r.state)
    PROVE  Lawful(r, n) /\ EndedRecord(n)
BY DEF Lawful, EndedRecord, Keeps

\* So is what transition_locked makes of a live job.
LEMMA MovedLawful ==
    ASSUME NEW r \in JobRecord, NEW q, Keeps(q, r), ~is_terminal(r.state),
           NEW to \in JobState, NEW blk \in {"none", "soft", "hard"}
    PROVE  /\ Moved(q, to, blk) \in JobRecord
           /\ EndedRecord(Moved(q, to, blk))
           /\ Lawful(r, Moved(q, to, blk))
<1>1. ~is_terminal(q.state) /\ q \in JobRecord
  BY DEF Keeps
<1>2. /\ Moved(q, to, blk) \in JobRecord
      /\ EndedRecord(Moved(q, to, blk))
      /\ q.removed => Moved(q, to, blk).removed
      /\ q.state # Moved(q, to, blk).state =>
            /\ Moved(q, to, blk).state = to
            /\ check_transition(q.state, to, q.removed)
  BY <1>1, MovedType
<1>3. QED
  BY <1>2 DEF Lawful, Keeps

LEMMA DroveType ==
    ASSUME IInv, NEW t \in Tickers, NEW j \in Jobs, NEW acts \in Seq(Action),
           Drove(t, j, acts)
    PROVE  tick' \in [Tickers -> TickRecord]
<1>1. tick \in [Tickers -> TickRecord]
  BY DEF IInv, TypeOK
<1>2. tick[t].todo \o acts \in Seq(Action)
  BY <1>1 DEF TickRecord
<1>3. j \in Nat
  BY JobsAreNat
<1>4. tick' = [tick EXCEPT ![t] =
                  [tick[t] EXCEPT !.at = j, !.todo = tick[t].todo \o acts]]
  BY <1>1, Zenon DEF Drove
<1>5. [tick[t] EXCEPT !.at = j, !.todo = tick[t].todo \o acts] \in TickRecord
  BY <1>1, <1>2, <1>3, Zenon DEF TickRecord
<1>6. QED
  BY <1>1, <1>4, <1>5

\* The three ways a driven job changes: it makes a transition, it stays in its
\* state, it fails and its targets are quarantined.
LEMMA GoesOK ==
    ASSUME IInv, NEW t \in Tickers, NEW j \in Jobs, NEW r, Keeps(r, job[j]),
           ~is_terminal(job[j].state), NEW to \in JobState,
           NEW blk \in {"none", "soft", "hard"}, NEW L \in SUBSET Reservation,
           Goes(t, j, r, to, blk, L)
    PROVE  JobsLawful /\ PassTyped
<1>1. job[j] \in JobRecord /\ boot \in Nat /\ r \in JobRecord
  BY DEF IInv, TypeOK, Keeps
<1>2. JobsLawful
  <2>1. /\ Moved(r, to, blk) \in JobRecord /\ EndedRecord(Moved(r, to, blk))
        /\ Lawful(job[j], Moved(r, to, blk))
    BY <1>1, MovedLawful
  <2>2. job' = [job EXCEPT ![j] = Moved(r, to, blk)]
    BY DEF Goes
  <2>3. QED
    BY <2>1, <2>2, JobChange, Zenon
<1>3. /\ FreedLedger(L, j, r) \subseteq Reservation
      /\ FreedLease(j, r) \in Seq(Action)
  BY <1>1, FreedType, Zenon
<1>4. tick' \in [Tickers -> TickRecord]
  <2> DEFINE acts == IF Retires(r, to) THEN FreedLease(j, r) ELSE <<>>
  <2>1. acts \in Seq(Action)
    BY <1>3
  <2>2. Drove(t, j, acts)
    BY DEF Goes
  <2> HIDE DEF acts
  <2>3. QED
    BY <2>1, <2>2, DroveType
<1>5. QED
  BY <1>2, <1>3, <1>4 DEF Goes, PassTyped, IInv, TypeOK

LEMMA StaysOK ==
    ASSUME IInv, NEW t \in Tickers, NEW j \in Jobs, NEW r, Keeps(r, job[j]),
           ~is_terminal(job[j].state), NEW L \in SUBSET Reservation,
           Stays(t, j, r, L)
    PROVE  JobsLawful /\ PassTyped
<1>1. job[j] \in JobRecord /\ r \in JobRecord
  BY DEF IInv, TypeOK, Keeps
<1>2. JobsLawful
  <2>1. Lawful(job[j], r) /\ EndedRecord(r)
    BY <1>1, SameState
  <2>2. job' = [job EXCEPT ![j] = r]
    BY DEF Stays
  <2>3. QED
    BY <1>1, <2>1, <2>2, JobChange, Zenon
<1>3. <<>> \in Seq(Action)
  OBVIOUS
<1>4. tick' \in [Tickers -> TickRecord]
  BY <1>3, DroveType, Zenon DEF Stays
<1>5. QED
  BY <1>2, <1>4 DEF Stays, PassTyped, IInv, TypeOK

LEMMA FailsOK ==
    ASSUME IInv, NEW t \in Tickers, NEW j \in Jobs, NEW r, Keeps(r, job[j]),
           ~is_terminal(job[j].state), FailsQuarantined(t, j, r)
    PROVE  JobsLawful /\ PassTyped
<1>1. /\ job[j] \in JobRecord /\ boot \in Nat /\ ledger \in SUBSET Reservation
      /\ r \in JobRecord
  BY Zenon DEF IInv, TypeOK, Keeps
<1>2. JobsLawful
  <2>1. "Failed" \in JobState
    BY DEF JobState
  <2>2. /\ Moved(r, "Failed", "soft") \in JobRecord
        /\ EndedRecord(Moved(r, "Failed", "soft"))
        /\ Lawful(job[j], Moved(r, "Failed", "soft"))
    BY <1>1, <2>1, MovedLawful
  <2>3. job' = [job EXCEPT ![j] = Moved(r, "Failed", "soft")]
    BY DEF FailsQuarantined
  <2>4. QED
    BY <2>2, <2>3, JobChange, Zenon
<1>3. /\ FreedLedger(ledger, j, r) \subseteq Reservation
      /\ FreedLease(j, r) \in Seq(Action)
  BY <1>1, FreedType, Zenon
<1>4. tick' \in [Tickers -> TickRecord]
  BY <1>3, DroveType DEF FailsQuarantined
<1>5. quarantined' \subseteq Targets
  <2>1. PICK Q \in SUBSET scope(j) : quarantined' = quarantined \cup Q
    BY Zenon DEF FailsQuarantined
  <2>2. QED
    BY <2>1, ScopeType, Zenon DEF IInv, TypeOK
<1>6. QED
  BY <1>2, <1>3, <1>4, <1>5 DEF FailsQuarantined, PassTyped, IInv, TypeOK
-----------------------------------------------------------------------------
(* drive_locked.                                                           *)

\* The states drive handles are live, and the targets of its transitions states.
LEMMA States ==
    /\ \A s \in runnable : ~is_terminal(s)
    /\ {"Blocked", "Prerequisites", "Ready", "InMaintenance", "Verifying",
        "Restoring", "Complete", "Failed", "Cancelled", "Validated",
        "Proposed"} \subseteq JobState
BY DEF runnable, is_terminal, JobState, Chain

\* Counting a failure, noting a verification, binding the policy.
LEMMA CountUpdate ==
    ASSUME NEW r \in JobRecord, NEW n \in Nat, NEW x \in BOOLEAN
    PROVE  /\ Keeps([r EXCEPT !.pol = n], r)
           /\ Keeps([r EXCEPT !.ver = n], r)
           /\ Keeps([r EXCEPT !.auth = n], r)
           /\ Keeps([r EXCEPT !.failed = x], r)
           /\ Keeps([r EXCEPT !.verFails = n], r)
           /\ Keeps([r EXCEPT !.restFails = n], r)
           /\ Keeps([r EXCEPT !.drainFails = n], r)
           /\ Keeps(NewAttempt(r), r)
<1>1. Keeps([r EXCEPT !.pol = n], r) /\ Keeps([r EXCEPT !.ver = n], r)
  BY DEF JobRecord, Keeps
<1>2. Keeps([r EXCEPT !.auth = n], r) /\ Keeps([r EXCEPT !.failed = x], r)
  BY DEF JobRecord, Keeps
<1>3. Keeps([r EXCEPT !.verFails = n], r) /\ Keeps([r EXCEPT !.restFails = n], r)
  BY DEF JobRecord, Keeps
<1>4. Keeps([r EXCEPT !.drainFails = n], r) /\ Keeps(NewAttempt(r), r)
  BY NewAttemptType DEF JobRecord, Keeps
<1>5. QED
  BY <1>1, <1>2, <1>3, <1>4, Zenon

\* What is known of a job that is driven.
LEMMA Kept ==
    ASSUME IInv, NEW j \in Jobs, job[j].state \in runnable
    PROVE  LET r == job[j]
           IN  /\ r \in JobRecord /\ Keeps(r, r) /\ ~is_terminal(r.state)
               /\ policy \in Nat /\ boot \in Nat /\ ledger \in SUBSET Reservation
               /\ r.att \in Nat /\ r.auth \in Nat /\ r.verFails \in Nat
               /\ r.restFails \in Nat /\ r.drainFails \in Nat
               /\ r.failed \in BOOLEAN /\ r.block \in {"none", "soft", "hard"}
BY States, Zenon DEF IInv, TypeOK, JobRecord, Keeps

LEMMA DriveValidatedOK ==
    ASSUME IInv, NEW t \in Tickers, NEW j \in Jobs, drive_validated(t, j)
    PROVE  JobsLawful /\ PassTyped
<1> DEFINE r == job[j]
           bound == [r EXCEPT !.pol = policy]
           q == IF r.att = 0 THEN NewAttempt(bound) ELSE bound
<1>1. /\ r \in JobRecord /\ Keeps(r, r) /\ ~is_terminal(r.state)
      /\ policy \in Nat /\ ledger \in SUBSET Reservation
  <2>1. job[j].state \in runnable
    BY DEF drive_validated, runnable
  <2>2. QED
    BY <2>1, Kept
<1>2. Keeps(bound, r)
  BY <1>1, CountUpdate, Zenon
<1>3. Keeps(q, r)
  <2>1. bound \in JobRecord
    BY <1>2 DEF Keeps
  <2> HIDE DEF bound
  <2>2. QED
    BY <1>2, <2>1, CountUpdate, Zenon DEF Keeps
<1>4. \/ Goes(t, j, r, "Blocked", "hard", ledger)
      \/ Goes(t, j, q, "Prerequisites", "none", ledger)
  BY DEF drive_validated
<1> HIDE DEF q
<1>5. QED
  BY <1>1, <1>3, <1>4, GoesOK, States, Zenon

LEMMA DriveReadyOK ==
    ASSUME IInv, NEW t \in Tickers, NEW j \in Jobs, drive_ready(t, j)
    PROVE  JobsLawful /\ PassTyped
<1>1. /\ Keeps(job[j], job[j]) /\ ~is_terminal(job[j].state)
      /\ ledger \in SUBSET Reservation
  <2>1. job[j].state \in runnable
    BY DEF drive_ready, runnable
  <2>2. QED
    BY <2>1, Kept
<1>2. \E to \in {"Blocked", "Prerequisites", "InMaintenance"},
         blk \in {"none", "soft", "hard"} : Goes(t, j, job[j], to, blk, ledger)
  BY DEF drive_ready
<1>3. QED
  BY <1>1, <1>2, GoesOK, States, SMTT(30)

LEMMA DriveBlockedOK ==
    ASSUME IInv, NEW t \in Tickers, NEW j \in Jobs, drive_blocked(t, j)
    PROVE  JobsLawful /\ PassTyped
<1> DEFINE r == job[j]
           q == IF r.att = 0 THEN NewAttempt(r) ELSE r
<1>1. /\ r \in JobRecord /\ Keeps(r, r) /\ ~is_terminal(r.state)
      /\ ledger \in SUBSET Reservation /\ r.block \in {"none", "soft", "hard"}
  <2>1. job[j].state \in runnable
    BY DEF drive_blocked, runnable
  <2>2. QED
    BY <2>1, Kept
<1>2. Keeps(q, r)
  BY <1>1, CountUpdate, Zenon
<1>3. \/ Stays(t, j, r, ledger)
      \/ Goes(t, j, q, "Verifying", r.block, ledger)
      \/ Goes(t, j, r, "Prerequisites", "none", ledger)
  BY Zenon DEF drive_blocked
<1> HIDE DEF q
<1>4. QED
  BY <1>1, <1>2, <1>3, GoesOK, StaysOK, States, SMTT(30)

LEMMA DriveInMaintenanceOK ==
    ASSUME IInv, NEW t \in Tickers, NEW j \in Jobs, drive_in_maintenance(t, j)
    PROVE  JobsLawful /\ PassTyped
<1> DEFINE r == job[j]
           x == r.failed \/ \E k \in scope(j) : ~completed[k].ok
           q == [r EXCEPT !.failed = x]
<1>1. /\ r \in JobRecord /\ Keeps(r, r) /\ ~is_terminal(r.state)
      /\ ledger \in SUBSET Reservation /\ r.failed \in BOOLEAN
  <2>1. job[j].state \in runnable
    BY DEF drive_in_maintenance, runnable
  <2>2. QED
    BY <2>1, Kept, Zenon
<1>2. Keeps(q, r)
  <2>1. x \in BOOLEAN
    BY <1>1
  <2> HIDE DEF x
  <2>2. QED
    BY <1>1, <2>1, CountUpdate, Zenon
<1>3. \/ Stays(t, j, r, ledger)
      \/ FailsQuarantined(t, j, r)
      \/ Goes(t, j, q, "Verifying", "none", ledger)
  BY DEF drive_in_maintenance
<1> HIDE DEF q
<1>4. QED
  BY <1>1, <1>2, <1>3, GoesOK, StaysOK, FailsOK, States, Zenon

LEMMA DriveVerifyingOK ==
    ASSUME IInv, NEW t \in Tickers, NEW j \in Jobs, drive_verifying(t, j)
    PROVE  JobsLawful /\ PassTyped
<1> DEFINE r == job[j]
           passed == [r EXCEPT !.ver = boot]
           more == [r EXCEPT !.verFails = @ + 1]
<1>1. /\ r \in JobRecord /\ Keeps(r, r) /\ ~is_terminal(r.state) /\ boot \in Nat
      /\ ledger \in SUBSET Reservation /\ r.verFails \in Nat
  <2>1. job[j].state \in runnable
    BY DEF drive_verifying, runnable
  <2>2. QED
    BY <2>1, Kept, Zenon
<1>2. Keeps(passed, r)
  BY <1>1, CountUpdate, Zenon
<1>3. Keeps(more, r)
  <2>1. r.verFails + 1 \in Nat /\ more = [r EXCEPT !.verFails = r.verFails + 1]
    BY <1>1
  <2>2. QED
    BY <1>1, <2>1, CountUpdate, Zenon
<1>4. \/ Goes(t, j, passed, "Restoring", "none", ledger)
      \/ Stays(t, j, r, ledger)
      \/ Stays(t, j, more, ledger)
      \/ FailsQuarantined(t, j, more)
  BY DEF drive_verifying
<1> HIDE DEF passed, more
<1>5. QED
  BY <1>1, <1>2, <1>3, <1>4, GoesOK, StaysOK, FailsOK, States, Zenon

LEMMA DriveRestoringOK ==
    ASSUME IInv, NEW t \in Tickers, NEW j \in Jobs, drive_restoring(t, j)
    PROVE  JobsLawful /\ PassTyped
<1> DEFINE r == job[j]
           more == [r EXCEPT !.restFails = @ + 1]
           releases == /\ r.lease # 0
                       /\ Drove(t, j, FreedLease(j, r))
                       /\ queued' = queued \cup {r.lease}
                       /\ UNCHANGED <<job, ledger, quarantined, inflight>>
<1>1. /\ r \in JobRecord /\ Keeps(r, r) /\ ~is_terminal(r.state) /\ boot \in Nat
      /\ ledger \in SUBSET Reservation /\ r.restFails \in Nat
  <2>1. job[j].state \in runnable
    BY DEF drive_restoring, runnable
  <2>2. QED
    BY <2>1, Kept
<1>2. Keeps(more, r)
  <2>1. r.restFails + 1 \in Nat /\ more = [r EXCEPT !.restFails = r.restFails + 1]
    BY <1>1
  <2>2. QED
    BY <1>1, <2>1, CountUpdate, Zenon
<1>3. \/ Stays(t, j, r, ledger)
      \/ Stays(t, j, more, ledger)
      \/ FailsQuarantined(t, j, more)
      \/ Goes(t, j, r, "Failed", "soft", ledger)
      \/ Goes(t, j, r, "Complete", "none", ledger)
      \/ releases
  BY DEF drive_restoring
<1>4. CASE releases
  <2>1. r.lease \in LeaseIds
    BY <1>1, <1>4, Zenon DEF JobRecord
  <2>2. FreedLease(j, r) \in Seq(Action)
    BY <1>1, FreedType, Zenon
  <2>3. tick' \in [Tickers -> TickRecord]
    BY <1>4, <2>2, DroveType
  <2>4. JobsLawful
    BY <1>4, JobsUnchanged
  <2>5. QED
    BY <1>4, <2>1, <2>3, <2>4 DEF PassTyped, IInv, TypeOK
<1> HIDE DEF more, releases
<1>5. QED
  BY <1>1, <1>2, <1>3, <1>4, GoesOK, StaysOK, FailsOK, States, Zenon

LEMMA DrivePrerequisitesOK ==
    ASSUME IInv, NEW t \in Tickers, NEW j \in Jobs, drive_prerequisites(t, j)
    PROVE  JobsLawful /\ PassTyped
<1> DEFINE r == job[j]
           L == renew(ledger, j, r.att, boot)
           new == NewAttempt(r)
           freed == [r EXCEPT !.auth = 0]
           asked == [kind |-> "Request", job |-> j, gen |-> r.gen,
                     att |-> r.att, lease |-> 0]
           asks == /\ r.att # 0
                   /\ Drove(t, j, <<asked>>)
                   /\ inflight' = inflight \cup {j}
                   /\ ledger' = L
                   /\ UNCHANGED <<job, quarantined, queued>>
<1>1. /\ r \in JobRecord /\ Keeps(r, r) /\ ~is_terminal(r.state) /\ boot \in Nat
      /\ ledger \in SUBSET Reservation /\ r.att \in Nat
  <2>1. job[j].state \in runnable
    BY DEF drive_prerequisites, runnable
  <2>2. QED
    BY <2>1, Kept
<1>2. L \in SUBSET Reservation
  BY <1>1, RenewType, JobsAreNat
<1>3. /\ Keeps(new, r)
      /\ Keeps(freed, r)
  BY <1>1, CountUpdate, Zenon
<1>4. \/ Stays(t, j, new, ledger)
      \/ Stays(t, j, r, ledger)
      \/ Stays(t, j, freed, ledger)
      \/ Goes(t, j, r, "Blocked", "soft", L)
      \/ Goes(t, j, r, "Blocked", "hard", L)
      \/ Stays(t, j, r, L)
      \/ Goes(t, j, r, "Ready", "none", L)
      \/ asks
  BY Zenon DEF drive_prerequisites
<1>5. CASE asks
  <2>1. asked \in Action
    BY <1>1, <1>5, JobsAreNat, Zenon DEF Action, JobRecord
  <2>2. <<asked>> \in Seq(Action)
    BY <2>1
  <2>3. tick' \in [Tickers -> TickRecord]
    BY <1>5, <2>2, DroveType, Zenon
  <2>4. JobsLawful
    BY <1>5, JobsUnchanged, Zenon
  <2>5. QED
    BY <1>2, <1>5, <2>3, <2>4, Zenon DEF PassTyped, IInv, TypeOK
<1> HIDE DEF L, new, freed, asks
<1>6. QED
  BY <1>1, <1>2, <1>3, <1>4, <1>5, GoesOK, StaysOK, States, Zenon
-----------------------------------------------------------------------------
(* The steps of a pass.                                                    *)

\* make_evidence_locked.
LEMMA ObservedType ==
    ASSUME IInv, NEW E \in [Targets -> Evidence], NEW W, NEW j \in Jobs,
           NEW ok \in BOOLEAN
    PROVE  Observed(E, W, j, ok) \in [Targets -> Evidence]
<1>1. job[j].att \in Nat /\ boot \in Nat /\ j \in Nat
  BY JobsAreNat DEF IInv, TypeOK, JobRecord
<1>2. [job |-> j, att |-> job[j].att, ok |-> ok, by |-> boot] \in Evidence
  BY <1>1 DEF Evidence
<1>3. QED
  BY <1>2 DEF Observed

\* The property of a step that the theorem is about.
StepOK == IInv' /\ JobsLawful

LEMMA Conclude ==
    ASSUME TypeOK', JobsLawful
    PROVE  StepOK
BY DEF StepOK, IInv, JobsLawful

LEMMA DriveOK ==
    ASSUME IInv, NEW t \in Tickers, drive(t)
    PROVE  StepOK
<1>1. PICK j \in Jobs :
         /\ \/ drive_restoring(t, j)
            \/ /\ \/ drive_validated(t, j) \/ drive_prerequisites(t, j)
                  \/ drive_ready(t, j) \/ drive_blocked(t, j)
                  \/ drive_in_maintenance(t, j) \/ drive_verifying(t, j)
               /\ UNCHANGED verdict
  BY Zenon DEF drive, Remaining
<1>2. JobsLawful /\ PassTyped
  BY <1>1, DriveRestoringOK, DriveValidatedOK, DrivePrerequisitesOK, DriveReadyOK,
     DriveBlockedOK, DriveInMaintenanceOK, DriveVerifyingOK
<1>3. verdict' \in [Targets -> Evidence]
  <2>1. verdict \in [Targets -> Evidence]
    BY Zenon DEF IInv, TypeOK
  <2>2. verdict' = verdict \/ \E W : verdict' = Observed(verdict, W, j, TRUE)
    BY <1>1, Zenon DEF drive_restoring, RecordVerdict
  <2>3. QED
    BY <2>1, <2>2, ObservedType, ZenonT(40)
<1>4. UNCHANGED <<leases, confirmed, completed, checked, boot, policy,
                  deferred, stopping, view, port, reuse>>
  BY Zenon DEF drive
<1>5. TypeOK'
  BY <1>2, <1>3, <1>4, SMTT(30) DEF JobsLawful, PassTyped, IInv, TypeOK
<1>6. QED
  BY <1>2, <1>5, Conclude

\* A ticker moves on.
LEMMA TickUpdate ==
    ASSUME NEW T \in TickRecord, NEW pc \in {"idle", "drive", "arbitrate", "act", "apply"},
           NEW at \in Nat, NEW n \in Nat, NEW todo \in Seq(Action),
           NEW act \in Action, NEW out \in Outcomes
    PROVE  /\ [T EXCEPT !.pc = pc, !.at = at, !.grants = n] \in TickRecord
           /\ [T EXCEPT !.pc = pc, !.at = at, !.grants = n, !.todo = todo] \in TickRecord
           /\ [T EXCEPT !.pc = pc, !.act = act, !.out = out, !.todo = todo] \in TickRecord
           /\ [T EXCEPT !.pc = pc, !.act = act, !.out = out] \in TickRecord
           /\ [T EXCEPT !.pc = pc, !.pass = n, !.todo = todo] \in TickRecord
BY Zenon DEF TickRecord

LEMMA IdleType ==
    /\ NoAction \in Action /\ NoOutcome \in Outcomes /\ Idle \in TickRecord
    /\ \A n \in Nat, todo \in Seq(Action) :
          [Idle EXCEPT !.pc = "drive", !.pass = n, !.todo = todo] \in TickRecord
<1>1. NoAction \in Action
  BY ControllerAssumption, SMTT(30) DEF NoAction, Action
<1>2. NoOutcome \in Outcomes
  BY DEF Outcomes
<1>3. Idle \in TickRecord
  <2>1. <<>> \in Seq(Action)
    OBVIOUS
  <2>2. QED
    BY <1>1, <1>2, <2>1, Zenon DEF Idle, TickRecord
<1>4. QED
  BY <1>1, <1>2, <1>3, TickUpdate, Zenon

LEMMA StartPassOK ==
    ASSUME IInv, NEW t \in Tickers, StartPass(t)
    PROVE  StepOK
<1>1. tick' \in [Tickers -> TickRecord]
  <2>1. tick[t].pass + 1 \in Nat /\ tick \in [Tickers -> TickRecord] /\ deferred \in Seq(Action)
    BY DEF IInv, TypeOK, TickRecord
  <2>2. QED
    BY <2>1, IdleType, Zenon DEF StartPass
<1>2. ledger' \subseteq Reservation
  BY DEF StartPass, expire, IInv, TypeOK
<1>3. deferred' \in Seq(Action) /\ view' \in Views \cup {NoView}
  BY DEF StartPass
<1>4. UNCHANGED <<job, leases, quarantined, evidence, boot, policy, inflight,
                  queued, stopping, port, reuse>>
  BY DEF StartPass
<1>5. TypeOK'
  BY <1>1, <1>2, <1>3, <1>4, Zenon DEF IInv, TypeOK, evidence
<1>6. QED
  BY <1>4, <1>5, JobsUnchanged, Conclude

LEMMA EndTickOK ==
    ASSUME IInv, NEW t \in Tickers, EndTick(t)
    PROVE  StepOK
<1>1. tick' \in [Tickers -> TickRecord]
  BY IdleType, Zenon DEF EndTick, IInv, TypeOK
<1>2. UNCHANGED <<store, inflight, queued, deferred, stopping, view, port, reuse>>
  BY DEF EndTick
<1>3. TypeOK'
  BY <1>1, <1>2 DEF IInv, TypeOK, store, evidence
<1>4. QED
  BY <1>2, <1>3, JobsUnchanged, Conclude DEF store

LEMMA ArbitrateOK ==
    ASSUME IInv, NEW t \in Tickers, arbitrate(t)
    PROVE  StepOK
<1>1. PICK j \in Jobs, n \in BOOLEAN :
         /\ job[j].state = "Prerequisites"
         /\ tick' = [tick EXCEPT ![t].pc = "arbitrate", ![t].at = Rank[j],
                         ![t].grants = IF n THEN @ + 1 ELSE @]
         /\ \/ /\ ledger' = reserve(ledger, j, job[j].gen, job[j].att, boot, scope(j))
               /\ job' = [job EXCEPT ![j].auth = job[j].att]
            \/ job' = [job EXCEPT ![j] = Moved(job[j], "Blocked", "soft")] /\ UNCHANGED ledger
            \/ UNCHANGED <<job, ledger>>
  BY Zenon DEF arbitrate, Candidates
<1>t. /\ job \in [Jobs -> JobRecord] /\ job[j] \in JobRecord /\ boot \in Nat
      /\ ledger \subseteq Reservation /\ tick \in [Tickers -> TickRecord]
  BY DEF IInv, TypeOK
<1>l. ~is_terminal(job[j].state) /\ "Blocked" \in JobState
  BY <1>1 DEF is_terminal, JobState
<1>2. JobsLawful
  <2>1. CASE job' = [job EXCEPT ![j].auth = job[j].att]
    <3>1. job[j].att \in Nat
      BY <1>t DEF JobRecord
    <3>2. Keeps([job[j] EXCEPT !.auth = job[j].att], job[j])
      BY <1>t, <3>1 DEF Keeps, JobRecord
    <3>3. job' = [job EXCEPT ![j] = [job[j] EXCEPT !.auth = job[j].att]]
      BY <2>1, <1>t
    <3>4. [job[j] EXCEPT !.auth = job[j].att] \in JobRecord
      BY <3>2 DEF Keeps
    <3>5. QED
      BY <1>t, <1>l, <3>2, <3>3, <3>4, SameState, JobChange, Zenon
  <2>2. CASE job' = [job EXCEPT ![j] = Moved(job[j], "Blocked", "soft")]
    <3>1. Keeps(job[j], job[j])
      BY <1>t DEF Keeps
    <3>2. QED
      BY <1>t, <1>l, <2>2, <3>1, MovedLawful, JobChange, Zenon
  <2>3. CASE UNCHANGED job
    BY <2>3, JobsUnchanged
  <2>4. QED
    BY <1>1, <2>1, <2>2, <2>3
<1>3. ledger' \subseteq Reservation
  <2>1. job[j].gen \in Nat /\ job[j].att \in Nat /\ j \in Nat
    BY <1>t, JobsAreNat DEF JobRecord
  <2>2. reserve(ledger, j, job[j].gen, job[j].att, boot, scope(j)) \subseteq Reservation
    BY <1>t, <2>1, ScopeType, ReserveType
  <2>3. QED
    BY <1>1, <1>t, <2>2
<1>4. tick' \in [Tickers -> TickRecord]
  <2> DEFINE m == IF n THEN tick[t].grants + 1 ELSE tick[t].grants
             T == [tick[t] EXCEPT !.pc = "arbitrate", !.at = Rank[j], !.grants = m]
  <2>1. tick[t] \in TickRecord /\ m \in Nat /\ Rank[j] \in Nat
    BY <1>t, ControllerAssumption, SMTT(30) DEF TickRecord
  <2>2. tick' = [tick EXCEPT ![t] = T]
    BY <1>1, <1>t, Zenon
  <2> HIDE DEF m
  <2>3. T \in TickRecord
    BY <2>1, Zenon DEF TickRecord
  <2> HIDE DEF T
  <2>4. QED
    BY <1>t, <2>2, <2>3, Zenon
<1>5. UNCHANGED <<leases, quarantined, evidence, boot, policy, inflight,
                  queued, deferred, stopping, view, port, reuse>>
  BY DEF arbitrate
<1>6. TypeOK'
  BY <1>2, <1>3, <1>4, <1>5, Zenon DEF JobsLawful, IInv, TypeOK, evidence
<1>7. QED
  BY <1>2, <1>6, Conclude

\* The ids of a set in order are a sequence of its elements.
LEMMA InOrderType ==
    ASSUME NEW S, NEW s \in InOrder(S)
    PROVE  /\ DOMAIN s = 1 .. Len(s) /\ Len(s) \in Nat
           /\ \A i \in DOMAIN s : s[i] \in S
<1>1. s \in Seq(S)
  BY DEF InOrder
<1>2. QED
  BY <1>1

LEMMA ReleaseType ==
    ASSUME NEW l \in LeaseIds \cup {0}
    PROVE  /\ ReleaseOf(l) \in Action
           /\ \A j \in Jobs : [ReleaseOf(l) EXCEPT !.job = j] \in Action
<1>1. \A a \in Action :
         /\ [a EXCEPT !.kind = "Release", !.lease = l] \in Action
         /\ [a EXCEPT !.kind = "Release", !.lease = l].kind = "Release"
  BY Zenon DEF Action
<1>2. \A a \in Action, j \in 0 .. NumJobs :
         a.kind = "Release" => [a EXCEPT !.job = j] \in Action
  BY DEF Action
<1>3. ReleaseOf(l) \in Action /\ ReleaseOf(l).kind = "Release"
  BY <1>1, IdleType, Zenon DEF ReleaseOf
<1>4. QED
  BY <1>2, <1>3, JobsAreNat

LEMMA SweepOK ==
    ASSUME IInv, NEW t \in Tickers, sweep(t)
    PROVE  StepOK
<1>1. PICK ids \in InOrder(Orphans) :
         LET todo == tick[t].todo \o [i \in DOMAIN ids |-> ReleaseOf(ids[i])]
         IN  tick' = [tick EXCEPT ![t] =
                IF todo = <<>> THEN Idle
                ELSE [tick[t] EXCEPT !.pc = "act", !.at = 0, !.grants = 0, !.todo = todo]]
  BY Zenon DEF sweep
<1>2. Orphans \subseteq LeaseIds
  BY DEF Orphans, IInv, TypeOK
<1>3. [i \in DOMAIN ids |-> ReleaseOf(ids[i])] \in Seq(Action)
  <2>1. /\ DOMAIN ids = 1 .. Len(ids) /\ Len(ids) \in Nat
        /\ \A i \in DOMAIN ids : ids[i] \in LeaseIds \cup {0}
    BY <1>2, InOrderType
  <2>2. \A i \in DOMAIN ids : ReleaseOf(ids[i]) \in Action
    BY <2>1, ReleaseType
  <2>3. QED
    BY <2>1, <2>2
<1>4. tick' \in [Tickers -> TickRecord]
  <2> DEFINE todo == tick[t].todo \o [i \in DOMAIN ids |-> ReleaseOf(ids[i])]
             T == [tick[t] EXCEPT !.pc = "act", !.at = 0, !.grants = 0, !.todo = todo]
  <2>1. tick \in [Tickers -> TickRecord] /\ tick[t] \in TickRecord
    BY DEF IInv, TypeOK
  <2>2. todo \in Seq(Action)
    BY <1>3, <2>1 DEF TickRecord
  <2>3. tick' = [tick EXCEPT ![t] = IF todo = <<>> THEN Idle ELSE T]
    BY <1>1
  <2> HIDE DEF todo
  <2>4. T \in TickRecord
    BY <2>1, <2>2, IdleType, TickUpdate, Zenon
  <2> HIDE DEF T
  <2>5. QED
    BY <2>1, <2>3, <2>4, IdleType, Zenon
<1>5. queued' \subseteq LeaseIds /\ view' \in Views \cup {NoView}
  BY <1>2 DEF sweep, IInv, TypeOK
<1>6. UNCHANGED <<store, inflight, deferred, stopping, port, reuse>>
  BY DEF sweep
<1>7. TypeOK'
  BY <1>4, <1>5, <1>6, Zenon DEF IInv, TypeOK, store, evidence
<1>8. QED
  BY <1>6, <1>7, JobsUnchanged, Conclude DEF store
-----------------------------------------------------------------------------
(* Calls of the drain service and their answers.                           *)

\* The service holds leases, whichever way it answers.
LEMMA RequestType ==
    ASSUME IInv, NEW a \in Action, NEW out, request_drain(a, out)
    PROVE  port' \subseteq PortLease /\ reuse' \subseteq LeaseIds
<1>1. /\ port \subseteq PortLease /\ reuse \subseteq LeaseIds
      /\ a.job \in Nat /\ a.att \in Nat
  BY ControllerAssumption, SMTT(30) DEF IInv, TypeOK, Action
<1>2. Unused \subseteq LeaseIds /\ Drained \subseteq BOOLEAN
  BY Zenon DEF Unused, Drained
<1>3. \A l \in LeaseIds, d \in BOOLEAN :
         [id |-> l, job |-> a.job, att |-> a.att, drained |-> d] \in PortLease
  BY <1>1, Zenon DEF PortLease
<1>4. NewLeases(a) \subseteq PortLease
  BY <1>1, <1>2, <1>3, SMTT(30) DEF NewLeases
<1>5. Held(a) \subseteq PortLease
  BY <1>1 DEF Held
<1>6. \/ UNCHANGED <<port, reuse>>
      \/ \E p \in IF Held(a) # {} THEN Held(a) ELSE NewLeases(a) :
            port' = port \cup {p} /\ reuse' = reuse \ {p.id}
  BY Zenon DEF request_drain
<1>7. QED
  BY <1>1, <1>4, <1>5, <1>6, SMTT(30)

LEMMA PerformActionOK ==
    ASSUME IInv, NEW t \in Tickers, perform_action(t)
    PROVE  StepOK
<1> DEFINE a == Head(tick[t].todo)
<1>1. PICK out \in Outcomes :
         /\ request_drain(a, out) \/ release_drain(a, out)
         /\ inflight' = inflight \cup ({a.job} \ {0})
         /\ tick' = [tick EXCEPT ![t].pc = "apply", ![t].act = a,
                         ![t].out = out, ![t].todo = Tail(@)]
  BY Zenon DEF perform_action
<1>2. /\ tick \in [Tickers -> TickRecord] /\ tick[t] \in TickRecord
      /\ tick[t].todo \in Seq(Action) /\ tick[t].todo # <<>>
  BY SMTT(30) DEF IInv, TypeOK, TickRecord, perform_action
<1>3. a \in Action /\ Tail(tick[t].todo) \in Seq(Action)
  BY <1>2
<1> HIDE DEF a
<1>4. tick' \in [Tickers -> TickRecord]
  <2> DEFINE todo == Tail(tick[t].todo)
             T == [tick[t] EXCEPT !.pc = "apply", !.act = a, !.out = out, !.todo = todo]
  <2>1. tick' = [tick EXCEPT ![t] = T]
    BY <1>1, <1>2, Zenon
  <2>2. todo \in Seq(Action)
    BY <1>3
  <2> HIDE DEF todo
  <2>3. T \in TickRecord
    BY <1>2, <1>3, <2>2, Zenon DEF TickRecord
  <2> HIDE DEF T
  <2>4. QED
    BY <1>2, <2>1, <2>3
<1>5. inflight' \subseteq Jobs
  <2>1. a.job \in 0 .. NumJobs /\ inflight \subseteq Jobs
    BY <1>3, SMTT(30) DEF Action, IInv, TypeOK
  <2>2. a.job # 0 => a.job \in Jobs
    BY <2>1, ControllerAssumption, SMTT(30) DEF Jobs
  <2>3. QED
    BY <1>1, <2>1, <2>2, Zenon
<1>6. port' \subseteq PortLease /\ reuse' \subseteq LeaseIds
  <2>1. CASE request_drain(a, out)
    BY <1>3, <2>1, RequestType
  <2>2. CASE release_drain(a, out)
    BY <2>2, Zenon DEF release_drain, IInv, TypeOK
  <2>3. QED
    BY <1>1, <2>1, <2>2
<1>7. UNCHANGED <<store, queued, deferred, stopping, view>>
  BY Zenon DEF perform_action
<1>8. TypeOK'
  BY <1>4, <1>5, <1>6, <1>7, Zenon DEF IInv, TypeOK, store, evidence
<1>9. QED
  BY <1>7, <1>8, JobsUnchanged, Conclude DEF store

\* What an answer may change.
AnswerTyped ==
    /\ ledger' \subseteq Reservation
    /\ leases' \subseteq LeaseIds /\ queued' \subseteq LeaseIds
    /\ confirmed' \in [Targets -> Evidence]
    /\ deferred' \in Seq(Action)

LEMMA LeaseUpdate ==
    ASSUME NEW r \in JobRecord, NEW l \in LeaseIds \cup {0}
    PROVE  Keeps([r EXCEPT !.lease = l], r)
BY DEF Keeps, JobRecord

LEMMA ApplyReleaseOK ==
    ASSUME IInv, NEW a \in Action, NEW out \in Outcomes, apply_release(a, out)
    PROVE  JobsLawful /\ AnswerTyped
<1>t. job \in [Jobs -> JobRecord] /\ Ended
  BY Zenon DEF IInv, TypeOK
<1>1. /\ job' \in [Jobs -> JobRecord]
      /\ \A j \in Jobs : Lawful(job[j], job'[j]) /\ EndedRecord(job'[j])
  <2>1. job' = [j \in Jobs |-> job'[j]]
    BY DEF apply_release
  <2>2. SUFFICES ASSUME NEW j \in Jobs
                 PROVE  /\ job'[j] \in JobRecord
                        /\ Lawful(job[j], job'[j]) /\ EndedRecord(job'[j])
    BY <2>1
  <2>3. CASE job'[j] = job[j]
    BY <1>t, <2>3, Zenon DEF Lawful, Ended
  <2>4. CASE job'[j] = Touched([job[j] EXCEPT !.lease = 0]) /\ ~is_terminal(job[j].state)
    <3> DEFINE q == [job[j] EXCEPT !.lease = 0]
    <3>1. job[j] \in JobRecord /\ Keeps(q, job[j])
      BY <1>t, LeaseUpdate, Zenon
    <3> HIDE DEF q
    <3>2. Keeps(Touched(q), job[j])
      BY <3>1, TouchedType, SMTT(30) DEF Keeps
    <3>3. QED
      BY <2>4, <3>1, <3>2, SameState DEF Keeps, q
  <2>5. QED
    BY <2>3, <2>4, SMTT(30) DEF apply_release, holders
<1>2. JobsLawful
  BY <1>1 DEF JobsLawful, Ended
<1>3. AnswerTyped
  BY Zenon DEF AnswerTyped, apply_release, IInv, TypeOK
<1>4. QED
  BY <1>2, <1>3

LEMMA UndoType ==
    ASSUME IInv, NEW out \in Outcomes, out.status = "ok", Undo(out)
    PROVE  deferred' \in Seq(Action) /\ queued' \subseteq LeaseIds
<1>1. out.lease \in LeaseIds
  BY DEF Outcomes, NoOutcome, Failure
<1>2. ReleaseOf(out.lease) \in Action
  BY <1>1, ReleaseType
<1>3. QED
  BY <1>1, <1>2, SMTT(30) DEF Undo, IInv, TypeOK

LEMMA RequestJob ==
    ASSUME NEW a \in Action, a.kind = "Request"
    PROVE  a.job \in Jobs /\ a.att # 0
BY ControllerAssumption DEF Action, Jobs

LEMMA ApplyRequestOK ==
    ASSUME IInv, NEW a \in Action, a.kind = "Request", NEW out \in Outcomes,
           apply_request(a, out)
    PROVE  JobsLawful /\ AnswerTyped
<1> DEFINE j == a.job
           r == job[j]
           more == [r EXCEPT !.drainFails = @ + 1]
<1>j. j \in Jobs /\ a.att # 0
  BY RequestJob, Zenon
<1>t. /\ r \in JobRecord /\ job \in [Jobs -> JobRecord] /\ EndedRecord(r)
      /\ boot \in Nat /\ ledger \subseteq Reservation
  BY <1>j, SMTT(30) DEF IInv, TypeOK, Ended
<1>0. AnswerTyped <=> /\ ledger' \subseteq Reservation
                      /\ leases' \subseteq LeaseIds /\ queued' \subseteq LeaseIds
                      /\ confirmed' \in [Targets -> Evidence]
                      /\ deferred' \in Seq(Action)
  BY DEF AnswerTyped
<1>1. CASE out.status = "ok" /\ Undo(out) /\ UNCHANGED <<job, ledger, leases, confirmed>>
  <2>1. deferred' \in Seq(Action) /\ queued' \subseteq LeaseIds
    BY <1>1, UndoType
  <2>2. QED
    BY <1>0, <1>1, <2>1, JobsUnchanged, ZenonT(40) DEF IInv, TypeOK
<1>2. CASE UNCHANGED <<job, ledger, leases, confirmed, deferred, queued>>
  BY <1>0, <1>2, JobsUnchanged, ZenonT(40) DEF IInv, TypeOK
<1>3. CASE /\ r.att = a.att
           /\ \/ /\ job' = [job EXCEPT ![j] = Touched(Moved(more, "Blocked", "soft"))]
                 /\ ledger' \in {FreedLedger(ledger, j, more), ledger}
              \/ job' = [job EXCEPT ![j] = Touched(more)] /\ UNCHANGED ledger
           /\ UNCHANGED <<leases, confirmed, deferred, queued>>
  <2>1. ~is_terminal(r.state)
    BY <1>3, <1>j, <1>t DEF EndedRecord
  <2>2. Keeps(more, r) /\ more \in JobRecord
    <3>1. r.drainFails + 1 \in Nat
      BY <1>t, SMTT(30) DEF JobRecord
    <3>2. [r EXCEPT !.drainFails = r.drainFails + 1] = more
      OBVIOUS
    <3> HIDE DEF r, more
    <3>3. QED
      BY <1>t, <3>1, <3>2, CountUpdate, Zenon DEF Keeps
  <2> HIDE DEF more
  <2>3. JobsLawful
    <3>1. CASE job' = [job EXCEPT ![j] = Touched(Moved(more, "Blocked", "soft"))]
      <4> DEFINE q == Moved(more, "Blocked", "soft")
      <4>1. q \in JobRecord /\ EndedRecord(q) /\ Lawful(r, q)
        BY <1>t, <2>1, <2>2, MovedLawful, States, SMTT(30)
      <4>n. ~is_terminal(q.state)
        <5>1. ~is_terminal("Blocked") /\ more.state = r.state
          BY <2>2, SMTT(30) DEF is_terminal, Keeps
        <5>2. q.state = "Blocked" \/ q.state = more.state
          BY <2>1, <2>2, <5>1, MovedType, States, ZenonT(40)
        <5>3. QED
          BY <2>1, <5>1, <5>2, ZenonT(40)
      <4> HIDE DEF q
      <4>2. /\ Touched(q) \in JobRecord /\ Touched(q).state = q.state
            /\ Touched(q).removed = q.removed
        BY <4>1, TouchedType, SMTT(30)
      <4>3. Lawful(r, Touched(q)) /\ EndedRecord(Touched(q))
        BY <2>1, <4>1, <4>2, <4>n, SMTT(30) DEF Lawful, EndedRecord
      <4> HIDE DEF r
      <4>4. QED
        BY <1>j, <3>1, <4>2, <4>3, JobChange, Zenon DEF q, r
    <3>2. CASE job' = [job EXCEPT ![j] = Touched(more)]
      <4>1. Keeps(Touched(more), r)
        BY <2>2, TouchedType, SMTT(30) DEF Keeps
      <4>2. Touched(more) \in JobRecord /\ Lawful(r, Touched(more)) /\ EndedRecord(Touched(more))
        BY <1>t, <2>1, <4>1, SameState, SMTT(30) DEF Keeps
      <4>3. QED
        BY <1>j, <3>2, <4>2, JobChange, Zenon
    <3>3. QED
      BY <1>3, <3>1, <3>2 DEF more
  <2>4. ledger' \subseteq Reservation
    BY <1>3, <1>t, <1>j, <2>2, FreedType DEF more
  <2>5. QED
    BY <1>0, <1>3, <2>3, <2>4, ZenonT(40) DEF IInv, TypeOK
<1>4. CASE /\ r.att = a.att /\ out.status = "ok"
           /\ leases' = leases \cup {out.lease}
           /\ job' = [job EXCEPT ![j] = Touched([r EXCEPT !.lease = out.lease])]
           /\ \E W : confirmed' = Observed(confirmed, W, j, out.drained)
           /\ UNCHANGED <<ledger, deferred, queued>>
  <2>1. ~is_terminal(r.state)
    BY <1>4, <1>j, <1>t DEF EndedRecord
  <2>2. out.lease \in LeaseIds /\ out.drained \in BOOLEAN
    BY <1>4 DEF Outcomes, NoOutcome, Failure
  <2> DEFINE q == [r EXCEPT !.lease = out.lease]
  <2>3. Keeps(q, r)
    BY <1>t, <2>2, LeaseUpdate, Zenon
  <2> HIDE DEF q
  <2>4. Keeps(Touched(q), r)
    BY <2>3, TouchedType, SMTT(30) DEF Keeps
  <2>5. Touched(q) \in JobRecord /\ Lawful(r, Touched(q)) /\ EndedRecord(Touched(q))
    BY <1>t, <2>1, <2>4, SameState, SMTT(30) DEF Keeps
  <2>6. JobsLawful
    BY <1>j, <1>4, <2>5, JobChange, Zenon DEF q
  <2>7. confirmed' \in [Targets -> Evidence]
    <3>1. confirmed \in [Targets -> Evidence]
      BY ZenonT(40) DEF IInv, TypeOK
    <3>2. PICK W : confirmed' = Observed(confirmed, W, j, out.drained)
      BY <1>4
    <3>3. QED
      BY <1>j, <2>2, <3>1, <3>2, ObservedType, SMTT(30)
  <2>8. QED
    BY <1>0, <1>4, <2>2, <2>6, <2>7, Zenon DEF IInv, TypeOK
<1>5. QED
  BY <1>1, <1>2, <1>3, <1>4, SMTT(30) DEF apply_request

LEMMA ApplyOutcomesOK ==
    ASSUME IInv, NEW t \in Tickers, apply_outcomes(t)
    PROVE  StepOK
<1>1. tick \in [Tickers -> TickRecord] /\ tick[t] \in TickRecord
  BY SMTT(30) DEF IInv, TypeOK
<1>2. tick[t].act \in Action /\ tick[t].out \in Outcomes
  BY <1>1, SMTT(30) DEF TickRecord
<1>3. JobsLawful /\ AnswerTyped
  BY <1>2, ApplyReleaseOK, ApplyRequestOK, SMTT(30) DEF apply_outcomes
<1>4. tick' \in [Tickers -> TickRecord]
  <2> DEFINE T == [tick[t] EXCEPT !.pc = "act", !.act = NoAction, !.out = NoOutcome]
  <2>1. tick' = [tick EXCEPT ![t] = T]
    BY <1>1, Zenon DEF apply_outcomes
  <2>2. T \in TickRecord
    BY <1>1, IdleType, Zenon DEF TickRecord
  <2> HIDE DEF T
  <2>3. QED
    BY <1>1, <2>1, <2>2
<1>5. inflight' \subseteq Jobs
  BY SMTT(30) DEF apply_outcomes, IInv, TypeOK
<1>6. UNCHANGED <<quarantined, completed, checked, verdict, boot, policy,
                  stopping, view, port, reuse>>
  BY SMTT(30) DEF apply_outcomes
<1>7. TypeOK'
  BY <1>3, <1>4, <1>5, <1>6, SMTT(30) DEF JobsLawful, AnswerTyped, IInv, TypeOK
<1>8. QED
  BY <1>3, <1>7, Conclude
-----------------------------------------------------------------------------
(* Calls of operators and executors.                                       *)

LEMMA ChainStep == check_transition("Proposed", "Validated", FALSE)
                   /\ check_transition("Proposed", "Validated", TRUE)
<1>1. stage_index["Proposed"] = 0 /\ stage_index["Validated"] = 1
  BY DEF stage_index, Chain
<1>2. AlongChain("Proposed", "Validated", FALSE) /\ AlongChain("Proposed", "Validated", TRUE)
  BY <1>1 DEF AlongChain, Chain
<1>3. QED
  BY <1>2, Zenon DEF check_transition, is_terminal

LEMMA ProposeOK ==
    ASSUME IInv, NEW j \in Jobs, propose(j) \/ approve(j)
    PROVE  StepOK
<1>1. job[j] \in JobRecord /\ job \in [Jobs -> JobRecord]
  BY SMTT(30) DEF IInv, TypeOK
<1>2. JobsLawful
  <2>1. CASE propose(j)
    <3> DEFINE n == [job[j] EXCEPT !.state = "Proposed", !.gen = 1]
    <3>1. job' = [job EXCEPT ![j] = n] /\ job[j].state = "None"
      BY <1>1, <2>1, Zenon DEF propose
    <3>2. n \in JobRecord /\ n.state = "Proposed" /\ n.removed = job[j].removed
      BY <1>1, States, Zenon DEF JobRecord
    <3> HIDE DEF n
    <3>3. Lawful(job[j], n) /\ EndedRecord(n)
      BY <3>1, <3>2, SMTT(30) DEF Lawful, EndedRecord, is_terminal
    <3>4. QED
      BY <3>1, <3>2, <3>3, JobChange, Zenon
  <2>2. CASE approve(j)
    <3> DEFINE n == [job[j] EXCEPT !.state = "Validated"]
    <3>1. job' = [job EXCEPT ![j] = n] /\ job[j].state = "Proposed"
      BY <1>1, <2>2 DEF approve
    <3>2. n \in JobRecord /\ n.state = "Validated" /\ n.removed = job[j].removed
      BY <1>1, States DEF JobRecord
    <3>3. job[j].removed \in BOOLEAN
      BY <1>1, SMTT(30) DEF JobRecord
    <3> HIDE DEF n
    <3>4. check_transition(job[j].state, n.state, job[j].removed)
      BY <3>1, <3>2, <3>3, ChainStep, Zenon
    <3>5. Lawful(job[j], n) /\ EndedRecord(n)
      BY <3>1, <3>2, <3>4, SMTT(30) DEF Lawful, EndedRecord, is_terminal
    <3>6. QED
      BY <3>1, <3>2, <3>5, JobChange, Zenon
  <2>3. QED
    BY <2>1, <2>2
<1>3. UNCHANGED <<ledger, leases, quarantined, evidence, boot, policy, memory, port, reuse>>
  BY DEF propose, approve
<1>4. TypeOK'
  BY <1>2, <1>3, Zenon DEF JobsLawful, IInv, TypeOK, evidence, memory
<1>5. QED
  BY <1>2, <1>4, Conclude, Zenon

\* Giving back what a job holds.
LEMMA GivesBack ==
    ASSUME IInv, NEW j \in Jobs
    PROVE  /\ FreedLedger(ledger, j, job[j]) \subseteq Reservation
           /\ deferred \o FreedLease(j, job[j]) \in Seq(Action)
           /\ queued \cup Queues(job[j]) \subseteq LeaseIds
<1>1. job[j] \in JobRecord /\ boot \in Nat /\ ledger \in SUBSET Reservation
      /\ deferred \in Seq(Action) /\ queued \subseteq LeaseIds
  BY SMTT(30) DEF IInv, TypeOK
<1>2. /\ FreedLedger(ledger, j, job[j]) \subseteq Reservation
      /\ FreedLease(j, job[j]) \in Seq(Action)
  BY <1>1, FreedType, Zenon
<1>3. Queues(job[j]) \subseteq LeaseIds
  BY <1>1, ZenonT(40) DEF Queues, JobRecord
<1>4. QED
  BY <1>1, <1>2, <1>3, SMTT(30)

LEMMA RearmUpdate ==
    ASSUME NEW n \in JobRecord, NEW to \in JobState, NEW g \in Nat, NEW x \in Nat,
           NEW p \in Nat
    PROVE  [n EXCEPT !.state = to, !.gen = g, !.next = x, !.pol = p] \in JobRecord
BY Zenon DEF JobRecord

LEMMA RearmedType ==
    ASSUME NEW r \in JobRecord, NEW to \in JobState
    PROVE  /\ Rearmed(r, to) \in JobRecord
           /\ Rearmed(r, to).state = to /\ EndedRecord(Rearmed(r, to))
<1> DEFINE g == r.gen + 1
           x == r.next
           p == r.pol
           n == NoJob
<1>1. g \in Nat /\ x \in Nat /\ p \in Nat
  BY SMTT(30) DEF JobRecord
<1>2. n \in JobRecord /\ n.att = 0 /\ n.dwell = 0
  BY ZenonT(40) DEF NoJob, JobRecord
<1>3. Rearmed(r, to) = [n EXCEPT !.state = to, !.gen = g, !.next = x, !.pol = p]
  BY DEF Rearmed
<1> HIDE DEF g, x, p, n
<1>4. Rearmed(r, to) \in JobRecord
  <2>1. [n EXCEPT !.state = to, !.gen = g, !.next = x, !.pol = p] \in JobRecord
    BY <1>1, <1>2, RearmUpdate, Zenon
  <2>2. QED
    BY <1>3, <2>1
<1>5. Rearmed(r, to).state = to /\ Rearmed(r, to).att = 0 /\ Rearmed(r, to).dwell = 0
  BY <1>2, <1>3 DEF JobRecord
<1>6. QED
  BY <1>4, <1>5, SMTT(30) DEF EndedRecord

LEMMA RearmOK ==
    ASSUME IInv, NEW j \in Jobs, rearm(j)
    PROVE  StepOK
<1> DEFINE r == job[j]
           to == IF r.state = "Proposed" THEN "Validated" ELSE "Prerequisites"
<1>t. r \in JobRecord /\ to \in JobState
  BY States, SMTT(30) DEF IInv, TypeOK
<1>1. ~is_terminal(r.state) /\ ~r.removed
  BY SMTT(30) DEF rearm
<1>2. \/ /\ check_transition(r.state, to, FALSE)
         /\ job' = [job EXCEPT ![j] = Rearmed(r, to)]
         /\ deferred' = deferred \o FreedLease(j, r)
         /\ queued' = queued \cup Queues(r)
      \/ UNCHANGED <<job, deferred, queued>>
  BY Zenon DEF rearm
<1>3. JobsLawful
  <2>1. CASE check_transition(r.state, to, FALSE) /\ job' = [job EXCEPT ![j] = Rearmed(r, to)]
    <3> HIDE DEF r, to
    <3>1. r.removed \in BOOLEAN
      BY <1>t DEF JobRecord
    <3>2. check_transition(r.state, to, r.removed)
      BY <1>1, <2>1, <3>1, Zenon
    <3>3. Lawful(r, Rearmed(r, to))
      BY <1>t, <1>1, <3>2, RearmedType, SMTT(30) DEF Lawful
    <3>4. QED
      BY <1>t, <2>1, <3>3, RearmedType, JobChange, Zenon DEF r
  <2>2. QED
    BY <1>2, <2>1, JobsUnchanged, Zenon
<1>4. /\ ledger' \subseteq Reservation /\ deferred' \in Seq(Action)
      /\ queued' \subseteq LeaseIds
  <2>1. ledger' = FreedLedger(ledger, j, r)
    BY SMTT(30) DEF rearm
  <2>2. deferred \in Seq(Action) /\ queued \subseteq LeaseIds
    BY SMTT(30) DEF IInv, TypeOK
  <2>3. QED
    BY <1>2, <2>1, <2>2, GivesBack, Zenon
<1>5. UNCHANGED <<leases, quarantined, evidence, boot, policy, inflight,
                  stopping, tick, view, port, reuse>>
  BY SMTT(30) DEF rearm
<1>6. TypeOK'
  BY <1>3, <1>4, <1>5, ZenonT(40) DEF JobsLawful, IInv, TypeOK, evidence
<1>7. QED
  BY <1>3, <1>6, Conclude, SMTT(30)

LEMMA CancelOK ==
    ASSUME IInv, NEW j \in Jobs, cancel(j)
    PROVE  StepOK
<1>1. /\ job' = [job EXCEPT ![j] = Moved(job[j], "Cancelled", "none")]
      /\ ~is_terminal(job[j].state)
      /\ ledger' = FreedLedger(ledger, j, job[j])
      /\ deferred' = deferred \o FreedLease(j, job[j])
      /\ queued' = queued \cup Queues(job[j])
  BY SMTT(30) DEF cancel
<1>2. job[j] \in JobRecord /\ Keeps(job[j], job[j])
  BY ZenonT(40) DEF IInv, TypeOK, Keeps
<1>3. JobsLawful
  BY <1>1, <1>2, MovedLawful, JobChange, States, Zenon
<1>4. /\ ledger' \subseteq Reservation /\ deferred' \in Seq(Action)
      /\ queued' \subseteq LeaseIds
  BY <1>1, GivesBack, SMTT(30)
<1>5. UNCHANGED <<leases, quarantined, evidence, boot, policy, inflight,
                  stopping, tick, view, port, reuse>>
  BY SMTT(30) DEF cancel
<1>6. TypeOK'
  BY <1>3, <1>4, <1>5, ZenonT(40) DEF JobsLawful, IInv, TypeOK, evidence
<1>7. QED
  BY <1>3, <1>6, Conclude

LEMMA ReportCompletionOK ==
    ASSUME IInv, NEW j \in Jobs, NEW ok \in BOOLEAN, report_completion(j, ok)
    PROVE  StepOK
<1>1. completed \in [Targets -> Evidence]
  BY ZenonT(40) DEF IInv, TypeOK
<1>2. PICK W : completed' = Observed(completed, W, j, ok)
  BY Zenon DEF report_completion
<1>3. completed' \in [Targets -> Evidence]
  BY <1>1, <1>2, ObservedType, SMTT(30)
<1>4. UNCHANGED <<job, ledger, leases, quarantined, confirmed, checked, verdict,
                  boot, policy, memory, port, reuse>>
  BY ZenonT(40) DEF report_completion
<1>5. TypeOK'
  BY <1>3, <1>4, Zenon DEF IInv, TypeOK, memory
<1>6. QED
  BY <1>4, <1>5, JobsUnchanged, Conclude, SMTT(30)

LEMMA ReportRestorationOK ==
    ASSUME IInv, NEW j \in Jobs, NEW x \in Targets, NEW ok \in BOOLEAN,
           report_restoration(j, x, ok)
    PROVE  StepOK
<1>t. job \in [Jobs -> JobRecord] /\ job[j] \in JobRecord /\ Ended
      /\ checked \in [Targets -> Evidence]
  BY ZenonT(40) DEF IInv, TypeOK
<1>1. PICK W : /\ checked' = Observed(checked, W, j, ok)
               /\ job' = IF W = {} THEN job ELSE [job EXCEPT ![j] = Touched(@)]
  BY SMTT(30) DEF report_restoration
<1>2. ~is_terminal(job[j].state)
  BY <1>t, SMTT(30) DEF report_restoration, Ended, EndedRecord
<1>3. Keeps(Touched(job[j]), job[j])
  BY <1>t, TouchedType, SMTT(30) DEF Keeps
<1>4. Touched(job[j]) \in JobRecord /\ Lawful(job[j], Touched(job[j]))
      /\ EndedRecord(Touched(job[j]))
  BY <1>t, <1>2, <1>3, SameState, SMTT(30) DEF Keeps
<1>5. JobsLawful
  <2>1. job' = job \/ job' = [job EXCEPT ![j] = Touched(job[j])]
    BY <1>1, SMTT(30)
  <2>2. QED
    BY <1>4, <2>1, JobsUnchanged, JobChange, SMTT(30)
<1>6. checked' \in [Targets -> Evidence]
  BY <1>1, <1>t, ObservedType, SMTT(30)
<1>7. UNCHANGED <<ledger, leases, quarantined, confirmed, completed, verdict,
                  boot, policy, memory, port, reuse>>
  BY SMTT(30) DEF report_restoration
<1>8. TypeOK'
  BY <1>5, <1>6, <1>7, ZenonT(40) DEF JobsLawful, IInv, TypeOK, memory
<1>9. QED
  BY <1>5, <1>8, Conclude

LEMMA ClearQuarantineOK ==
    ASSUME IInv, NEW x \in Targets, clear_quarantine(x)
    PROVE  StepOK
<1>1. UNCHANGED <<job, ledger, leases, evidence, boot, policy, memory, port, reuse>>
      /\ quarantined' \subseteq Targets
  BY ZenonT(40) DEF clear_quarantine, IInv, TypeOK
<1>2. TypeOK'
  BY <1>1, Zenon DEF IInv, TypeOK, evidence, memory
<1>3. QED
  BY <1>1, <1>2, JobsUnchanged, Conclude

LEMMA SetPolicyOK ==
    ASSUME IInv, set_policy
    PROVE  StepOK
<1>0. policy \in Nat \ {0}
  BY SMTT(30) DEF IInv, TypeOK
<1>1. UNCHANGED <<job, ledger, leases, quarantined, evidence, boot, memory, port, reuse>>
      /\ policy' \in Nat \ {0}
  BY <1>0, SMTT(30) DEF set_policy
<1>2. TypeOK'
  BY <1>1, ZenonT(40) DEF IInv, TypeOK, evidence, memory
<1>3. QED
  BY <1>1, <1>2, JobsUnchanged, Conclude, SMTT(30)

LEMMA ShutdownOK ==
    ASSUME IInv, shutdown
    PROVE  StepOK
<1>1. UNCHANGED <<store, inflight, queued, deferred, tick, view, port, reuse>>
      /\ stopping' \in BOOLEAN
  BY SMTT(30) DEF shutdown
<1>2. TypeOK'
  BY <1>1, ZenonT(40) DEF IInv, TypeOK, evidence, store
<1>3. QED
  BY <1>1, <1>2, JobsUnchanged, Conclude, SMTT(30) DEF store
-----------------------------------------------------------------------------
(* Time and restarts.                                                      *)

\* The dwell of an ended job is over: the clock does not touch it.
LEMMA DwellUpdate ==
    ASSUME NEW r \in JobRecord, EndedRecord(r), NEW n, n = [r EXCEPT !.dwell = 0]
    PROVE  n \in JobRecord /\ Lawful(r, n) /\ EndedRecord(n)
<1>1. Keeps(n, r)
  BY DEF Keeps, JobRecord
<1>2. CASE is_terminal(r.state)
  <2>1. r.dwell = 0
    BY <1>2 DEF EndedRecord
  <2>2. n = r
    BY <2>1 DEF JobRecord
  <2>3. QED
    BY <2>2 DEF Lawful
<1>3. CASE ~is_terminal(r.state)
  BY <1>1, <1>3, SameState, Zenon DEF Keeps
<1>4. QED
  BY <1>2, <1>3

LEMMA AdvanceOK ==
    ASSUME IInv, Advance
    PROVE  StepOK
<1>1. job' = [j \in Jobs |-> [job[j] EXCEPT !.dwell = 0]]
  BY DEF Advance
<1>2. \A j \in Jobs : job[j] \in JobRecord /\ EndedRecord(job[j])
  BY SMTT(30) DEF IInv, TypeOK, Ended
<1>3. \A j \in Jobs : job'[j] \in JobRecord /\ Lawful(job[j], job'[j]) /\ EndedRecord(job'[j])
  <2>1. SUFFICES ASSUME NEW j \in Jobs
                 PROVE  job'[j] \in JobRecord /\ Lawful(job[j], job'[j]) /\ EndedRecord(job'[j])
    BY ZenonT(40)
  <2>2. job'[j] = [job[j] EXCEPT !.dwell = 0]
    BY <1>1
  <2>3. QED
    BY <1>2, <2>2, DwellUpdate
<1>4. JobsLawful
  BY <1>1, <1>3 DEF JobsLawful, Ended
<1>5. ledger' \subseteq Reservation
  BY ElapseType, SMTT(30) DEF Advance, IInv, TypeOK
<1>6. UNCHANGED <<leases, quarantined, evidence, boot, policy, memory, port, reuse>>
  BY DEF Advance
<1>7. TypeOK'
  BY <1>4, <1>5, <1>6, ZenonT(40) DEF JobsLawful, IInv, TypeOK, evidence, memory
<1>8. QED
  BY <1>4, <1>7, Conclude

\* reconcile_locked blocks every job under way, whatever its state.
LEMMA FencedType ==
    ASSUME NEW r \in JobRecord, NEW f,
           f = [r EXCEPT !.att = 0, !.auth = 0, !.state = "Blocked",
                         !.block = "soft", !.dwell = 1]
    PROVE  f \in JobRecord /\ f.state = "Blocked" /\ f.removed = r.removed
<1>1. "Blocked" \in JobState
  BY States
<1>2. QED
  BY <1>1, Zenon DEF JobRecord

LEMMA ReconciledType ==
    ASSUME NEW r \in JobRecord, EndedRecord(r)
    PROVE  /\ Reconciled(r) \in JobRecord /\ EndedRecord(Reconciled(r))
           /\ Lawful(r, Reconciled(r))
<1> DEFINE f == [r EXCEPT !.att = 0, !.auth = 0, !.state = "Blocked",
                          !.block = "soft", !.dwell = 1]
           n == NewAttempt(f)
           q == Reconciled(r)
<1>1. \/ q = r
      \/ ~is_terminal(r.state) /\ q = [n EXCEPT !.auth = n.att]
      \/ ~is_terminal(r.state) /\ q = [f EXCEPT !.lease = 0]
  BY DEF Reconciled
<1>2. f \in JobRecord /\ f.state = "Blocked" /\ f.removed = r.removed
  <2>1. \A g : g = f => g \in JobRecord /\ g.state = "Blocked" /\ g.removed = r.removed
    BY FencedType, Zenon
  <2> HIDE DEF f
  <2>2. QED
    BY <2>1, SMTT(30)
<1> HIDE DEF f
<1>3. n \in JobRecord /\ n.state = f.state /\ n.removed = f.removed
  BY <1>2, NewAttemptType, SMTT(30)
<1> HIDE DEF n, q
<1>4. n.att \in Nat
  BY <1>3, SMTT(30) DEF JobRecord
<1>5. Keeps([n EXCEPT !.auth = n.att], n)
  BY <1>3, <1>4, CountUpdate, Zenon
<1>6. Keeps([f EXCEPT !.lease = 0], f)
  BY <1>2, LeaseUpdate
<1>7. q = r \/ /\ ~is_terminal(r.state) /\ q \in JobRecord
               /\ q.state = "Blocked" /\ q.removed = r.removed
  BY <1>1, <1>2, <1>3, <1>5, <1>6, Zenon DEF Keeps
<1>8. CASE q = r
  BY <1>8, SMTT(30) DEF Lawful, q
<1>9. CASE /\ ~is_terminal(r.state) /\ q \in JobRecord
           /\ q.state = "Blocked" /\ q.removed = r.removed
  <2>1. r.state # q.state => check_transition(r.state, q.state, r.removed)
    BY <1>9, SMTT(30) DEF check_transition
  <2>2. EndedRecord(q)
    BY <1>9, Zenon DEF EndedRecord, is_terminal
  <2>3. QED
    BY <1>9, <2>1, <2>2, SMTT(30) DEF Lawful, q
<1>10. QED
  BY <1>7, <1>8, <1>9, SMTT(30)

LEMMA RestartOK ==
    ASSUME IInv, Restart
    PROVE  StepOK
<1> DEFINE next == [j \in Jobs |-> Reconciled(job[j])]
           dropped == {j \in Jobs : job[j].lease # 0 /\ next[j].lease = 0}
<1>t. /\ job \in [Jobs -> JobRecord] /\ boot \in Nat /\ boot + 1 \in Nat \ {0}
      /\ ledger \in SUBSET Reservation
      /\ \A j \in Jobs : EndedRecord(job[j])
  BY SMTT(30) DEF IInv, TypeOK, Ended
<1>1. /\ boot' = boot + 1 /\ job' = next
      /\ ledger' = fence_older_incarnations(ledger, boot + 1) \cup Reissued(next)
      /\ queued' = {job[j].lease : j \in dropped}
      /\ inflight' = {} /\ stopping' = FALSE
      /\ tick' = [t \in Tickers |-> Idle] /\ view' = NoView
  BY DEF Restart
<1>2. \A j \in Jobs : next[j] \in JobRecord /\ EndedRecord(next[j]) /\ Lawful(job[j], next[j])
  BY <1>t, ReconciledType, SMTT(30)
<1>3. JobsLawful
  BY <1>1, <1>2, ZenonT(40) DEF JobsLawful, Ended
<1>4. ledger' \subseteq Reservation
  <2>1. Reissued(next) \subseteq Reservation
    <3>1. \A j \in Jobs :
             reserve({}, j, next[j].gen, next[j].att, boot + 1, scope(j)) \subseteq Reservation
      <4>1. SUFFICES ASSUME NEW j \in Jobs
                     PROVE  reserve({}, j, next[j].gen, next[j].att, boot + 1, scope(j))
                               \subseteq Reservation
        BY SMTT(30)
      <4> HIDE DEF next
      <4>2. next[j].gen \in Nat /\ next[j].att \in Nat /\ j \in Nat
        BY <1>2, JobsAreNat, SMTT(30) DEF JobRecord
      <4>3. QED
        BY <1>t, <4>2, ScopeType, ReserveType, ZenonT(40)
    <3> HIDE DEF next
    <3>2. QED
      BY <3>1, ZenonT(40) DEF Reissued
  <2> HIDE DEF next
  <2>2. fence_older_incarnations(ledger, boot + 1) \subseteq Reservation
    BY <1>t, SMTT(30) DEF fence_older_incarnations
  <2>3. QED
    BY <1>1, <2>1, <2>2, SMTT(30)
<1>5. deferred' \in Seq(Action)
  <2>1. PICK ids \in InOrder(dropped) :
           deferred' = [i \in DOMAIN ids |->
                           [ReleaseOf(job[ids[i]].lease) EXCEPT !.job = ids[i]]]
    BY Zenon DEF Restart
  <2>2. dropped \subseteq Jobs
    OBVIOUS
  <2> HIDE DEF dropped
  <2>3. /\ DOMAIN ids = 1 .. Len(ids) /\ Len(ids) \in Nat
        /\ \A i \in DOMAIN ids : ids[i] \in Jobs
    BY <2>2, InOrderType, SMTT(30)
  <2>4. \A i \in DOMAIN ids : [ReleaseOf(job[ids[i]].lease) EXCEPT !.job = ids[i]] \in Action
    <3>1. \A j \in Jobs : job[j].lease \in LeaseIds \cup {0}
      BY <1>t, SMTT(30) DEF JobRecord
    <3>2. QED
      BY <2>3, <3>1, ReleaseType, SMTT(30)
  <2>5. QED
    BY <2>1, <2>3, <2>4, SMTT(30)
<1>6. queued' \subseteq LeaseIds
  <2>1. \A j \in Jobs : job[j].lease \in LeaseIds \cup {0}
    BY <1>t, SMTT(30) DEF JobRecord
  <2>2. QED
    BY <1>1, <2>1, ZenonT(40)
<1>7. tick' \in [Tickers -> TickRecord]
  BY <1>1, IdleType, Zenon
<1>8. UNCHANGED <<leases, quarantined, evidence, policy>>
  BY Zenon DEF Restart
<1>p. port' \subseteq PortLease /\ reuse' \subseteq LeaseIds
  <2>1. \A j \in Jobs : job[j].lease \in LeaseIds \cup {0}
    BY <1>t, SMTT(30) DEF JobRecord
  <2>2. leases \subseteq LeaseIds /\ port \subseteq PortLease
    BY Zenon DEF IInv, TypeOK
  <2>3. /\ port' \in {port, {}}
        /\ reuse' \in {{}, leases \cup ({job[j].lease : j \in Jobs} \ {0})}
    BY Zenon DEF Restart
  <2>4. QED
    BY <2>1, <2>2, <2>3, ZenonT(40)
<1> HIDE DEF next, dropped
<1>9. TypeOK'
  BY <1>1, <1>t, <1>3, <1>4, <1>5, <1>6, <1>7, <1>8, <1>p, Zenon DEF JobsLawful, IInv, TypeOK, evidence
<1>10. QED
  BY <1>3, <1>9, Conclude
-----------------------------------------------------------------------------
(* The theorems.                                                           *)

LEMMA InitOK == Init => IInv
<1> SUFFICES ASSUME Init PROVE IInv
  OBVIOUS
<1>2. NoJob \in JobRecord /\ EndedRecord(NoJob)
  BY ZenonT(40) DEF NoJob, JobRecord, EndedRecord, is_terminal
<1>3. NoEvidence \in Evidence
  BY SMTT(30) DEF NoEvidence, Evidence
<1>4. job \in [Jobs -> JobRecord] /\ Ended
  BY <1>2, SMTT(30) DEF Init, Ended
<1>5. {confirmed, completed, checked, verdict} \subseteq [Targets -> Evidence]
  BY <1>3, SMTT(30) DEF Init
<1>6. tick \in [Tickers -> TickRecord]
  BY IdleType, Zenon DEF Init
<1>7. deferred \in Seq(Action) /\ boot \in Nat \ {0} /\ policy \in Nat \ {0}
  BY SMTT(30) DEF Init
<1>8. QED
  BY <1>4, <1>5, <1>6, <1>7, Zenon DEF Init, IInv, TypeOK

\* Every step, whoever takes it, keeps the invariant and changes jobs lawfully.
LEMMA NextOK == IInv /\ [Next]_vars => StepOK
<1> SUFFICES ASSUME IInv, [Next]_vars PROVE StepOK
  BY SMTT(30)
<1>2. ASSUME NEW t \in Tickers, Pass(t) \/ Call(t) \/ EndTick(t)
      PROVE  StepOK
  BY <1>2, StartPassOK, DriveOK, ArbitrateOK, SweepOK, PerformActionOK,
     ApplyOutcomesOK, EndTickOK, SMTT(30) DEF Pass, Call
<1>3. ASSUME NEW j \in Jobs,
             \/ propose(j) \/ approve(j) \/ rearm(j) \/ cancel(j)
             \/ \E ok \in BOOLEAN : report_completion(j, ok)
             \/ \E x \in Targets, ok \in BOOLEAN : report_restoration(j, x, ok)
      PROVE  StepOK
  BY <1>3, ProposeOK, RearmOK, CancelOK, ReportCompletionOK, ReportRestorationOK, SMTT(30)
<1>4. ASSUME NEW x \in Targets, clear_quarantine(x)
      PROVE  StepOK
  BY <1>4, ClearQuarantineOK, SMTT(30)
<1>5. CASE set_policy \/ shutdown \/ Advance \/ Restart
  BY <1>5, SetPolicyOK, ShutdownOK, AdvanceOK, RestartOK, Zenon
<1>6. CASE UNCHANGED vars
  <2>1. TypeOK'
    BY <1>6, ZenonT(40) DEF IInv, TypeOK, vars, store, memory, evidence
  <2>2. QED
    BY <1>6, <2>1, JobsUnchanged, Conclude, SMTT(30) DEF vars, store
<1>7. QED
  BY <1>2, <1>3, <1>4, <1>5, <1>6, SMTT(30) DEF Next

\* The store, the memory of the process and the drain service stay well-formed:
\* in particular, every drain action is for an existing job, every request names
\* an attempt, and every queued release names a lease.
THEOREM TypeCorrect == Spec => []TypeOK
<1>1. IInv /\ [Next]_vars => IInv'
  BY NextOK, SMTT(30) DEF StepOK
<1>2. IInv => TypeOK
  BY SMTT(30) DEF IInv
<1>3. QED
  BY InitOK, <1>1, <1>2, PTL DEF Spec

\* Whoever changes a job, in whatever interleaving of tickers, late answers,
\* operators and restarts: the lifecycle allows the change, a removal is never
\* undone and an ended job never changes.
THEOREM LifecycleSafe == Spec => LifecycleRespected
<1>1. IInv /\ [Next]_vars => IInv'
  BY NextOK DEF StepOK
<1>2. IInv /\ [Next]_vars => [\A j \in Jobs : Lawful(job[j], job'[j])]_vars
  BY NextOK, SMTT(30) DEF StepOK, JobsLawful
<1>3. QED
  BY InitOK, <1>1, <1>2, PTL DEF Spec, LifecycleRespected
-----------------------------------------------------------------------------
(* The calls of the drain service that tickers have still to make or to    *)
(* apply: where each of them comes from.  A call is made with the mutex    *)
(* released, so by then the job it is for may have moved on; the theorems  *)
(* about leases and about what is out of service rest on ActionStep.       *)

\* The job of a drain action, and a queue that nothing is added to.
LEMMA ActionJob ==
    ASSUME NEW a \in Action
    PROVE  a.job \in Nat
BY ControllerAssumption DEF Action

LEMMA ConcatEmpty ==
    ASSUME NEW s \in Seq(Action)
    PROVE  s \o <<>> = s
OBVIOUS

\* What the sequences of drain actions contain.
LEMMA RangeElements ==
    ASSUME NEW s \in Seq(Action)
    PROVE  Range(s) \subseteq Action
BY DEF Range

LEMMA RangeConcat ==
    ASSUME NEW S, NEW s \in Seq(S), NEW u \in Seq(S)
    PROVE  Range(s \o u) = Range(s) \cup Range(u)
<1>1. /\ DOMAIN s = 1 .. Len(s) /\ DOMAIN u = 1 .. Len(u) /\ Len(s) \in Nat /\ Len(u) \in Nat
      /\ DOMAIN (s \o u) = 1 .. Len(s) + Len(u)
  OBVIOUS
<1>2. /\ \A i \in DOMAIN s : i \in DOMAIN (s \o u) /\ (s \o u)[i] = s[i]
      /\ \A i \in DOMAIN u : Len(s) + i \in DOMAIN (s \o u) /\ (s \o u)[Len(s) + i] = u[i]
  BY <1>1
<1>3. ASSUME NEW i \in DOMAIN (s \o u) PROVE (s \o u)[i] \in Range(s) \cup Range(u)
  <2>1. CASE i \in DOMAIN s
    BY <1>2, <2>1, Zenon DEF Range
  <2>2. CASE i \notin DOMAIN s
    <3>1. i - Len(s) \in DOMAIN u /\ i = Len(s) + (i - Len(s))
      BY <1>1, <1>3, <2>2
    <3>2. QED
      BY <1>2, <3>1 DEF Range
  <2>3. QED
    BY <2>1, <2>2, Zenon
<1>4. Range(s \o u) \subseteq Range(s) \cup Range(u)
  BY <1>3, Zenon DEF Range
<1>5. Range(s) \subseteq Range(s \o u) /\ Range(u) \subseteq Range(s \o u)
  BY <1>2, Zenon DEF Range
<1>6. QED
  BY <1>4, <1>5, Zenon

LEMMA RangeSnoc ==
    ASSUME NEW s \in Seq(Action), NEW a
    PROVE  Range(s \o <<a>>) = Range(s) \cup {a} /\ Range(Append(s, a)) = Range(s) \cup {a}
<1> DEFINE S == Action \cup {a}
<1>1. s \in Seq(S) /\ <<a>> \in Seq(S) /\ Append(s, a) = s \o <<a>>
  OBVIOUS
<1>2. Range(<<a>>) = {a}
  BY DEF Range
<1> HIDE DEF S
<1>3. Range(s \o <<a>>) = Range(s) \cup Range(<<a>>)
  BY <1>1, RangeConcat, Zenon
<1>4. QED
  BY <1>1, <1>2, <1>3, Zenon

LEMMA RangeTail ==
    ASSUME NEW s \in Seq(Action), s # <<>>
    PROVE  Range(Tail(s)) \subseteq Range(s) /\ Head(s) \in Range(s)
<1>1. /\ Head(s) = s[1] /\ Len(s) \in Nat /\ Len(s) # 0 /\ DOMAIN s = 1 .. Len(s)
      /\ DOMAIN Tail(s) = 1 .. Len(s) - 1
      /\ \A i \in 1 .. Len(s) - 1 : Tail(s)[i] = s[i + 1]
  OBVIOUS
<1>2. QED
  BY <1>1 DEF Range

LEMMA RangeEmpty == Range(<<>>) = {}
BY DEF Range

\* The calls the drive of job j adds to the pass.
Sends(j, acts) ==
    \/ acts = <<>>
    \/ \E a : /\ acts = <<a>> /\ a.kind = "Release"
              /\ a.lease = job[j].lease /\ a.lease # 0
              /\ job'[j].lease = 0 \/ (job[j].state = "Restoring" /\ UNCHANGED job)
    \/ \E a : /\ acts = <<a>> /\ a.kind = "Request" /\ a.job = j
              /\ a.gen = job[j].gen /\ a.att = job[j].att
              /\ job[j].state = "Prerequisites" /\ job[j].lease = 0 /\ UNCHANGED job

Drives(t, j) == \E acts : Drove(t, j, acts) /\ Sends(j, acts)

LEMMA FreedLeaseIs ==
    ASSUME NEW j, NEW r
    PROVE  \/ FreedLease(j, r) = <<>>
           \/ \E a : FreedLease(j, r) = <<a>> /\ a.kind = "Release" /\ a.lease = r.lease /\ a.lease # 0
BY DEF FreedLease

LEMMA FreedSends ==
    ASSUME NEW t, NEW j, NEW r, r.lease = job[j].lease, Drove(t, j, FreedLease(j, r)),
           job'[j].lease = 0 \/ (job[j].state = "Restoring" /\ UNCHANGED job)
    PROVE  Drives(t, j)
<1>1. CASE FreedLease(j, r) = <<>>
  BY <1>1, Zenon DEF Drives, Sends
<1>2. CASE \E a : FreedLease(j, r) = <<a>> /\ a.kind = "Release" /\ a.lease = r.lease /\ a.lease # 0
  <2>1. PICK a : FreedLease(j, r) = <<a>> /\ a.kind = "Release" /\ a.lease = r.lease /\ a.lease # 0
    BY <1>2, Zenon
  <2>2. Sends(j, <<a>>)
    BY <2>1, Zenon DEF Sends
  <2>3. QED
    BY <2>1, <2>2, Zenon DEF Drives
<1>3. \/ FreedLease(j, r) = <<>>
      \/ \E a : FreedLease(j, r) = <<a>> /\ a.kind = "Release" /\ a.lease = r.lease /\ a.lease # 0
  BY FreedLeaseIs
<1>4. QED
  BY <1>1, <1>2, <1>3, Zenon

LEMMA RetiresLease ==
    ASSUME NEW r \in JobRecord, NEW to \in JobState, NEW blk \in {"none", "soft", "hard"},
           Retires(r, to)
    PROVE  Moved(r, to, blk).lease = 0
<1> DEFINE x == r.removed \/ to = "InMaintenance"
           d == IF to = "Blocked" THEN 1 ELSE 0
           m == [r EXCEPT !.state = to, !.block = blk, !.removed = x, !.dwell = d]
<1>1. m \in JobRecord
  <2>1. x \in BOOLEAN /\ d \in {0, 1}
    BY DEF JobRecord
  <2> HIDE DEF x, d
  <2>2. QED
    BY <2>1, StateUpdate, Zenon
<1>2. Moved(r, to, blk) = IF is_terminal(to) THEN [m EXCEPT !.auth = 0, !.lease = 0, !.att = 0]
                          ELSE [m EXCEPT !.auth = 0, !.lease = 0]
  BY Zenon DEF Moved, Retires, JobRecord
<1> HIDE DEF m
<1>3. QED
  BY <1>1, <1>2 DEF JobRecord

LEMMA GoesSends ==
    ASSUME IInv, NEW t \in Tickers, NEW j \in Jobs, NEW r \in JobRecord, r.lease = job[j].lease,
           NEW to \in JobState, NEW blk \in {"none", "soft", "hard"}, NEW L,
           Goes(t, j, r, to, blk, L)
    PROVE  Drives(t, j)
<1>1. job \in [Jobs -> JobRecord]
  BY Zenon DEF IInv, TypeOK
<1>2. CASE ~Retires(r, to)
  BY <1>2, Zenon DEF Goes, Drives, Sends
<1>3. CASE Retires(r, to)
  <2>1. job'[j].lease = 0 /\ Drove(t, j, FreedLease(j, r))
    BY <1>1, <1>3, RetiresLease DEF Goes
  <2>2. QED
    BY <2>1, FreedSends, Zenon
<1>4. QED
  BY <1>2, <1>3, Zenon

LEMMA StaysSends ==
    ASSUME NEW t \in Tickers, NEW j \in Jobs, NEW r, NEW L, Stays(t, j, r, L)
    PROVE  Drives(t, j)
BY Zenon DEF Stays, Drives, Sends

LEMMA FailsSends ==
    ASSUME IInv, NEW t \in Tickers, NEW j \in Jobs, NEW r \in JobRecord, r.lease = job[j].lease,
           ~is_terminal(r.state), FailsQuarantined(t, j, r)
    PROVE  Drives(t, j)
<1>1. job \in [Jobs -> JobRecord]
  BY DEF IInv, TypeOK
<1>2. Retires(r, "Failed") /\ "Failed" \in JobState
  BY DEF Retires, check_transition, is_terminal, JobState
<1>3. job'[j].lease = 0 /\ Drove(t, j, FreedLease(j, r))
  BY <1>1, <1>2, RetiresLease DEF FailsQuarantined
<1>4. QED
  BY <1>3, FreedSends, Zenon

\* q is r but for fields that neither state nor lease.
Alike(q, r) == q \in JobRecord /\ q.lease = r.lease /\ q.state = r.state

LEMMA AlikeUpdates ==
    ASSUME NEW r \in JobRecord
    PROVE  /\ Alike(r, r)
           /\ \A n \in Nat : Alike([r EXCEPT !.pol = n], r) /\ Alike([r EXCEPT !.ver = n], r)
           /\ Alike(NewAttempt(r), r)
           /\ \A x \in BOOLEAN : Alike([r EXCEPT !.failed = x], r)
           /\ Alike([r EXCEPT !.verFails = @ + 1], r)
           /\ Alike([r EXCEPT !.restFails = @ + 1], r)
<1>1. Alike(r, r) /\ \A n \in Nat : Alike([r EXCEPT !.pol = n], r)
  BY DEF Alike, JobRecord
<1>2. \A n \in Nat : Alike([r EXCEPT !.ver = n], r)
  BY DEF Alike, JobRecord
<1>3. Alike(NewAttempt(r), r)
  <2>1. NewAttempt(r) \in JobRecord
    BY NewAttemptType
  <2>2. QED
    BY <2>1, Zenon DEF Alike, NewAttempt, JobRecord
<1>4. \A x \in BOOLEAN : Alike([r EXCEPT !.failed = x], r)
  BY DEF Alike, JobRecord
<1>5. Alike([r EXCEPT !.verFails = @ + 1], r) /\ Alike([r EXCEPT !.restFails = @ + 1], r)
  BY DEF Alike, JobRecord
<1>6. QED
  BY <1>1, <1>2, <1>3, <1>4, <1>5

\* The forms a drive takes.
Form(t, j) ==
    \/ \E r, L : Stays(t, j, r, L)
    \/ \E r, L : \E to \in JobState, blk \in {"none", "soft", "hard"} :
          Alike(r, job[j]) /\ Goes(t, j, r, to, blk, L)
    \/ \E r : Alike(r, job[j]) /\ FailsQuarantined(t, j, r)

LEMMA GoesForm ==
    ASSUME NEW t, NEW j, NEW r, Alike(r, job[j]), NEW to \in JobState,
           NEW blk \in {"none", "soft", "hard"}, NEW L, Goes(t, j, r, to, blk, L)
    PROVE  Form(t, j)
BY Zenon DEF Form

LEMMA FormSends ==
    ASSUME IInv, NEW t \in Tickers, NEW j \in Jobs, ~is_terminal(job[j].state), Form(t, j)
    PROVE  Drives(t, j)
BY GoesSends, StaysSends, FailsSends, Zenon DEF Form, Alike

LEMMA DriveSends ==
    ASSUME IInv, NEW t \in Tickers, drive(t)
    PROVE  \E j \in Remaining(tick[t].at) : Drives(t, j)
<1>1. PICK j \in Remaining(tick[t].at) :
         \/ drive_restoring(t, j) \/ drive_validated(t, j) \/ drive_prerequisites(t, j)
         \/ drive_ready(t, j) \/ drive_blocked(t, j)
         \/ drive_in_maintenance(t, j) \/ drive_verifying(t, j)
  BY Zenon DEF drive
<1> DEFINE r == job[j]
<1>2. j \in Jobs /\ ~is_terminal(r.state)
  BY Zenon DEF Remaining, runnable, is_terminal
<1>3. r \in JobRecord /\ policy \in Nat /\ boot \in Nat
  BY <1>2, Zenon DEF IInv, TypeOK
<1>4. {"Blocked", "Prerequisites", "Ready", "InMaintenance", "Verifying", "Restoring",
       "Complete", "Failed"} \subseteq JobState
  BY States
<1>5. ASSUME drive_validated(t, j) PROVE Form(t, j)
  <2> DEFINE bound == [r EXCEPT !.pol = policy]
  <2>1. Alike(r, r) /\ Alike(bound, r)
    BY <1>3, AlikeUpdates, Zenon
  <2>2. Alike(NewAttempt(bound), r)
    <3> HIDE DEF bound
    <3>1. Alike(NewAttempt(bound), bound)
      BY <2>1, AlikeUpdates, Zenon DEF Alike
    <3>2. QED
      BY <2>1, <3>1 DEF Alike
  <2>3. \E q : /\ Alike(q, r)
               /\ \/ Goes(t, j, q, "Blocked", "hard", ledger)
                  \/ Goes(t, j, q, "Prerequisites", "none", ledger)
    BY <1>5, <2>1, <2>2, Zenon DEF drive_validated
  <2>4. QED
    BY <1>4, <2>3 DEF Form
<1>6. ASSUME drive_ready(t, j) PROVE Form(t, j)
  <2>1. \E to \in {"Blocked", "Prerequisites", "InMaintenance"}, blk \in {"none", "soft", "hard"} :
           Goes(t, j, r, to, blk, ledger)
    BY <1>6, Zenon DEF drive_ready
  <2>2. QED
    BY <1>3, <1>4, <2>1, AlikeUpdates, Zenon DEF Form
<1>7. ASSUME drive_blocked(t, j) PROVE Form(t, j)
  <2>1. \/ Stays(t, j, r, ledger)
        \/ \E q \in {r, NewAttempt(r)}, to \in {"Verifying", "Prerequisites"},
              blk \in {"none", r.block} : Goes(t, j, q, to, blk, ledger)
    BY <1>7, Zenon DEF drive_blocked
  <2>2. Alike(r, r) /\ Alike(NewAttempt(r), r) /\ r.block \in {"none", "soft", "hard"}
    BY <1>3, AlikeUpdates, Zenon DEF JobRecord
  <2>3. CASE Stays(t, j, r, ledger)
    BY <2>3, Zenon DEF Form
  <2>4. ASSUME NEW q \in {r, NewAttempt(r)}, NEW to \in {"Verifying", "Prerequisites"},
               NEW blk \in {"none", r.block}, Goes(t, j, q, to, blk, ledger)
        PROVE  Form(t, j)
    <3>1. Alike(q, r) /\ to \in JobState /\ blk \in {"none", "soft", "hard"}
      BY <1>4, <2>2, Zenon
    <3>2. QED
      BY <2>4, <3>1, GoesForm, Zenon
  <2>5. QED
    BY <2>1, <2>3, <2>4, Zenon
<1>8. ASSUME drive_in_maintenance(t, j) PROVE Form(t, j)
  <2> DEFINE x == r.failed \/ \E k \in scope(j) : ~completed[k].ok
             q == [r EXCEPT !.failed = x]
  <2>1. \/ Stays(t, j, r, ledger)
        \/ FailsQuarantined(t, j, r)
        \/ Goes(t, j, q, "Verifying", "none", ledger)
    BY <1>8 DEF drive_in_maintenance
  <2>2. x \in BOOLEAN
    BY <1>3 DEF JobRecord
  <2> HIDE DEF x
  <2>3. Alike(r, r) /\ Alike(q, r)
    BY <1>3, <2>2, AlikeUpdates, Zenon
  <2> HIDE DEF q
  <2>4. QED
    BY <1>4, <2>1, <2>3, Zenon DEF Form
<1>9. ASSUME drive_verifying(t, j) PROVE Form(t, j)
  <2> DEFINE passed == [r EXCEPT !.ver = boot]
             more == [r EXCEPT !.verFails = @ + 1]
  <2>1. \/ Goes(t, j, passed, "Restoring", "none", ledger)
        \/ \E q : Stays(t, j, q, ledger)
        \/ FailsQuarantined(t, j, more)
    BY <1>9, Zenon DEF drive_verifying
  <2>2. Alike(passed, r) /\ Alike(more, r)
    BY <1>3, AlikeUpdates, Zenon
  <2> HIDE DEF passed, more
  <2>3. QED
    BY <1>4, <2>1, <2>2, Zenon DEF Form
<1>10. ASSUME drive_restoring(t, j) PROVE Form(t, j) \/ Drives(t, j)
  <2> DEFINE more == [r EXCEPT !.restFails = @ + 1]
  <2>1. \/ \E q : Stays(t, j, q, ledger)
        \/ FailsQuarantined(t, j, more)
        \/ \E to \in {"Failed", "Complete"}, blk \in {"none", "soft"} : Goes(t, j, r, to, blk, ledger)
        \/ r.state = "Restoring" /\ Drove(t, j, FreedLease(j, r)) /\ UNCHANGED job
    BY <1>10, Zenon DEF drive_restoring
  <2>2. Alike(r, r) /\ Alike(more, r)
    BY <1>3, AlikeUpdates, Zenon
  <2> HIDE DEF more
  <2>3. CASE r.state = "Restoring" /\ Drove(t, j, FreedLease(j, r)) /\ UNCHANGED job
    BY <2>3, FreedSends, Zenon
  <2>4. CASE (\E q : Stays(t, j, q, ledger)) \/ FailsQuarantined(t, j, more)
    BY <2>2, <2>4, Zenon DEF Form
  <2>5. ASSUME NEW to \in {"Failed", "Complete"}, NEW blk \in {"none", "soft"},
               Goes(t, j, r, to, blk, ledger)
        PROVE  Form(t, j)
    <3>1. to \in JobState /\ blk \in {"none", "soft", "hard"}
      BY <1>4, Zenon
    <3>2. QED
      BY <2>2, <2>5, <3>1, GoesForm, Zenon
  <2>6. QED
    BY <2>1, <2>3, <2>4, <2>5, Zenon
<1>11. ASSUME drive_prerequisites(t, j) PROVE Form(t, j) \/ Drives(t, j)
  <2> DEFINE a == [kind |-> "Request", job |-> j, gen |-> r.gen, att |-> r.att, lease |-> 0]
  <2>1. \/ \E q, L : Stays(t, j, q, L)
        \/ \E L : \E to \in {"Blocked", "Ready"}, blk \in {"none", "soft", "hard"} :
              Goes(t, j, r, to, blk, L)
        \/ /\ r.state = "Prerequisites" /\ r.lease = 0
           /\ Drove(t, j, <<a>>) /\ UNCHANGED job
    BY <1>11, Zenon DEF drive_prerequisites
  <2>2. Alike(r, r)
    BY <1>3, AlikeUpdates, Zenon
  <2>3. a.kind = "Request" /\ a.job = j /\ a.gen = r.gen /\ a.att = r.att
    OBVIOUS
  <2> HIDE DEF a
  <2>4. CASE r.state = "Prerequisites" /\ r.lease = 0 /\ Drove(t, j, <<a>>) /\ UNCHANGED job
    BY <2>3, <2>4, Zenon DEF Drives, Sends
  <2>5. CASE \E q, L : Stays(t, j, q, L)
    BY <2>5, Zenon DEF Form
  <2>6. ASSUME NEW L, NEW to \in {"Blocked", "Ready"}, NEW blk \in {"none", "soft", "hard"},
               Goes(t, j, r, to, blk, L)
        PROVE  Form(t, j)
    <3>1. to \in JobState
      BY <1>4, Zenon
    <3>2. QED
      BY <2>2, <2>6, <3>1, GoesForm, Zenon
  <2>7. QED
    BY <2>1, <2>4, <2>5, <2>6, Zenon
<1>12. QED
  BY <1>1, <1>2, <1>5, <1>6, <1>7, <1>8, <1>9, <1>10, <1>11, FormSends, Zenon
-----------------------------------------------------------------------------
(* Where calls come from, and in what order a ticker holds them.           *)

\* The calls a ticker holds: the ones to make, and the one being applied.
Asked(T) == Range(T.todo) \cup {T.act}

\* An action is under way only until its answer is applied; while a pass drives the
\* jobs, its requests are for jobs it has already come to; unless the service
\* refuses or the answer is lost, a request is granted.
TickOK(T) ==
    /\ T.pc # "apply" => T.act = NoAction
    /\ T.pc = "drive" => \A a \in Range(T.todo) : a.kind = "Request" => a.job <= T.at
    /\ T.pc = "apply" /\ T.act.kind = "Request" /\ Faults \cap {"refuse", "lost"} = {} =>
          T.out.status = "ok"
QInv ==
    /\ \A a \in Range(deferred) : a.kind # "Request"
    /\ \A t \in Tickers : TickOK(tick[t])

\* The answer to action a of ticker t is for an attempt that is not the active one.
Stale(a) == job[a.job].gen # a.gen \/ job[a.job].att # a.att

\* This step decides on action a: a request for a job that is waiting for its
\* lease, or the release of a lease that its job gives back, that no live job
\* names, or that was granted too late.
Sent(a) ==
    \/ /\ a.kind = "Request" /\ a.job \in Jobs /\ UNCHANGED job
       /\ job[a.job].state = "Prerequisites" /\ job[a.job].lease = 0
       /\ a.gen = job[a.job].gen /\ a.att = job[a.job].att
    \/ /\ a.kind = "Release" /\ a.lease # 0
       /\ \/ \E j \in Jobs :
                /\ a.lease = job[j].lease
                /\ job'[j].lease = 0 \/ (job[j].state = "Restoring" /\ UNCHANGED job)
          \/ a.lease \in Orphans /\ UNCHANGED job
          \/ \E t \in Tickers :
                /\ tick[t].pc = "apply" /\ tick[t].act.kind = "Request" /\ Stale(tick[t].act)
                /\ tick[t].out.status = "ok" /\ tick[t].out.lease = a.lease /\ UNCHANGED job

\* Nothing is asked for but what was, or what this step decides on.
Deferred == \A a \in Range(deferred') : a \in Range(deferred) \/ (a.kind = "Release" /\ Sent(a))
Traced(t, T) ==
    \A a \in Asked(T) :
        a = NoAction \/ a \in Asked(tick[t]) \/ a \in Range(deferred) \/ Sent(a)
ActionStep == QInv' /\ Deferred /\ \A t \in Tickers : Traced(t, tick'[t])

LEMMA CallActionStep ==
    ASSUME QInv, UNCHANGED tick, Deferred
    PROVE  ActionStep
BY Zenon DEF QInv, ActionStep, Deferred, Traced, Asked, TickOK

LEMMA TickerActionStep ==
    ASSUME IInv, QInv, NEW t \in Tickers, NEW T, tick' = [tick EXCEPT ![t] = T],
           TickOK(T), Traced(t, T), Deferred
    PROVE  ActionStep
<1>1. tick \in [Tickers -> TickRecord]
  BY DEF IInv, TypeOK
<1>2. tick'[t] = T /\ \A u \in Tickers \ {t} : tick'[u] = tick[u]
  BY <1>1
<1>3. \A u \in Tickers : Traced(u, tick'[u])
  BY <1>2, Zenon DEF Traced
<1>4. QInv'
  <2>1. \A u \in Tickers : TickOK(tick'[u])
    BY <1>2, Zenon DEF QInv
  <2>2. \A a \in Range(deferred') : a.kind # "Request"
    BY Zenon DEF QInv, Deferred
  <2>3. QED
    BY <2>1, <2>2, Zenon DEF QInv, TickOK
<1>5. QED
  BY <1>3, <1>4, Zenon DEF ActionStep

LEMMA StartPassActions ==
    ASSUME IInv, QInv, NEW t \in Tickers, StartPass(t)
    PROVE  ActionStep
<1> DEFINE n == tick[t].pass + 1
           T == [Idle EXCEPT !.pc = "drive", !.pass = n, !.todo = deferred]
<1>1. tick' = [tick EXCEPT ![t] = T] /\ deferred' = <<>>
  BY DEF StartPass
<1>2. T.pc = "drive" /\ T.todo = deferred /\ T.act = NoAction
  BY DEF Idle
<1> HIDE DEF T
<1>3. TickOK(T)
  BY <1>2, Zenon DEF TickOK, QInv
<1>4. Traced(t, T) /\ Deferred
  BY <1>1, <1>2, RangeEmpty, Zenon DEF Traced, Asked, Deferred
<1>5. QED
  BY <1>1, <1>3, <1>4, TickerActionStep, Zenon

LEMMA DriveActions ==
    ASSUME IInv, QInv, NEW t \in Tickers, drive(t)
    PROVE  ActionStep
<1>0. PICK j \in Remaining(tick[t].at) : Drives(t, j)
  BY DriveSends
<1>1. PICK acts : Drove(t, j, acts) /\ Sends(j, acts)
  BY <1>0 DEF Drives
<1>2. /\ tick \in [Tickers -> TickRecord] /\ tick[t] \in TickRecord /\ tick[t].pc = "drive"
      /\ tick[t].todo \in Seq(Action) /\ tick[t].at \in Nat /\ deferred' = deferred
  BY Zenon DEF IInv, TypeOK, TickRecord, drive
<1>3. j \in Jobs /\ j \in Nat /\ j > tick[t].at
  BY JobsAreNat DEF Remaining
<1> DEFINE T == [tick[t] EXCEPT !.at = j, !.todo = tick[t].todo \o acts]
<1>4. tick' = [tick EXCEPT ![t] = T]
  BY <1>1, <1>2, Zenon DEF Drove
<1>5. T.pc = "drive" /\ T.at = j /\ T.todo = tick[t].todo \o acts /\ T.act = tick[t].act
  BY <1>2 DEF TickRecord
<1>6. TickOK(tick[t]) /\ T.act = NoAction
  BY <1>2, <1>5 DEF QInv, TickOK
<1> HIDE DEF T
<1>7. \A a \in Range(T.todo) :
         \/ a \in Range(tick[t].todo)
         \/ Sent(a) /\ (a.kind = "Request" => a.job = j)
  <2>1. CASE acts = <<>>
    BY <1>2, <1>5, <2>1
  <2>2. CASE \E a : /\ acts = <<a>> /\ a.kind = "Release"
                    /\ a.lease = job[j].lease /\ a.lease # 0
                    /\ job'[j].lease = 0 \/ (job[j].state = "Restoring" /\ UNCHANGED job)
    <3>1. PICK a : /\ acts = <<a>> /\ a.kind = "Release"
                   /\ a.lease = job[j].lease /\ a.lease # 0
                   /\ job'[j].lease = 0 \/ (job[j].state = "Restoring" /\ UNCHANGED job)
      BY <2>2
    <3>2. Sent(a)
      BY <1>3, <3>1, Zenon DEF Sent
    <3>3. Range(T.todo) = Range(tick[t].todo) \cup {a}
      BY <1>2, <1>5, <3>1, RangeSnoc, Zenon
    <3>4. QED
      BY <3>1, <3>2, <3>3, Zenon
  <2>3. CASE \E a : /\ acts = <<a>> /\ a.kind = "Request" /\ a.job = j
                    /\ a.gen = job[j].gen /\ a.att = job[j].att
                    /\ job[j].state = "Prerequisites" /\ job[j].lease = 0 /\ UNCHANGED job
    <3>1. PICK a : /\ acts = <<a>> /\ a.kind = "Request" /\ a.job = j
                   /\ a.gen = job[j].gen /\ a.att = job[j].att
                   /\ job[j].state = "Prerequisites" /\ job[j].lease = 0 /\ UNCHANGED job
      BY <2>3, Zenon
    <3>2. Sent(a)
      BY <1>3, <3>1 DEF Sent
    <3>3. Range(T.todo) = Range(tick[t].todo) \cup {a}
      BY <1>2, <1>5, <3>1, RangeSnoc, Zenon
    <3>4. QED
      BY <3>1, <3>2, <3>3, Zenon
  <2>4. QED
    BY <1>1, <2>1, <2>2, <2>3, Zenon DEF Sends
<1>8. TickOK(T)
  <2>1. \A a \in Range(tick[t].todo) : a \in Action
    BY <1>2, RangeElements, Zenon
  <2>2. ASSUME NEW a \in Range(T.todo), a.kind = "Request" PROVE a.job <= j
    <3>1. CASE a \in Range(tick[t].todo)
      <4>1. a.job <= tick[t].at
        BY <1>2, <1>6, <2>2, <3>1, Zenon DEF TickOK
      <4>2. a.job \in Nat
        BY <2>1, <3>1, ActionJob, Zenon
      <4>3. tick[t].at \in Nat /\ j \in Nat /\ j > tick[t].at
        BY <1>2, <1>3, Zenon
      <4>4. QED
        BY <4>1, <4>2, <4>3
    <3>2. CASE a.job = j
      BY <1>3, <3>2
    <3>3. QED
      BY <1>7, <2>2, <3>1, <3>2, Zenon
  <2>3. QED
    BY <1>5, <1>6, <2>2, Zenon DEF TickOK
<1>9. Traced(t, T) /\ Deferred
  BY <1>2, <1>5, <1>6, <1>7, Zenon DEF Traced, Asked, Deferred
<1>10. QED
  BY <1>4, <1>8, <1>9, TickerActionStep, Zenon

LEMMA ArbitrateActions ==
    ASSUME IInv, QInv, NEW t \in Tickers, arbitrate(t)
    PROVE  ActionStep
<1>1. PICK j \in Jobs, more \in BOOLEAN :
         tick' = [tick EXCEPT ![t].pc = "arbitrate", ![t].at = Rank[j],
                      ![t].grants = IF more THEN @ + 1 ELSE @]
  BY Zenon DEF arbitrate, Candidates
<1>2. /\ tick \in [Tickers -> TickRecord] /\ tick[t] \in TickRecord
      /\ tick[t].pc # "apply" /\ deferred' = deferred
  BY Zenon DEF IInv, TypeOK, arbitrate
<1> DEFINE n == IF more THEN tick[t].grants + 1 ELSE tick[t].grants
           T == [tick[t] EXCEPT !.pc = "arbitrate", !.at = Rank[j], !.grants = n]
<1>3. tick' = [tick EXCEPT ![t] = T]
  BY <1>1, <1>2, Zenon
<1>4. T.pc = "arbitrate" /\ T.todo = tick[t].todo /\ T.act = tick[t].act
  BY <1>2 DEF TickRecord
<1> HIDE DEF T
<1>5. T.act = NoAction
  BY <1>2, <1>4, Zenon DEF QInv, TickOK
<1>6. TickOK(T) /\ Traced(t, T) /\ Deferred
  BY <1>2, <1>4, <1>5, Zenon DEF TickOK, Traced, Asked, Deferred
<1>7. QED
  BY <1>3, <1>6, TickerActionStep, Zenon

LEMMA SweepActions ==
    ASSUME IInv, QInv, NEW t \in Tickers, sweep(t)
    PROVE  ActionStep
<1>1. PICK ids \in InOrder(Orphans) :
         LET todo == tick[t].todo \o [i \in DOMAIN ids |-> ReleaseOf(ids[i])]
         IN  tick' = [tick EXCEPT ![t] =
                IF todo = <<>> THEN Idle
                ELSE [tick[t] EXCEPT !.pc = "act", !.at = 0, !.grants = 0, !.todo = todo]]
  BY Zenon DEF sweep
<1> DEFINE more == [i \in DOMAIN ids |-> ReleaseOf(ids[i])]
           todo == tick[t].todo \o more
           T == [tick[t] EXCEPT !.pc = "act", !.at = 0, !.grants = 0, !.todo = todo]
<1>2. /\ tick \in [Tickers -> TickRecord] /\ tick[t] \in TickRecord /\ tick[t].pc # "apply"
      /\ tick[t].todo \in Seq(Action) /\ deferred' = deferred /\ UNCHANGED job
  BY Zenon DEF IInv, TypeOK, TickRecord, sweep, store
<1>3. Orphans \subseteq LeaseIds
  BY Zenon DEF Orphans, IInv, TypeOK
<1>4. /\ DOMAIN ids = 1 .. Len(ids) /\ Len(ids) \in Nat
      /\ \A i \in DOMAIN ids : ids[i] \in Orphans
  BY <1>3, InOrderType
<1>5. more \in Seq(Action)
  <2>1. \A i \in DOMAIN ids : ReleaseOf(ids[i]) \in Action
    BY <1>3, <1>4, ReleaseType, Zenon
  <2>2. QED
    BY <1>4, <2>1
<1>6. \A a \in Range(more) : Sent(a)
  <2>1. \A l : ReleaseOf(l).kind = "Release" /\ ReleaseOf(l).lease = l
    BY DEF ReleaseOf, NoAction
  <2>2. \A a \in Range(more) : \E l \in Orphans : a = ReleaseOf(l)
    BY <1>4 DEF Range
  <2>3. 0 \notin Orphans
    BY <1>3, ControllerAssumption
  <2>4. ASSUME NEW a \in Range(more) PROVE Sent(a)
    <3>1. PICK l \in Orphans : a = ReleaseOf(l)
      BY <2>2, <2>4, Zenon
    <3>2. a.kind = "Release" /\ a.lease \in Orphans /\ a.lease # 0
      BY <2>1, <2>3, <3>1, Zenon
    <3>3. QED
      BY <1>2, <3>2, Zenon DEF Sent
  <2>5. QED
    BY <2>4, Zenon
<1>7. Range(todo) = Range(tick[t].todo) \cup Range(more)
  BY <1>2, <1>5, RangeConcat
<1>8. tick' = [tick EXCEPT ![t] = IF todo = <<>> THEN Idle ELSE T]
  BY <1>1
<1> HIDE DEF more, todo
<1>9. T.pc = "act" /\ T.todo = todo /\ T.act = tick[t].act
  BY <1>2 DEF TickRecord
<1>10. T.act = NoAction
  BY <1>2, <1>9 DEF QInv, TickOK
<1> HIDE DEF T
<1>11. TickOK(T) /\ Traced(t, T) /\ Deferred
  BY <1>2, <1>6, <1>7, <1>9, <1>10, Zenon DEF TickOK, Traced, Asked, Deferred
<1>12. TickOK(Idle) /\ Traced(t, Idle)
  <2>1. Idle.pc = "idle" /\ Idle.todo = <<>> /\ Idle.act = NoAction
    BY DEF Idle
  <2>2. QED
    BY <2>1, RangeEmpty, Zenon DEF TickOK, Traced, Asked
<1>13. QED
  BY <1>8, <1>11, <1>12, TickerActionStep, Zenon

LEMMA PerformActions ==
    ASSUME IInv, QInv, NEW t \in Tickers, perform_action(t)
    PROVE  ActionStep
<1> DEFINE a == Head(tick[t].todo)
<1>1. PICK out \in Outcomes :
         /\ a.kind = "Request" => request_drain(a, out)
         /\ tick' = [tick EXCEPT ![t].pc = "apply", ![t].act = a, ![t].out = out,
                         ![t].todo = Tail(@)]
  BY Zenon DEF perform_action
<1>2. /\ tick \in [Tickers -> TickRecord] /\ tick[t] \in TickRecord
      /\ tick[t].todo \in Seq(Action) /\ tick[t].todo # <<>> /\ deferred' = deferred
  BY Zenon DEF IInv, TypeOK, TickRecord, perform_action
<1> DEFINE T == [tick[t] EXCEPT !.pc = "apply", !.act = a, !.out = out,
                                !.todo = Tail(tick[t].todo)]
<1>3. tick' = [tick EXCEPT ![t] = T]
  BY <1>1, <1>2, Zenon
<1>4. T.pc = "apply" /\ T.act = a /\ T.out = out /\ T.todo = Tail(tick[t].todo)
  BY <1>2 DEF TickRecord
<1>5. Range(Tail(tick[t].todo)) \subseteq Range(tick[t].todo) /\ a \in Range(tick[t].todo)
  BY <1>2, RangeTail, Zenon
<1> HIDE DEF T
<1>6. TickOK(T)
  <2>1. a.kind = "Request" /\ Faults \cap {"refuse", "lost"} = {} => out.status = "ok"
    BY <1>1 DEF request_drain
  <2>2. QED
    BY <1>4, <2>1, Zenon DEF TickOK
<1>7. Traced(t, T) /\ Deferred
  BY <1>2, <1>4, <1>5, Zenon DEF Traced, Asked, Deferred
<1>8. QED
  BY <1>3, <1>6, <1>7, TickerActionStep, Zenon

\* Ticker t is done with what it was doing, and asks for nothing new.
LEMMA DoneActions ==
    ASSUME IInv, QInv, NEW t \in Tickers, NEW T, tick' = [tick EXCEPT ![t] = T],
           T.pc \in {"idle", "act"}, T.act = NoAction,
           Range(T.todo) \subseteq Range(tick[t].todo), Deferred
    PROVE  ActionStep
<1>1. TickOK(T) /\ Traced(t, T)
  BY Zenon DEF TickOK, Traced, Asked
<1>2. QED
  BY <1>1, TickerActionStep, Zenon

LEMMA ApplyActions ==
    ASSUME IInv, QInv, NEW t \in Tickers, apply_outcomes(t)
    PROVE  ActionStep
<1>1. /\ tick \in [Tickers -> TickRecord] /\ tick[t] \in TickRecord /\ tick[t].pc = "apply"
      /\ tick[t].act \in Action /\ tick[t].out \in Outcomes /\ deferred \in Seq(Action)
  BY Zenon DEF IInv, TypeOK, TickRecord, apply_outcomes
<1> DEFINE T == [tick[t] EXCEPT !.pc = "act", !.act = NoAction, !.out = NoOutcome]
           a == tick[t].act
           out == tick[t].out
<1>2. tick' = [tick EXCEPT ![t] = T]
  BY <1>1, Zenon DEF apply_outcomes
<1>3. T.pc = "act" /\ T.act = NoAction /\ T.todo = tick[t].todo
  BY <1>1 DEF TickRecord
<1> HIDE DEF T
<1>4. Deferred
  <2>1. \/ deferred' = deferred
        \/ /\ a.kind = "Request" /\ Stale(a) /\ out.status = "ok" /\ UNCHANGED job
           /\ deferred' = Append(deferred, ReleaseOf(out.lease))
    BY Zenon DEF apply_outcomes, apply_release, apply_request, Undo, Stale
  <2>2. CASE deferred' = deferred
    BY <2>2 DEF Deferred
  <2>3. CASE /\ a.kind = "Request" /\ Stale(a) /\ out.status = "ok" /\ UNCHANGED job
             /\ deferred' = Append(deferred, ReleaseOf(out.lease))
    <3>1. Range(deferred') = Range(deferred) \cup {ReleaseOf(out.lease)}
      BY <1>1, <2>3, RangeSnoc, Zenon
    <3>2. ReleaseOf(out.lease).kind = "Release" /\ ReleaseOf(out.lease).lease = out.lease
      BY DEF ReleaseOf, NoAction
    <3>3. out.lease # 0
      BY <1>1, <2>3, ControllerAssumption, SMTT(30) DEF Outcomes, NoOutcome, Failure
    <3>4. Sent(ReleaseOf(out.lease))
      BY <1>1, <2>3, <3>2, <3>3, Zenon DEF Sent
    <3>5. QED
      BY <3>1, <3>2, <3>4, Zenon DEF Deferred
  <2>4. QED
    BY <2>1, <2>2, <2>3, Zenon
<1>5. QED
  BY <1>2, <1>3, <1>4, DoneActions, Zenon

LEMMA EndTickActions ==
    ASSUME IInv, QInv, NEW t \in Tickers, EndTick(t)
    PROVE  ActionStep
<1>1. tick' = [tick EXCEPT ![t] = Idle] /\ deferred' = deferred
  BY Zenon DEF EndTick
<1>2. Idle.pc = "idle" /\ Idle.act = NoAction /\ Idle.todo = <<>>
  BY DEF Idle
<1>3. Deferred
  BY <1>1 DEF Deferred
<1>4. QED
  BY <1>1, <1>2, <1>3, RangeEmpty, DoneActions, Zenon

\* rearm and cancel: the job gives its lease back.
LEMMA GiveBackActions ==
    ASSUME IInv, QInv, NEW j \in Jobs, rearm(j) \/ cancel(j)
    PROVE  ActionStep
<1> DEFINE r == job[j]
<1>1. /\ job \in [Jobs -> JobRecord] /\ r \in JobRecord /\ deferred \in Seq(Action)
      /\ UNCHANGED tick
  BY Zenon DEF IInv, TypeOK, rearm, cancel
<1>2. \/ deferred' = deferred
      \/ deferred' = deferred \o FreedLease(j, r) /\ job'[j].lease = 0
  <2>1. CASE rearm(j)
    <3>1. \A to : Rearmed(r, to).lease = 0
      BY DEF Rearmed, NoJob
    <3>2. QED
      BY <1>1, <2>1, <3>1, Zenon DEF rearm
  <2>2. CASE cancel(j)
    <3>1. Retires(r, "Cancelled") /\ "Cancelled" \in JobState
      BY <2>2, Zenon DEF cancel, Retires, is_terminal, JobState
    <3>2. Moved(r, "Cancelled", "none").lease = 0
      BY <1>1, <3>1, RetiresLease, Zenon
    <3>3. QED
      BY <1>1, <2>2, <3>2, Zenon DEF cancel
  <2>3. QED
    BY <2>1, <2>2
<1>3. Deferred
  <2>1. CASE deferred' = deferred
    BY <2>1, Zenon DEF Deferred
  <2>2. CASE deferred' = deferred \o FreedLease(j, r) /\ job'[j].lease = 0
    <3>1. CASE FreedLease(j, r) = <<>>
      <4>1. deferred' = deferred
        BY <1>1, <2>2, <3>1, ConcatEmpty, Zenon
      <4>2. QED
        BY <4>1, Zenon DEF Deferred
    <3>2. CASE \E a : /\ FreedLease(j, r) = <<a>> /\ a.kind = "Release"
                      /\ a.lease = r.lease /\ a.lease # 0
      <4>1. PICK a : FreedLease(j, r) = <<a>> /\ a.kind = "Release" /\ a.lease = r.lease /\ a.lease # 0
        BY <3>2, Zenon
      <4>2. Sent(a)
        <5>1. a.lease = job[j].lease /\ job'[j].lease = 0
          BY <2>2, <4>1, Zenon
        <5>2. QED
          BY <4>1, <5>1, Zenon DEF Sent
      <4>3. Range(deferred') = Range(deferred) \cup {a}
        BY <1>1, <2>2, <4>1, RangeSnoc, Zenon
      <4>4. QED
        BY <4>1, <4>2, <4>3, Zenon DEF Deferred
    <3>3. QED
      BY <3>1, <3>2, FreedLeaseIs
  <2>3. QED
    BY <1>2, <2>1, <2>2, Zenon
<1>4. QED
  BY <1>1, <1>3, CallActionStep

LEMMA NextActions ==
    ASSUME IInv, QInv, [Next]_vars, boot' = boot
    PROVE  ActionStep
<1>1. ASSUME NEW t \in Tickers, Pass(t) \/ Call(t) \/ EndTick(t) PROVE ActionStep
  BY <1>1, StartPassActions, DriveActions, ArbitrateActions, SweepActions, PerformActions,
     ApplyActions, EndTickActions, Zenon DEF Pass, Call
<1>2. ASSUME NEW j \in Jobs, rearm(j) \/ cancel(j) PROVE ActionStep
  BY <1>2, GiveBackActions
<1>3. ASSUME UNCHANGED <<tick, deferred>> PROVE ActionStep
  BY <1>3, CallActionStep DEF Deferred
<1>4. CASE \E j \in Jobs :
              \/ propose(j) \/ approve(j)
              \/ \E ok \in BOOLEAN : report_completion(j, ok)
              \/ \E x \in Targets, ok \in BOOLEAN : report_restoration(j, x, ok)
  BY <1>3, <1>4, Zenon DEF propose, approve, report_completion, report_restoration, memory
<1>5. CASE (\E x \in Targets : clear_quarantine(x)) \/ set_policy \/ shutdown \/ Advance \/ UNCHANGED vars
  BY <1>3, <1>5 DEF clear_quarantine, set_policy, shutdown, Advance, vars, memory
<1>6. ~Restart
  BY DEF Restart, IInv, TypeOK
<1>7. QED
  BY <1>1, <1>2, <1>4, <1>5, <1>6, Zenon DEF Next

\* A restart forgets every call and leaves only releases to be made.
LEMMA RestartActions ==
    ASSUME IInv, Restart
    PROVE  QInv'
<1> DEFINE back(j) == [ReleaseOf(job[j].lease) EXCEPT !.job = j]
<1>1. PICK ids : deferred' = [i \in DOMAIN ids |-> back(ids[i])]
  BY Zenon DEF Restart
<1>2. \A j : back(j).kind = "Release"
  BY DEF ReleaseOf, NoAction
<1> HIDE DEF back
<1>3. ASSUME NEW a \in Range(deferred') PROVE a.kind # "Request"
  <2>1. PICK i \in DOMAIN deferred' : a = deferred'[i]
    BY <1>3 DEF Range
  <2>2. a.kind = "Release"
    BY <1>1, <1>2, <2>1
  <2>3. QED
    BY <2>2
<1>4. \A t \in Tickers : tick'[t] = Idle
  BY DEF Restart
<1>5. Idle.pc = "idle" /\ Idle.act = NoAction
  BY Zenon DEF Idle
<1>6. QED
  BY <1>3, <1>4, <1>5, Zenon DEF QInv, TickOK

\* Incarnations are numbered upwards from 1.
LEMMA BootGrows ==
    ASSUME IInv, [Next]_vars
    PROVE  boot \in Nat \ {0} /\ (boot' = boot \/ (Restart /\ boot' = boot + 1))
<1>1. boot \in Nat \ {0}
  BY Zenon DEF IInv, TypeOK
<1>2. CASE Restart
  BY <1>1, <1>2, Zenon DEF Restart
<1>3. CASE ~Restart
  <2>1. boot' = boot
    BY <1>3, ZenonT(40) DEF Next, Pass, Call, StartPass, drive, arbitrate, sweep, perform_action,
       apply_outcomes, EndTick, propose, approve, rearm, cancel, report_completion,
       report_restoration, clear_quarantine, set_policy, shutdown, Advance, vars, store
  <2>2. QED
    BY <1>1, <2>1, Zenon
<1>4. QED
  BY <1>2, <1>3
=============================================================================
