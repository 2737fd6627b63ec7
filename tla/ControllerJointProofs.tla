------------------------- MODULE ControllerJointProofs -------------------------
(***************************************************************************)
(* Theorems about what is reserved, and what is out of service, at the     *)
(* same time: JointlyTolerable in the first incarnation, LedgerSafe in the *)
(* first two.  (After a restart jobs that removed service are blocked and  *)
(* no longer counted, and JointlyTolerable fails: configuration            *)
(* RestartOverlap.)  The last part is about the verdict that a completed   *)
(* job leaves on file.                                                     *)
(***************************************************************************)
EXTENDS ControllerAuthorityProofs, FiniteSetTheorems

\* With less out of service a failure domain is kept all the more.
LEMMA DomainAntitone ==
    ASSUME NEW d \in Domains, NEW A, NEW B, A \subseteq B, DomainKept(d, B)
    PROVE  DomainKept(d, A)
<1> DEFINE a == d.members \cap A
           b == d.members \cap B
<1>1. d.members \subseteq Targets /\ d.rules \subseteq Nat
  BY ImpactAssumption, Zenon
<1>2. IsFiniteSet(b) /\ a \subseteq b
  BY <1>1, ImpactAssumption, FS_Subset, Zenon
<1>3. IsFiniteSet(a) /\ Cardinality(a) <= Cardinality(b)
  BY <1>2, FS_Subset, Zenon
<1>4. Cardinality(a) \in Nat /\ Cardinality(b) \in Nat
  BY <1>2, <1>3, FS_CardinalityType, Zenon
<1> HIDE DEF a, b
<1>5. QED
  BY <1>1, <1>3, <1>4, SMTT(30) DEF DomainKept, a, b
-----------------------------------------------------------------------------
(* The ledger.                                                             *)

\* Live reservations of different jobs are disjoint, and together keep the domains.
LedgerTolerable(L) ==
    /\ \A r, q \in expire(L) : r.job # q.job => r.targets \cap q.targets = {}
    /\ \A d \in Domains : DomainKept(d, reserved_targets(L))

\* What is live in M is live in L.
Shrinks(M, L) ==
    \A x \in expire(M) : \E y \in expire(L) : x.job = y.job /\ x.targets = y.targets

LEMMA ShrunkTolerable ==
    ASSUME NEW L, NEW M, Shrinks(M, L), LedgerTolerable(L)
    PROVE  LedgerTolerable(M)
<1>1. reserved_targets(M) \subseteq reserved_targets(L)
  BY Zenon DEF Shrinks, reserved_targets
<1>2. \A d \in Domains : DomainKept(d, reserved_targets(M))
  BY <1>1, DomainAntitone, Zenon DEF LedgerTolerable
<1>3. \A r, q \in expire(M) : r.job # q.job => r.targets \cap q.targets = {}
  BY Zenon DEF Shrinks, LedgerTolerable
<1>4. QED
  BY <1>2, <1>3, Zenon DEF LedgerTolerable

\* acquire_authority lets in what keeps it so.
LEMMA GrantTolerable ==
    ASSUME NEW L, LedgerTolerable(L), NEW j, NEW g, NEW a, NEW o, NEW ts,
           NEW fresh, NEW serving, \A x \in L : x.job = j => x.gen = g,
           acquire_authority(L, j, g, ts, fresh, serving)
    PROVE  LedgerTolerable(reserve(L, j, g, a, o, ts))
<1> DEFINE n == [job |-> j, gen |-> g, att |-> a, owner |-> o, targets |-> ts, ttl |-> Lease]
           M == reserve(L, j, g, a, o, ts)
<1>1. /\ M = L \cup {n} /\ n.job = j /\ n.targets = ts /\ live(n)
  BY LedgerAssumption, SMTT(30) DEF reserve, live
<1>2. \A x \in L : x.job # j
  BY Zenon DEF acquire_authority, find_for_job
<1> HIDE DEF n, M
<1>3. expire(M) = expire(L) \cup {n}
  BY <1>1, Zenon DEF expire
<1>4. reserved_targets(M) = reserved_targets(L) \cup ts
  BY <1>1, <1>3, Zenon DEF reserved_targets
<1>5. \A d \in Domains : DomainKept(d, reserved_targets(M))
  BY <1>4, ZenonT(40) DEF acquire_authority, satisfied
<1>6. \A x \in expire(L) : x.targets \cap ts = {}
  BY <1>2, Zenon DEF acquire_authority, expire
<1>7. \A r, q \in expire(M) : r.job # q.job => r.targets \cap q.targets = {}
  BY <1>1, <1>3, <1>6, Zenon DEF LedgerTolerable
<1>8. QED
  BY <1>5, <1>7, Zenon DEF LedgerTolerable, M

LEMMA SubsetShrinks ==
    ASSUME NEW L, NEW M, M \subseteq L
    PROVE  Shrinks(M, L)
BY Zenon DEF Shrinks, expire

LEMMA ElapseShrinks ==
    ASSUME NEW L \in SUBSET Reservation
    PROVE  Shrinks(Elapse(L), L)
<1> DEFINE e(r) == [r EXCEPT !.ttl = IF @ = 0 THEN 0 ELSE @ - 1]
<1>1. \A r \in Reservation : /\ e(r).job = r.job /\ e(r).targets = r.targets
                             /\ live(e(r)) => live(r)
  BY SMTT(30) DEF Reservation, live
<1>2. Elapse(L) = {e(r) : r \in L}
  BY Zenon DEF Elapse
<1> HIDE DEF e
<1>3. QED
  BY <1>1, <1>2, SMTT(30) DEF Shrinks, expire

\* During a pass nothing in the ledger has run out: a reservation that had could
\* be renewed although its targets have been granted to another job since.
Swept == ~LockFree => \A r \in ledger : live(r)

\* arbitrate_locked grants authority to a job.
Grants ==
    \E j \in Jobs :
        /\ acquire_authority(ledger, j, job[j].gen, scope(j), view.fresh, view.serving)
        /\ ledger' = reserve(ledger, j, job[j].gen, job[j].att, boot, scope(j))

\* What a step does to the ledger.
LedgerStep == Swept' /\ (boot' = boot => Shrinks(ledger', ledger) \/ Grants)

\* A step with the mutex free that leaves it free.
LEMMA FreeLedgerStep ==
    ASSUME LockFree', boot' = boot => Shrinks(ledger', ledger)
    PROVE  LedgerStep
BY Zenon DEF LedgerStep, Swept

LEMMA CallLedgerStep ==
    ASSUME LockFree, UNCHANGED tick, ledger' \subseteq ledger
    PROVE  LedgerStep
BY FreeLedgerStep, SubsetShrinks, Zenon DEF LockFree

LEMMA FreedSubset ==
    ASSUME NEW L, NEW j, NEW r
    PROVE  FreedLedger(L, j, r) \subseteq L
BY Zenon DEF FreedLedger, release

\* Ticker t is in a pass.
LEMMA PassLedgerStep ==
    ASSUME IInv, AInv, Swept, NEW t \in Tickers, Pass(t)
    PROVE  LedgerStep
<1>1. ASSUME tick[t].pc \in {"drive", "arbitrate"} PROVE \A r \in ledger : live(r)
  BY <1>1, Zenon DEF Swept, LockFree
<1>2. CASE StartPass(t)
  <2>1. ledger' = expire(ledger)
    BY <1>2, Zenon DEF StartPass
  <2>2. QED
    BY <2>1, SubsetShrinks, Zenon DEF LedgerStep, Swept, expire
<1>3. CASE drive(t)
  <2>1. \A r \in ledger : live(r)
    BY <1>1, <1>3, Zenon DEF drive
  <2>2. Derived(ledger', ledger) /\ LiveKept(ledger', ledger)
    BY <1>3, DriveDriven, Zenon DEF Driven
  <2>3. \A x \in ledger' : live(x)
    BY <2>1, <2>2, Zenon DEF LiveKept
  <2>4. Shrinks(ledger', ledger)
    BY <2>1, <2>2, Zenon DEF Shrinks, Derived, SameGrant, expire
  <2>5. QED
    BY <2>3, <2>4, Zenon DEF LedgerStep, Swept
<1>4. CASE arbitrate(t)
  <2>1. \A r \in ledger : live(r)
    BY <1>1, <1>4, Zenon DEF arbitrate
  <2>2. Grants \/ ledger' = ledger
    BY <1>4, Zenon DEF arbitrate, Grants, Candidates
  <2>3. CASE ledger' = ledger
    BY <2>1, <2>3, SubsetShrinks, Zenon DEF LedgerStep, Swept
  <2>4. CASE Grants
    <3>1. \A x \in ledger' : live(x)
      BY <2>1, <2>4, LedgerAssumption, SMTT(30) DEF Grants, reserve, live
    <3>2. QED
      BY <2>4, <3>1, Zenon DEF LedgerStep, Swept
  <2>5. QED
    BY <2>2, <2>3, <2>4, Zenon
<1>5. CASE sweep(t)
  <2>1. (\A r \in ledger : live(r)) /\ ledger' = ledger
    BY <1>1, <1>5, Zenon DEF sweep, store
  <2>2. QED
    BY <2>1, SubsetShrinks, Zenon DEF LedgerStep, Swept
<1>6. QED
  BY <1>2, <1>3, <1>4, <1>5, Zenon DEF Pass

\* Ticker t is between the locked sections of its pass.
LEMMA CallLedgerSteps ==
    ASSUME IInv, NEW t \in Tickers, Call(t) \/ EndTick(t)
    PROVE  LedgerStep
<1>1. tick \in [Tickers -> TickRecord] /\ tick[t] \in TickRecord /\ LockFree
  BY ZenonT(40) DEF IInv, TypeOK, Call, perform_action, apply_outcomes, EndTick
<1>2. PICK T : tick' = [tick EXCEPT ![t] = T] /\ T.pc \in {"idle", "act", "apply"}
  <2>1. CASE EndTick(t)
    <3>1. tick' = [tick EXCEPT ![t] = Idle]
      BY <2>1, Zenon DEF EndTick
    <3>2. Idle.pc = "idle"
      BY Zenon DEF Idle
    <3>3. QED
      BY <3>1, <3>2, ZenonT(40)
  <2>2. CASE apply_outcomes(t)
    <3> DEFINE T == [tick[t] EXCEPT !.pc = "act", !.act = NoAction, !.out = NoOutcome]
    <3>1. tick' = [tick EXCEPT ![t] = T]
      BY <1>1, <2>2, ZenonT(40) DEF apply_outcomes
    <3>2. T.pc = "act"
      BY <1>1, SMTT(30) DEF TickRecord
    <3>3. QED
      BY <3>1, <3>2, ZenonT(40)
  <2>3. CASE perform_action(t)
    <3>1. PICK out : tick' = [tick EXCEPT ![t].pc = "apply", ![t].act = Head(tick[t].todo),
                                   ![t].out = out, ![t].todo = Tail(@)]
      BY <2>3, ZenonT(40) DEF perform_action
    <3> DEFINE T == [tick[t] EXCEPT !.pc = "apply", !.act = Head(tick[t].todo),
                                    !.out = out, !.todo = Tail(tick[t].todo)]
    <3>2. tick' = [tick EXCEPT ![t] = T]
      BY <1>1, <3>1, ZenonT(40)
    <3>3. T.pc = "apply"
      BY <1>1, Zenon DEF TickRecord
    <3>4. QED
      BY <3>2, <3>3, ZenonT(40)
  <2>4. QED
    BY <2>1, <2>2, <2>3, Zenon DEF Call
<1>3. LockFree'
  BY <1>1, <1>2, Zenon DEF LockFree
<1>4. ledger' \subseteq ledger
  <2>1. CASE EndTick(t) \/ perform_action(t)
    BY <2>1, ZenonT(40) DEF EndTick, perform_action, store
  <2>2. CASE apply_outcomes(t)
    <3>1. CASE apply_release(tick[t].act, tick[t].out)
      BY <3>1, Zenon DEF apply_release
    <3>2. CASE apply_request(tick[t].act, tick[t].out)
      <4>1. ledger' = ledger \/ \E j, r : ledger' = FreedLedger(ledger, j, r)
        BY <3>2, ZenonT(40) DEF apply_request
      <4>2. QED
        BY <4>1, FreedSubset, Zenon
    <3>3. QED
      BY <2>2, <3>1, <3>2, Zenon DEF apply_outcomes
  <2>3. QED
    BY <2>1, <2>2, SMTT(30) DEF Call
<1>5. QED
  BY <1>3, <1>4, FreeLedgerStep, SubsetShrinks, Zenon

LEMMA NextLedgerStep ==
    ASSUME IInv, AInv, Swept, [Next]_vars
    PROVE  LedgerStep
<1>1. ASSUME NEW t \in Tickers, Pass(t) \/ Call(t) \/ EndTick(t) PROVE LedgerStep
  BY <1>1, PassLedgerStep, CallLedgerSteps, Zenon
<1>2. ASSUME NEW j \in Jobs, propose(j) \/ approve(j) \/ rearm(j) \/ cancel(j)
      PROVE  LedgerStep
  <2>1. LockFree /\ UNCHANGED tick /\ ledger' \subseteq ledger
    BY <1>2, FreedSubset, ZenonT(40) DEF propose, approve, rearm, cancel, memory
  <2>2. QED
    BY <2>1, CallLedgerStep, Zenon
<1>3. ASSUME NEW j \in Jobs, NEW x \in Targets, NEW ok \in BOOLEAN,
             report_completion(j, ok) \/ report_restoration(j, x, ok)
      PROVE  LedgerStep
  BY <1>3, CallLedgerStep, Zenon DEF report_completion, report_restoration, memory
<1>4. ASSUME NEW j \in Jobs, NEW ok \in BOOLEAN, report_completion(j, ok) PROVE LedgerStep
  BY <1>4, CallLedgerStep, Zenon DEF report_completion, memory
<1>5. CASE (\E x \in Targets : clear_quarantine(x)) \/ set_policy \/ shutdown
  BY <1>5, CallLedgerStep, Zenon DEF clear_quarantine, set_policy, shutdown, memory, store
<1>6. CASE Advance
  <2>1. LockFree' /\ ledger' = Elapse(ledger) /\ ledger \in SUBSET Reservation
    BY <1>6, Zenon DEF Advance, memory, LockFree, IInv, TypeOK
  <2>2. QED
    BY <2>1, ElapseShrinks, FreeLedgerStep, Zenon
<1>7. CASE Restart
  <2>1. LockFree' /\ boot' # boot
    BY <1>7, SMTT(30) DEF Restart, LockFree, Idle, IInv, TypeOK
  <2>2. QED
    BY <2>1, FreeLedgerStep, Zenon
<1>8. CASE UNCHANGED vars
  BY <1>8, SubsetShrinks, Zenon DEF vars, store, memory, LedgerStep, Swept, LockFree
<1>9. QED
  BY <1>1, <1>2, <1>3, <1>4, <1>5, <1>6, <1>7, <1>8, Zenon DEF Next

\* In the first incarnation the ledger stays tolerable.
FirstLedger == boot = 1 => LedgerTolerable(ledger)

LEMMA LedgerKeptTolerable ==
    ASSUME IInv, AInv, Swept, LedgerTolerable(ledger), [Next]_vars, boot' = boot
    PROVE  LedgerTolerable(ledger')
<1>1. CASE Shrinks(ledger', ledger)
  BY <1>1, ShrunkTolerable, Zenon
<1>2. CASE Grants
  <2>1. \A x \in ledger : x.gen = job[x.job].gen
    BY SMTT(30) DEF AInv, LedgerOK
  <2>2. QED
    BY <1>2, <2>1, GrantTolerable, SMTT(30) DEF Grants
<1>3. QED
  BY <1>1, <1>2, NextLedgerStep, Zenon DEF LedgerStep

LEMMA TolerableSafe ==
    ASSUME AInv, LedgerTolerable(ledger)
    PROVE  LedgerSafe
<1>1. \A r, q \in expire(ledger) : r # q => r.job # q.job
  BY SMTT(30) DEF AInv, LedgerOK, OnePerJob, expire
<1>2. QED
  BY <1>1, SMTT(30) DEF AInv, LedgerOK, OnePerJob, LedgerTolerable, LedgerSafe

LEMMA InitLedger ==
    ASSUME Init
    PROVE  Swept /\ LedgerTolerable(ledger)
<1>1. ledger = {} /\ expire(ledger) = {} /\ reserved_targets(ledger) = {}
  BY Zenon DEF Init, expire, reserved_targets
<1>2. ASSUME NEW d \in Domains PROVE DomainKept(d, {})
  <2>1. d.members \cap {} = {} /\ d.rules \subseteq Nat
    BY ImpactAssumption, Zenon
  <2>2. Cardinality({}) = 0
    BY FS_EmptySet, Zenon
  <2>3. QED
    BY <2>1, <2>2, SMTT(30) DEF DomainKept
<1>3. QED
  BY <1>1, <1>2, SMTT(30) DEF Swept, LedgerTolerable

\* In the first incarnation reservations that are live never overlap and together
\* keep the failure domains, although reservations run out, are renewed, and are
\* granted while others are being given back.
THEOREM LedgerSafeFirst == Spec => [](boot = 1 => LedgerSafe)
<1> DEFINE Inv == IInv /\ AInv /\ Swept /\ FirstLedger
<1>1. Init => Inv
  BY InitOK, InitSafe, InitLedger, Zenon DEF FirstLedger
<1>2. Inv /\ [Next]_vars => Inv'
  <2> SUFFICES ASSUME Inv, [Next]_vars PROVE Inv'
    BY Zenon
  <2>1. IInv' /\ AInv' /\ Swept'
    BY NextOK, NextSafe, NextLedgerStep, Zenon DEF StepOK, StepSafe, LedgerStep
  <2>2. boot' = 1 => boot' = boot
    BY BootGrows, SMTT(30)
  <2>3. QED
    BY <2>1, <2>2, LedgerKeptTolerable, Zenon DEF FirstLedger
<1>3. Inv => (boot = 1 => LedgerSafe)
  BY TolerableSafe, Zenon DEF FirstLedger
<1>4. QED
  BY <1>1, <1>2, <1>3, PTL DEF Spec
-----------------------------------------------------------------------------

\* There is one ticker, or requests to the drain service do not fail.
Orderly == OneTicker \/ Faults \cap {"refuse", "lost"} = {}

\* A request that its job, at its present attempt, still waits for.
Awaited(a) == a.kind = "Request" /\ ~Stale(a)

\* A job that removed service awaits nothing: no refusal can block it.
NoneAwaited == \A t \in Tickers : \A a \in Asked(tick[t]) : Awaited(a) => ~job[a.job].removed

\* A job that removed service is not blocked: every evaluation counts it.
NoneStuck == \A j \in Jobs : job[j].removed => job[j].state # "Blocked"

LEMMA AskedType ==
    ASSUME IInv, NEW t \in Tickers, NEW a \in Asked(tick[t])
    PROVE  a \in Action
<1>1. tick[t].todo \in Seq(Action) /\ tick[t].act \in Action
  BY Zenon DEF IInv, TypeOK, TickRecord
<1>2. QED
  BY <1>1, RangeElements, Zenon DEF Asked

LEMMA AwaitedStep ==
    ASSUME IInv, AInv, QInv, OneTicker, NoneAwaited, NoneStuck, [Next]_vars, boot' = boot
    PROVE  NoneAwaited'
<1>1. StepSafe /\ IInv' /\ ActionStep
  BY NextSafe, NextOK, NextActions, Zenon DEF StepOK
<1> SUFFICES ASSUME NEW t \in Tickers, NEW a \in Asked(tick'[t]), a.kind = "Request",
                    job'[a.job].gen = a.gen, job'[a.job].att = a.att, job'[a.job].removed
             PROVE  FALSE
  BY Zenon DEF NoneAwaited, Asked, Awaited, Stale
<1> DEFINE j == a.job
<1>2. a \in Action
  <2>1. tick'[t].todo \in Seq(Action) /\ tick'[t].act \in Action
    BY <1>1, Zenon DEF IInv, TypeOK, TickRecord
  <2>2. QED
    BY <2>1, RangeElements, Zenon DEF Asked
<1>3. j \in Jobs /\ j \in Nat /\ a.att # 0
  BY <1>2, RequestJob, JobsAreNat, Zenon
<1>4. a \in Asked(tick[t])
  <2>1. a # NoAction /\ a \notin Range(deferred)
    BY SMTT(30) DEF NoAction, QInv
  <2>2. RecordOK(job[j], boot)
    BY <1>3, Zenon DEF AInv
  <2>3. ~Sent(a)
    BY <2>2, Zenon DEF Sent, RecordOK, Removing, is_terminal
  <2>4. QED
    BY <1>1, <2>1, <2>3, Zenon DEF ActionStep, Traced
<1>5. Steady(j)
  BY <1>1, <1>3, Zenon DEF StepSafe
<1>6. CASE job[j].removed
  <2>1. job[j].state # "Blocked"
    BY <1>3, <1>6, Zenon DEF NoneStuck
  <2>2. job[j].gen = a.gen /\ job[j].att = a.att
    BY <1>3, <1>5, <1>6, <2>1, Zenon DEF Steady
  <2>3. QED
    BY <1>4, <1>6, <2>2, Zenon DEF NoneAwaited, Awaited, Stale
<1>7. CASE ~job[j].removed
  <2>1. Reached(j)
    BY <1>1, <1>3, <1>7, Zenon DEF StepSafe, Starts
  <2>2. tick[t].pc = "drive" /\ j > tick[t].at
    BY <2>1, Zenon DEF Reached, OneTicker
  <2>3. TickOK(tick[t])
    BY Zenon DEF QInv
  <2>4. tick[t].at \in Nat
    BY Zenon DEF IInv, TypeOK, TickRecord
  <2>5. a \in Range(tick[t].todo)
    BY <1>4, <2>2, <2>3, SMTT(30) DEF TickOK, Asked, NoAction
  <2>6. j <= tick[t].at
    BY <2>2, <2>3, <2>5, Zenon DEF TickOK
  <2>7. QED
    BY <1>3, <2>2, <2>4, <2>6, SMTT(30)
<1>8. QED
  BY <1>6, <1>7, Zenon

\* The answer ticker t is about to apply refuses what job j awaits.
Refused(t, j) ==
    /\ tick[t].pc = "apply" /\ tick[t].act.kind = "Request" /\ tick[t].act.job = j
    /\ ~Stale(tick[t].act) /\ tick[t].out.status # "ok"

\* Only drive, and the refusal of a request, move a job that has removed service.
LEMMA RemovedMoves ==
    ASSUME IInv, AInv, [Next]_vars, boot' = boot, NEW j \in Jobs, job[j].removed,
           job'[j].state # job[j].state
    PROVE  \E t \in Tickers : drive(t) \/ (Refused(t, j) /\ job'[j].state = "Blocked")
<1>1. /\ job \in [Jobs -> JobRecord] /\ job[j] \in JobRecord /\ RecordOK(job[j], boot)
      /\ ~is_terminal(job[j].state)
  BY NextOK, Zenon DEF IInv, TypeOK, AInv, StepOK, JobsLawful, Lawful
<1>2. job' # job
  BY <1>1, SMTT(30)
<1>3. ASSUME NEW t \in Tickers, Pass(t) \/ EndTick(t) \/ perform_action(t) PROVE drive(t)
  <2>2. ASSUME arbitrate(t) PROVE FALSE
    <3>1. PICK k \in Jobs : /\ job[k].state = "Prerequisites"
                            /\ \/ job' = job
                               \/ job' = [job EXCEPT ![k].auth = job[k].att]
                               \/ job' = [job EXCEPT ![k] = Moved(job[k], "Blocked", "soft")]
      BY <2>2, Zenon DEF arbitrate, Candidates
    <3>2. k # j
      BY <1>1, <3>1, Zenon DEF RecordOK, Removing, is_terminal
    <3>3. job'[j] = job[j]
      BY <1>1, <3>1, <3>2, Zenon
    <3>4. QED
      BY <3>3, SMTT(30)
  <2>3. QED
    BY <1>2, <1>3, <2>2, Zenon DEF Pass, StartPass, sweep, EndTick, perform_action, store
<1>4. ASSUME NEW t \in Tickers, apply_outcomes(t)
      PROVE  Refused(t, j) /\ job'[j].state = "Blocked"
  <2> DEFINE a == tick[t].act
             out == tick[t].out
  <2>1. ~apply_release(a, out)
    <3>1. SUFFICES ASSUME apply_release(a, out) PROVE FALSE
      BY Zenon
    <3>2. job'[j] = job[j] \/ job'[j] = Touched([job[j] EXCEPT !.lease = 0])
      BY <3>1, Zenon DEF apply_release
    <3>3. Touched([job[j] EXCEPT !.lease = 0]).state = job[j].state
      BY <1>1, LeaseUpdate, TouchedType, SMTT(30) DEF JobRecord
    <3>4. QED
      BY <3>2, <3>3, Zenon
  <2>2. /\ tick[t].pc = "apply" /\ a.kind = "Request" /\ apply_request(a, out) /\ a \in Action
        /\ tick[t] \in TickRecord
    BY <1>4, <2>1, Zenon DEF apply_outcomes, IInv, TypeOK, TickRecord
  <2> DEFINE more == [job[j] EXCEPT !.drainFails = @ + 1]
  <2>3. a.job = j
    BY <1>1, <2>2, Zenon DEF apply_request
  <2>4. Touched([job[j] EXCEPT !.lease = out.lease]).state = job[j].state
    BY <1>1, Zenon DEF Touched, JobRecord
  <2>5. /\ ~Stale(a) /\ out.status # "ok"
        /\ job'[j] \in {Touched(more), Touched(Moved(more, "Blocked", "soft"))}
    BY <1>1, <2>2, <2>3, <2>4, Zenon DEF apply_request, Stale
  <2>6. more \in JobRecord /\ more.state = job[j].state
    <3>1. job[j].drainFails + 1 \in Nat
      BY <1>1, SMTT(30) DEF JobRecord
    <3>2. QED
      BY <1>1, <3>1, CountUpdate, Zenon DEF Keeps
  <2> HIDE DEF more
  <2>7. Touched(more).state = job[j].state
    BY <2>6, TouchedType, Zenon
  <2>8. Touched(Moved(more, "Blocked", "soft")).state \in {job[j].state, "Blocked"}
    <3>1. "Blocked" \in JobState
      BY SMTT(30) DEF JobState
    <3>2. /\ Moved(more, "Blocked", "soft") \in JobRecord
          /\ Moved(more, "Blocked", "soft").state \in {job[j].state, "Blocked"}
      BY <1>1, <2>6, <3>1, MovedType, Zenon
    <3>3. QED
      BY <3>2, TouchedType, Zenon
  <2>9. QED
    BY <2>2, <2>3, <2>5, <2>7, <2>8, Zenon DEF Refused
<1>5. ASSUME NEW k \in Jobs, propose(k) \/ approve(k) \/ rearm(k) \/ cancel(k) PROVE FALSE
  <2>1. k # j
    BY <1>1, <1>5, Zenon DEF propose, approve, rearm, cancel, RecordOK, Removing, is_terminal
  <2>2. k # j => job'[j] = job[j]
    BY <1>1, <1>5, Zenon DEF propose, approve, rearm, cancel
  <2>3. QED
    BY <2>1, <2>2, SMTT(30)
<1>6. ASSUME NEW k \in Jobs, NEW x \in Targets, NEW ok \in BOOLEAN, report_restoration(k, x, ok)
      PROVE  FALSE
  <2>1. job' = job \/ job' = [job EXCEPT ![k] = Touched(job[k])]
    BY <1>6, Zenon DEF report_restoration
  <2>2. Touched(job[j]).state = job[j].state
    BY <1>1, TouchedType, Zenon
  <2>3. QED
    BY <1>1, <2>1, <2>2, SMTT(30)
<1>7. ASSUME Advance PROVE FALSE
  BY <1>1, <1>7, Zenon DEF Advance, JobRecord
<1>8. ~Restart
  BY SMTT(30) DEF Restart, IInv, TypeOK
<1>9. QED
  <2>1. ASSUME NEW k \in Jobs, NEW ok \in BOOLEAN, report_completion(k, ok) PROVE FALSE
    BY <1>2, <2>1, Zenon DEF report_completion
  <2>2. ~((\E x \in Targets : clear_quarantine(x)) \/ set_policy \/ shutdown \/ UNCHANGED vars)
    BY <1>2, Zenon DEF clear_quarantine, set_policy, shutdown, vars, store
  <2>3. QED
    BY <1>3, <1>4, <1>5, <1>6, <1>7, <1>8, <2>1, <2>2, Zenon DEF Next, Call

LEMMA StuckStep ==
    ASSUME IInv, AInv, QInv, Orderly, OneTicker => NoneAwaited, NoneStuck, [Next]_vars, boot' = boot
    PROVE  NoneStuck'
<1> SUFFICES ASSUME NEW j \in Jobs, job'[j].removed, job'[j].state = "Blocked" PROVE FALSE
  BY SMTT(30) DEF NoneStuck
<1>1. job[j].removed /\ job[j].state # "Blocked"
  BY NextSafe, SMTT(30) DEF StepSafe, Starts, NoneStuck
<1>2. PICK t \in Tickers : Refused(t, j)
  <2>1. ASSUME NEW t \in Tickers, drive(t) PROVE FALSE
    BY <1>1, <2>1, DriveDriven, SMTT(30) DEF Driven
  <2>2. QED
    BY <1>1, <2>1, RemovedMoves, SMTT(30)
<1>3. OneTicker
  BY <1>2, SMTT(30) DEF QInv, TickOK, Orderly, Refused
<1>4. QED
  BY <1>1, <1>2, <1>3, SMTT(30) DEF NoneAwaited, Awaited, Asked, Refused
-----------------------------------------------------------------------------
(* What is out of service at the same time.                                *)

\* What the targets of a job that is out are does not change while it is.
LEMMA OutGrows ==
    ASSUME IInv, AInv, [Next]_vars
    PROVE  /\ \A j \in Jobs : job'[j].removed => scope(j)' = scope(j)
           /\ \A j \in Out' : j \in Jobs /\ (j \in Out \/ Starts(j))
<1>1. StepSafe /\ JobsLawful
  BY NextSafe, NextOK, Zenon DEF StepOK
<1>2. \A j \in Jobs : job'[j].removed => scope(j)' = scope(j)
  BY <1>1, Zenon DEF StepSafe, Steady, scope
<1>3. \A j \in Out' : j \in Jobs /\ (j \in Out \/ Starts(j))
  BY <1>1, Zenon DEF JobsLawful, Lawful, Out, Starts
<1>4. QED
  BY <1>2, <1>3, Zenon

\* A start of maintenance takes into account everything that is out.
LEMMA StartTolerable ==
    ASSUME IInv, AInv, NoneStuck, NEW s \in Jobs, Cleared(s)
    PROVE  /\ \A i \in Out \ {s} : scope(i) \cap scope(s) = {}
           /\ \A d \in Domains : DomainKept(d, scope(s) \cup UNION {scope(i) : i \in Out \ {s}})
<1>1. \A i \in Out : i \in Jobs /\ stage_removes_service(job[i].state)
  BY Zenon DEF Out, NoneStuck, AInv, RecordOK, Removing, is_terminal, stage_removes_service
<1>2. \A i \in Out \ {s} : scope(i) \cap scope(s) = {}
  BY <1>1, Zenon DEF Cleared, Violated, Conflicting
<1>3. UNION {scope(i) : i \in Out \ {s}} \subseteq baseline(s)
  BY <1>1, Zenon DEF baseline
<1>4. \A d \in Domains : DomainKept(d, baseline(s) \cup scope(s))
  BY Zenon DEF Cleared, Violated, Intolerable, satisfied
<1>5. ASSUME NEW d \in Domains
      PROVE  DomainKept(d, scope(s) \cup UNION {scope(i) : i \in Out \ {s}})
  BY <1>3, <1>4, DomainAntitone
<1>6. QED
  BY <1>2, <1>5, Zenon

LEMMA JointStep ==
    ASSUME IInv, AInv, NoneStuck, JointlyTolerable, [Next]_vars
    PROVE  JointlyTolerable'
<1> DEFINE S == {scope(j) : j \in Out}
           N == {scope(j)' : j \in Out'}
<1>1. /\ \A j \in Out' : j \in Jobs /\ scope(j)' = scope(j) /\ (j \in Out \/ Starts(j))
      /\ \A i, j \in Jobs : Starts(i) /\ Starts(j) => i = j
      /\ \A j \in Jobs : Starts(j) => Cleared(j) /\ j \notin Out
  BY NextSafe, OutGrows, Zenon DEF StepSafe, Out, Starts
<1>2. CASE \A j \in Out' : j \in Out
  <2>1. \A i, j \in Out' : i # j => scope(i)' \cap scope(j)' = {}
    BY <1>1, <1>2, SMTT(30) DEF JointlyTolerable
  <2>2. UNION N \subseteq UNION S
    BY <1>1, <1>2, ZenonT(40)
  <2>3. \A d \in Domains : DomainKept(d, UNION N)
    BY <2>2, DomainAntitone, Zenon DEF JointlyTolerable
  <2>4. QED
    BY <2>1, <2>3, Zenon DEF JointlyTolerable, DomainKept
<1>3. ASSUME NEW s \in Out', s \notin Out PROVE JointlyTolerable'
  <2>1. s \in Jobs /\ Cleared(s) /\ \A j \in Out' : j # s => j \in Out
    BY <1>1, <1>3, SMTT(30)
  <2>2. /\ \A i \in Out \ {s} : scope(i) \cap scope(s) = {}
        /\ \A d \in Domains : DomainKept(d, scope(s) \cup UNION {scope(i) : i \in Out \ {s}})
    BY <2>1, StartTolerable, Zenon
  <2>3. \A i, j \in Out' : i # j => scope(i)' \cap scope(j)' = {}
    BY <1>1, <2>1, <2>2, SMTT(30) DEF JointlyTolerable
  <2>4. UNION N \subseteq scope(s) \cup UNION {scope(i) : i \in Out \ {s}}
    BY <1>1, <2>1, SMTT(30)
  <2> DEFINE B == scope(s) \cup UNION {scope(i) : i \in Out \ {s}}
             A == UNION N
  <2>5. \A d \in Domains : DomainKept(d, A)
    <3>1. A \subseteq B /\ \A d \in Domains : DomainKept(d, B)
      BY <2>2, <2>4, SMTT(30)
    <3> HIDE DEF A, B
    <3>2. QED
      BY <3>1, DomainAntitone, SMTT(30)
  <2>6. QED
    BY <2>3, <2>5, SMTT(30) DEF JointlyTolerable, DomainKept
<1>4. QED
  BY <1>2, <1>3, Zenon

\* The first incarnation.
FirstOut ==
    Orderly /\ boot = 1 => (OneTicker => NoneAwaited) /\ NoneStuck /\ JointlyTolerable
OutInv == IInv /\ AInv /\ QInv /\ FirstOut

LEMMA InitOut ==
    ASSUME Init
    PROVE  QInv /\ (OneTicker => NoneAwaited) /\ NoneStuck /\ JointlyTolerable
<1>1. deferred = <<>> /\ \A t \in Tickers : tick[t] = Idle
  BY SMTT(30) DEF Init
<1>2. Idle.pc = "idle" /\ Idle.act = NoAction /\ Idle.todo = <<>> /\ NoAction.kind = "None"
  BY SMTT(30) DEF Idle, NoAction
<1>3. QInv /\ NoneAwaited
  BY <1>1, <1>2, RangeEmpty, Zenon DEF QInv, TickOK, NoneAwaited, Awaited, Asked
<1>4. NoneStuck /\ Out = {}
  BY Zenon DEF Init, NoJob, NoneStuck, Out
<1>5. JointlyTolerable
  <2>1. \A d \in Domains : DomainKept(d, {})
    BY InitLedger, Zenon DEF LedgerTolerable, Init, reserved_targets, expire
  <2>2. QED
    BY <1>4, <2>1, Zenon DEF JointlyTolerable
<1>6. QED
  BY <1>3, <1>4, <1>5, Zenon

LEMMA NextOut ==
    ASSUME OutInv, [Next]_vars
    PROVE  OutInv'
<1>1. IInv' /\ AInv'
  BY NextOK, NextSafe, Zenon DEF OutInv, StepOK, StepSafe
<1>2. CASE boot' = boot
  <2>1. QInv'
    BY <1>2, NextActions DEF OutInv, ActionStep
  <2>2. ASSUME Orderly, boot = 1
        PROVE  (OneTicker => NoneAwaited') /\ NoneStuck' /\ JointlyTolerable'
    BY <1>2, <2>2, AwaitedStep, StuckStep, JointStep, Zenon DEF OutInv, FirstOut
  <2>3. FirstOut'
    BY <1>2, <2>2, Zenon DEF FirstOut, Orderly, OneTicker
  <2>4. QED
    BY <1>1, <2>1, <2>3, Zenon DEF OutInv
<1>3. CASE Restart /\ boot' = boot + 1
  <2>1. boot' # 1
    BY <1>3, BootGrows DEF OutInv
  <2>2. QInv'
    BY <1>3, RestartActions, Zenon DEF OutInv
  <2>3. QED
    BY <1>1, <2>1, <2>2, Zenon DEF OutInv, FirstOut
<1>4. QED
  BY <1>2, <1>3, BootGrows, Zenon DEF OutInv

\* In the first incarnation, with one ticker or a drain service that does not fail
\* requests, what is out of service never overlaps and keeps the failure domains:
\* no job is blocked after it removed service, so that drive_ready counts them all.
THEOREM OutTolerableFirst == Spec => [](Orderly /\ boot = 1 => JointlyTolerable)
<1>1. Init => OutInv
  BY InitOK, InitSafe, InitOut, Zenon DEF OutInv, FirstOut
<1>2. OutInv /\ [Next]_vars => OutInv'
  BY NextOut, Zenon
<1>3. OutInv => (Orderly /\ boot = 1 => JointlyTolerable)
  BY Zenon DEF OutInv, FirstOut
<1>4. QED
  BY <1>1, <1>2, <1>3, PTL DEF Spec

\* The evaluation under which job j is let out counts every job that is out, finds
\* the policy satisfied, and no target of j out already.
CountsOut(j) ==
    /\ UNION {scope(i) : i \in Out} \subseteq baseline(j)
    /\ satisfied(baseline(j), scope(j), view.serving)
    /\ \A i \in Out : scope(i) \cap scope(j) = {}
StartCountsOut ==
    [][Orderly /\ boot = 1 =>
         \A j \in Jobs : ~job[j].removed /\ job'[j].removed => CountsOut(j)]_vars

\* Under the same conditions drive_ready lets no job out on an evaluation that misses
\* a job out of service, although it looks at states and the ledger only, and
\* reservations run out while jobs are out.
THEOREM StartCounted == Spec => StartCountsOut
<1> DEFINE Counted == Orderly /\ boot = 1 => \A j \in Jobs : Starts(j) => CountsOut(j)
<1>1. Init => OutInv
  BY InitOK, InitSafe, InitOut DEF OutInv, FirstOut
<1>2. OutInv /\ [Next]_vars => OutInv'
  BY NextOut, Zenon
<1>3. ASSUME OutInv, [Next]_vars, Orderly, boot = 1, NEW j \in Jobs, Starts(j)
      PROVE  CountsOut(j)
  <2>1. IInv /\ AInv /\ NoneStuck /\ Cleared(j) /\ j \notin Out
    BY <1>3, NextSafe, Zenon DEF OutInv, FirstOut, StepSafe, Starts, Out
  <2>2. \A i \in Out : i \in Jobs /\ stage_removes_service(job[i].state)
    BY <2>1, Zenon DEF Out, NoneStuck, AInv, RecordOK, Removing, is_terminal, stage_removes_service
  <2>3. UNION {scope(i) : i \in Out} \subseteq baseline(j)
    BY <2>1, <2>2, Zenon DEF baseline
  <2>4. \A i \in Out : scope(i) \cap scope(j) = {}
    BY <2>1, StartTolerable, Zenon
  <2>5. QED
    BY <2>1, <2>3, <2>4, Zenon DEF CountsOut, Cleared, Violated, Intolerable
<1>4. OutInv /\ [Next]_vars => [Counted]_vars
  BY <1>3, Zenon
<1>5. QED
  BY <1>1, <1>2, <1>4, PTL DEF Spec, StartCountsOut, Starts

\* A restart leaves in the ledger what the jobs that are out have been given again.
LEMMA RestartLedger ==
    ASSUME IInv, AInv, Restart
    PROVE  \A x \in ledger' : \E j \in Out : x.job = j /\ x.targets = scope(j)
<1> DEFINE next == [j \in Jobs |-> Reconciled(job[j])]
<1>1. ledger' = fence_older_incarnations(ledger, boot + 1) \cup Reissued(next)
  BY SMTT(30) DEF Restart
<1>2. fence_older_incarnations(ledger, boot + 1) = {}
  BY AuthorityFacts, SMTT(30) DEF fence_older_incarnations, LedgerOK
<1> HIDE DEF next
<1>3. QED
  BY <1>1, <1>2, SMTT(30) DEF Reissued, reserve, Out

LEMMA RestartTolerable ==
    ASSUME IInv, AInv, Restart, JointlyTolerable
    PROVE  LedgerTolerable(ledger')
<1> DEFINE S == UNION {scope(j) : j \in Out}
<1>1. \A x \in expire(ledger') : \E j \in Out : x.job = j /\ x.targets = scope(j)
  BY RestartLedger, Zenon DEF expire
<1>2. \A r, q \in expire(ledger') : r.job # q.job => r.targets \cap q.targets = {}
  BY <1>1, SMTT(30) DEF JointlyTolerable
<1>3. reserved_targets(ledger') \subseteq S /\ \A d \in Domains : DomainKept(d, S)
  BY <1>1, SMTT(30) DEF reserved_targets, JointlyTolerable
<1> HIDE DEF S
<1>4. \A d \in Domains : DomainKept(d, reserved_targets(ledger'))
  BY <1>3, DomainAntitone, Zenon
<1>5. QED
  BY <1>2, <1>4, Zenon DEF LedgerTolerable

\* Under the same conditions the ledger is safe in the second incarnation too: what
\* Controller::open gives the jobs that are out is as compatible as they were.
THEOREM LedgerSafeSecond == Spec => [](Orderly /\ boot <= 2 => LedgerSafe)
<1> DEFINE Second == Orderly /\ boot <= 2 => LedgerTolerable(ledger)
           Inv == OutInv /\ Swept /\ Second
<1>1. Init => Inv
  BY InitOK, InitSafe, InitOut, InitLedger, Zenon DEF OutInv, FirstOut
<1>2. Inv /\ [Next]_vars => Inv'
  <2> SUFFICES ASSUME Inv, [Next]_vars PROVE Inv'
    BY Zenon
  <2>1. OutInv' /\ Swept'
    BY NextOut, NextLedgerStep, Zenon DEF OutInv, LedgerStep
  <2>2. CASE boot' = boot
    BY <2>1, <2>2, LedgerKeptTolerable, Zenon DEF OutInv, Orderly, OneTicker
  <2>3. CASE Restart /\ boot' = boot + 1
    <3>1. boot' <= 2 => boot = 1
      BY <2>3, BootGrows DEF OutInv
    <3>2. ASSUME Orderly, boot = 1 PROVE LedgerTolerable(ledger')
      BY <2>3, <3>2, RestartTolerable, Zenon DEF OutInv, FirstOut
    <3>3. Second'
      BY <3>1, <3>2, Zenon DEF Orderly, OneTicker
    <3>4. QED
      BY <2>1, <3>3, Zenon
  <2>4. QED
    BY <2>2, <2>3, BootGrows, Zenon DEF OutInv
<1>3. Inv => (Orderly /\ boot <= 2 => LedgerSafe)
  BY TolerableSafe DEF OutInv
<1>4. QED
  BY <1>1, <1>2, <1>3, PTL DEF Spec
=============================================================================
