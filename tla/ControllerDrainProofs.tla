------------------------- MODULE ControllerDrainProofs -------------------------
(***************************************************************************)
(* Theorems about drain leases: as long as the service issues no id twice, *)
(* a job names no lease that is not on record, whatever interleaves, and   *)
(* until a restart none that the service has granted is forgotten.         *)
(*                                                                         *)
(* The service issues a lease to one job, but hands it out again when the  *)
(* job asks again, and both sides forget it in steps of their own.         *)
(***************************************************************************)
EXTENDS ControllerAuthorityProofs

\* Job j has to do with lease l: it names it, the service holds it for the job, or
\* the service has just granted it.
Claims(l, j) ==
    \/ job[j].lease = l
    \/ \E p \in port : p.id = l /\ p.job = j
    \/ \E t \in Tickers : /\ tick[t].pc = "apply" /\ tick[t].act.kind = "Request"
                          /\ tick[t].act.job = j /\ tick[t].out.lease = l
OneClaim == \A l \in LeaseIds : \A i, j \in Jobs : Claims(l, i) /\ Claims(l, j) => i = j

\* The answer a ticker is to apply: a failed request names no lease, the answer to a
\* release names the lease, which is gone unless releases fail.
AnswerOK(T) ==
    T.pc = "apply" =>
        /\ T.act.kind = "Request" => T.out.status = "ok" \/ T.out.lease = 0
        /\ T.act.kind = "Release" => T.out.lease = T.act.lease
        /\ T.act.kind = "Release" /\ "release" \notin Faults =>
              \A p \in port : p.id # T.act.lease
Answers == \A t \in Tickers : AnswerOK(tick[t])

LeaseInv == OneClaim /\ Answers /\ NamedLeaseOnRecord

\* Neither the service's state nor the answers to apply change; jobs give leases
\* up at most, and but for a restart nothing is forgotten.
LeaseQuiet ==
    /\ \A j \in Jobs : job'[j].lease \in {0, job[j].lease}
    /\ UNCHANGED <<port, leases>>
    /\ \A t \in Tickers : tick'[t].pc = "apply" => tick'[t] = tick[t]
    /\ boot' = boot =>
          /\ queued \subseteq queued'
          /\ \A t \in Tickers : tick[t].pc = "apply" => tick'[t] = tick[t]

LEMMA QuietLeases ==
    ASSUME LeaseInv, LeaseQuiet, IInv
    PROVE  LeaseInv'
<1>1. ASSUME NEW l \in LeaseIds, NEW j \in Jobs, Claims(l, j)' PROVE Claims(l, j)
  <2>1. l # 0
    BY ControllerAssumption, Zenon
  <2>2. QED
    BY <1>1, <2>1, Zenon DEF Claims, LeaseQuiet
<1>2. OneClaim'
  BY <1>1, Zenon DEF OneClaim, LeaseInv
<1>3. Answers'
  BY SMTT(30) DEF Answers, AnswerOK, LeaseInv, LeaseQuiet
<1>4. NamedLeaseOnRecord'
  BY Zenon DEF NamedLeaseOnRecord, LeaseInv, LeaseQuiet
<1>5. QED
  BY <1>2, <1>3, <1>4, Zenon DEF LeaseInv

LEMMA QuietAccounted ==
    ASSUME LeaseAccounted, LeaseQuiet, boot' = boot
    PROVE  LeaseAccounted'
BY SMTT(30) DEF LeaseAccounted, LeaseQuiet

\* A step of ticker t that neither calls the service nor applies an answer.
LEMMA PassQuiet ==
    ASSUME IInv, AInv, NEW t \in Tickers, Pass(t) \/ EndTick(t)
    PROVE  LeaseQuiet
<1>1. /\ tick \in [Tickers -> TickRecord] /\ tick[t] \in TickRecord
      /\ job \in [Jobs -> JobRecord]
  BY Zenon DEF IInv, TypeOK
<1>2. UNCHANGED <<port, leases>> /\ tick[t].pc # "apply"
  BY Zenon DEF Pass, StartPass, drive, arbitrate, sweep, EndTick, store, LockFree, MayPass, PassIsDue
<1>3. queued \subseteq queued'
  <2>1. ASSUME NEW j, \/ drive_validated(t, j) \/ drive_ready(t, j) \/ drive_blocked(t, j)
                      \/ drive_in_maintenance(t, j) \/ drive_verifying(t, j)
        PROVE  queued' = queued
    BY <2>1, Zenon DEF drive_validated, drive_ready, drive_blocked, drive_in_maintenance,
       drive_verifying, Goes, Stays, FailsQuarantined
  <2>2. ASSUME NEW j, drive_prerequisites(t, j) PROVE queued' = queued
    BY <2>2, Zenon DEF drive_prerequisites, Goes, Stays
  <2>3. ASSUME NEW j, drive_restoring(t, j) PROVE queued \subseteq queued'
    BY <2>3, Zenon DEF drive_restoring, Goes, Stays, FailsQuarantined
  <2>4. CASE drive(t)
    BY <2>1, <2>2, <2>3, <2>4, Zenon DEF drive
  <2>5. CASE StartPass(t) \/ arbitrate(t) \/ sweep(t) \/ EndTick(t)
    BY <2>5, Zenon DEF StartPass, arbitrate, sweep, EndTick
  <2>6. QED
    BY <2>4, <2>5, Zenon DEF Pass
<1>4. PICK T : tick' = [tick EXCEPT ![t] = T] /\ T.pc # "apply"
  <2>1. CASE StartPass(t)
    <3> DEFINE n == tick[t].pass + 1
               T == [Idle EXCEPT !.pc = "drive", !.pass = n, !.todo = deferred]
    <3>1. tick' = [tick EXCEPT ![t] = T] /\ T.pc = "drive"
      BY <2>1, Zenon DEF StartPass, Idle
    <3>2. QED
      BY <3>1, Zenon
  <2>2. CASE drive(t)
    <3>1. PICK j \in Jobs : \E acts : Drove(t, j, acts)
      BY <2>2, DriveSends, Zenon DEF Drives, Remaining
    <3>0. PICK acts : Drove(t, j, acts)
      BY <3>1, Zenon
    <3> DEFINE T == [tick[t] EXCEPT !.at = j, !.todo = tick[t].todo \o acts]
    <3>2. tick' = [tick EXCEPT ![t] = T]
      BY <1>1, <3>0, Zenon DEF Drove
    <3>3. T.pc = tick[t].pc
      BY <1>1, Zenon DEF TickRecord
    <3>4. QED
      BY <1>2, <3>2, <3>3, Zenon
  <2>3. CASE arbitrate(t)
    <3>1. PICK j \in Jobs, more \in BOOLEAN :
             tick' = [tick EXCEPT ![t].pc = "arbitrate", ![t].at = Rank[j],
                          ![t].grants = IF more THEN @ + 1 ELSE @]
      BY <2>3, Zenon DEF arbitrate, Candidates
    <3> DEFINE n == IF more THEN tick[t].grants + 1 ELSE tick[t].grants
               T == [tick[t] EXCEPT !.pc = "arbitrate", !.at = Rank[j], !.grants = n]
    <3>2. tick' = [tick EXCEPT ![t] = T]
      BY <1>1, <3>1, Zenon
    <3>3. T.pc = "arbitrate"
      BY <1>1, Zenon DEF TickRecord
    <3>4. QED
      BY <3>2, <3>3, Zenon
  <2>4. CASE sweep(t)
    <3>1. PICK todo : tick' = [tick EXCEPT ![t] =
                     IF todo = <<>> THEN Idle
                     ELSE [tick[t] EXCEPT !.pc = "act", !.at = 0, !.grants = 0, !.todo = todo]]
      BY <2>4, Zenon DEF sweep
    <3>2. Idle.pc = "idle" /\ [tick[t] EXCEPT !.pc = "act", !.at = 0, !.grants = 0, !.todo = todo].pc = "act"
      BY <1>1, Zenon DEF Idle, TickRecord
    <3>3. QED
      BY <3>1, <3>2, Zenon
  <2>5. CASE EndTick(t)
    <3>1. tick' = [tick EXCEPT ![t] = Idle] /\ Idle.pc = "idle"
      BY <2>5, Zenon DEF EndTick, Idle
    <3>2. QED
      BY <3>1, Zenon
  <2>6. QED
    BY <2>1, <2>2, <2>3, <2>4, <2>5, Zenon DEF Pass
<1>5. \A j \in Jobs : job'[j].lease \in {0, job[j].lease}
  <2>1. CASE drive(t)
    <3>1. PICK k \in Remaining(tick[t].at) : Driven(k)
      BY <2>1, DriveDriven, Zenon
    <3>2. QED
      BY <3>1, Zenon DEF Driven
  <2>2. CASE arbitrate(t)
    <3>1. PICK k \in Jobs : /\ job[k].state = "Prerequisites"
                            /\ \/ job' = job
                               \/ job' = [job EXCEPT ![k].auth = job[k].att]
                               \/ job' = [job EXCEPT ![k] = Moved(job[k], "Blocked", "soft")]
      BY <2>2, Zenon DEF arbitrate, Candidates
    <3>2. [job[k] EXCEPT !.auth = job[k].att].lease = job[k].lease
      BY <1>1, Zenon DEF JobRecord
    <3>3. Moved(job[k], "Blocked", "soft").lease \in {0, job[k].lease}
      <4>1. /\ RecordOK(job[k], boot) /\ "Blocked" \in JobState \ Early
            /\ ~is_terminal(job[k].state)
        BY <3>1, LaterStates, Zenon DEF AInv
      <4>2. QED
        BY <1>1, <4>1, MovedRecord, Zenon
    <3>4. QED
      BY <1>1, <3>1, <3>2, <3>3, Zenon
  <2>3. CASE StartPass(t) \/ sweep(t) \/ EndTick(t)
    BY <2>3, Zenon DEF StartPass, sweep, EndTick, store
  <2>4. QED
    BY <2>1, <2>2, <2>3, Zenon DEF Pass
<1>6. QED
  BY <1>1, <1>2, <1>3, <1>4, <1>5, Zenon DEF LeaseQuiet

\* The other calls.
LEMMA CallQuiet ==
    ASSUME IInv, UNCHANGED <<port, leases, tick>>, queued \subseteq queued',
           \A j \in Jobs : job'[j].lease \in {0, job[j].lease}
    PROVE  LeaseQuiet
BY Zenon DEF LeaseQuiet

LEMMA OperatorQuiet ==
    ASSUME IInv, NEW j \in Jobs, propose(j) \/ approve(j) \/ rearm(j) \/ cancel(j)
    PROVE  LeaseQuiet
<1>1. job \in [Jobs -> JobRecord] /\ job[j] \in JobRecord
  BY Zenon DEF IInv, TypeOK
<1>2. UNCHANGED <<port, leases, tick>> /\ queued \subseteq queued'
  BY Zenon DEF propose, approve, rearm, cancel, memory
<1>3. \A i \in Jobs : job'[i].lease \in {0, job[i].lease}
  <2>1. CASE propose(j) \/ approve(j)
    BY <1>1, <2>1, SMTT(60) DEF propose, approve, JobRecord
  <2>2. CASE rearm(j)
    <3>1. \A to : Rearmed(job[j], to).lease = 0
      BY Zenon DEF Rearmed, NoJob
    <3>2. QED
      BY <1>1, <2>2, <3>1 DEF rearm
  <2>3. CASE cancel(j)
    <3>1. Retires(job[j], "Cancelled") /\ "Cancelled" \in JobState
      BY <2>3, States, Zenon DEF cancel, Retires, is_terminal
    <3>2. Moved(job[j], "Cancelled", "none").lease = 0
      BY <1>1, <3>1, RetiresLease, Zenon
    <3>3. QED
      BY <1>1, <2>3, <3>2, Zenon DEF cancel
  <2>4. QED
    BY <2>1, <2>2, <2>3, Zenon
<1>4. QED
  BY <1>2, <1>3, CallQuiet, Zenon

LEMMA OthersQuiet ==
    ASSUME IInv, AInv,
           \/ \E j \in Jobs : \/ \E ok \in BOOLEAN : report_completion(j, ok)
                              \/ \E x \in Targets, ok \in BOOLEAN : report_restoration(j, x, ok)
           \/ \E x \in Targets : clear_quarantine(x)
           \/ set_policy \/ shutdown \/ Advance \/ UNCHANGED vars
    PROVE  LeaseQuiet
<1>1. job \in [Jobs -> JobRecord] /\ \A j \in Jobs : job[j] \in JobRecord
  BY Zenon DEF IInv, TypeOK
<1>2. CASE UNCHANGED job
  <2>1. UNCHANGED <<port, leases, tick, queued>>
    BY Zenon DEF report_completion, report_restoration, clear_quarantine, set_policy, shutdown,
       Advance, vars, store, memory
  <2>2. QED
    BY <1>2, <2>1, CallQuiet, Zenon
<1>3. ASSUME NEW j \in Jobs, NEW x \in Targets, NEW ok \in BOOLEAN, report_restoration(j, x, ok)
      PROVE  LeaseQuiet
  <2>1. job' = job \/ job' = [job EXCEPT ![j] = Touched(job[j])]
    BY <1>3, Zenon DEF report_restoration
  <2>2. Touched(job[j]).lease = job[j].lease
    BY <1>1, TouchedResembles, Zenon
  <2>3. \A i \in Jobs : job'[i].lease = job[i].lease
    BY <1>1, <2>1, <2>2, Zenon
  <2>4. QED
    BY <1>3, <2>3, CallQuiet, Zenon DEF report_restoration, memory
<1>4. CASE Advance
  <2>1. \A i \in Jobs : job'[i].lease = job[i].lease
    BY <1>1, <1>4, Zenon DEF Advance, JobRecord
  <2>2. QED
    BY <1>4, <2>1, CallQuiet, Zenon DEF Advance, memory
<1>5. QED
  <2>1. ASSUME NEW j \in Jobs, NEW ok \in BOOLEAN, report_completion(j, ok) PROVE UNCHANGED job
    BY <2>1, Zenon DEF report_completion
  <2>2. ASSUME NEW x \in Targets, clear_quarantine(x) PROVE UNCHANGED job
    BY <2>2, Zenon DEF clear_quarantine
  <2>3. ASSUME set_policy \/ shutdown \/ UNCHANGED vars PROVE UNCHANGED job
    BY <2>3, Zenon DEF set_policy, shutdown, vars, store
  <2>4. QED
    BY <1>2, <1>3, <1>4, <2>1, <2>2, <2>3, Zenon

LEMMA RestartQuiet ==
    ASSUME IInv, AInv, Remote, Restart
    PROVE  LeaseQuiet
<1>1. UNCHANGED <<port, leases>> /\ boot' # boot /\ \A t \in Tickers : tick'[t].pc = "idle"
  BY SMTT(60) DEF Restart, IInv, TypeOK, Idle
<1>2. \A j \in Jobs : job'[j] = Reconciled(job[j]) /\ job[j] \in JobRecord /\ RecordOK(job[j], boot)
  BY AuthorityFacts, Zenon DEF Restart
<1>3. \A j \in Jobs : job'[j].lease \in {0, job[j].lease}
  BY <1>2, AuthorityFacts, ReconciledRecord, Zenon
<1>4. QED
  BY <1>1, <1>3, Zenon DEF LeaseQuiet
-----------------------------------------------------------------------------
(* Calling the service.                                                    *)

\* What request_drain does: the lease it grants was this job's, or nobody's.
LEMMA RequestLeases ==
    ASSUME IInv, reuse = {}, NEW a, NEW out, request_drain(a, out)
    PROVE  \/ port' = port /\ out.status # "ok" /\ out.lease = 0
           \/ \E p : /\ port' = port \cup {p} /\ p.job = a.job /\ p.att = a.att
                     /\ p \in port \/ p.id \in Unused
                     /\ \/ /\ out.status = "ok" /\ out.lease = p.id /\ out.drained = p.drained
                        \/ "lost" \in Faults /\ out.status # "ok" /\ out.lease = 0
<1>1. Failure.status = "error" /\ Failure.lease = 0
  BY Zenon DEF Failure, NoOutcome
<1>2. CASE out = Failure /\ UNCHANGED port
  BY <1>1, <1>2, Zenon
<1>3. ASSUME NEW p \in IF Held(a) # {} THEN Held(a) ELSE NewLeases(a),
             port' = port \cup {p},
             \/ out = [status |-> "ok", lease |-> p.id, drained |-> p.drained]
             \/ "lost" \in Faults /\ out = Failure
      PROVE  /\ port' = port \cup {p} /\ p.job = a.job /\ p.att = a.att
             /\ p \in port \/ p.id \in Unused
             /\ \/ /\ out.status = "ok" /\ out.lease = p.id /\ out.drained = p.drained
                \/ "lost" \in Faults /\ out.status # "ok" /\ out.lease = 0
  <2>1. p \in Held(a) \/ p \in NewLeases(a)
    BY <1>3, Zenon
  <2>2. p.job = a.job /\ p.att = a.att /\ (p \in port \/ p.id \in Unused)
    BY <2>1, SMTT(60) DEF Held, NewLeases
  <2>3. QED
    BY <1>1, <1>3, <2>2, SMTT(60)
<1>4. QED
  BY <1>2, <1>3, Zenon DEF request_drain

\* What perform_action leaves ticker t with.
LEMMA Performed ==
    ASSUME IInv, NEW t \in Tickers, perform_action(t)
    PROVE  \E a \in Action, out \in Outcomes :
              /\ \/ a.kind = "Request" /\ request_drain(a, out)
                 \/ a.kind = "Release" /\ release_drain(a, out)
              /\ tick[t].pc = "act" /\ tick'[t].pc = "apply" /\ tick'[t].act = a /\ tick'[t].out = out
              /\ \A u \in Tickers \ {t} : tick'[u] = tick[u]
              /\ UNCHANGED <<job, leases, queued, boot>>
<1> DEFINE a == Head(tick[t].todo)
<1>1. PICK out \in Outcomes :
         /\ \/ a.kind = "Request" /\ request_drain(a, out)
            \/ a.kind = "Release" /\ release_drain(a, out)
         /\ tick' = [tick EXCEPT ![t].pc = "apply", ![t].act = a,
                         ![t].out = out, ![t].todo = Tail(@)]
  BY Zenon DEF perform_action
<1>2. /\ tick \in [Tickers -> TickRecord] /\ tick[t] \in TickRecord /\ tick[t].pc = "act"
      /\ tick[t].todo \in Seq(Action) /\ tick[t].todo # <<>>
      /\ UNCHANGED <<job, leases, queued, boot>>
  BY Zenon DEF IInv, TypeOK, TickRecord, perform_action, store
<1>3. a \in Action
  BY <1>2, SMTT(30)
<1> HIDE DEF a
<1>4. /\ tick'[t].pc = "apply" /\ tick'[t].act = a /\ tick'[t].out = out
      /\ \A u \in Tickers \ {t} : tick'[u] = tick[u]
  BY <1>1, <1>2, Zenon DEF TickRecord
<1>5. QED
  BY <1>1, <1>2, <1>3, <1>4, Zenon

LEMMA RequestedLeases ==
    ASSUME IInv, LeaseInv, reuse = {}, NEW t \in Tickers, NEW a \in Action, NEW out,
           a.kind = "Request", request_drain(a, out),
           tick[t].pc = "act", tick'[t].pc = "apply", tick'[t].act = a, tick'[t].out = out,
           \A u \in Tickers \ {t} : tick'[u] = tick[u],
           UNCHANGED <<job, leases, queued>>
    PROVE  LeaseInv' /\ ("lost" \notin Faults /\ LeaseAccounted => LeaseAccounted')
<1>0. \A l \in LeaseIds : l # 0
  BY ControllerAssumption, Zenon
<1>1. CASE port' = port /\ out.status # "ok" /\ out.lease = 0
  <2>1. \A l \in LeaseIds, j \in Jobs : Claims(l, j)' => Claims(l, j)
    BY <1>0, <1>1, SMTT(60) DEF Claims
  <2>2. OneClaim' /\ NamedLeaseOnRecord'
    BY <2>1, Zenon DEF OneClaim, NamedLeaseOnRecord, LeaseInv
  <2>3. Answers'
    BY <1>1, SMTT(60) DEF Answers, AnswerOK, LeaseInv
  <2>4. LeaseAccounted => LeaseAccounted'
    BY <1>1, Zenon DEF LeaseAccounted
  <2>5. QED
    BY <2>2, <2>3, <2>4, Zenon DEF LeaseInv
<1>2. ASSUME NEW p, port' = port \cup {p}, p.job = a.job, p \in port \/ p.id \in Unused,
             \/ out.status = "ok" /\ out.lease = p.id
             \/ "lost" \in Faults /\ out.status # "ok" /\ out.lease = 0
      PROVE  LeaseInv' /\ ("lost" \notin Faults /\ LeaseAccounted => LeaseAccounted')
  <2>1. \A l \in LeaseIds, j \in Jobs : Claims(l, j)' => Claims(l, j) \/ (l = p.id /\ j = a.job)
    BY <1>0, <1>2, SMTT(30) DEF Claims
  <2>2. p \in port => Claims(p.id, a.job)
    BY <1>2, Zenon DEF Claims
  <2>3. p.id \in Unused => /\ \A j \in Jobs : job[j].lease # p.id
                           /\ \A q \in port : q.id # p.id
                           /\ \A u \in Tickers : tick[u].out.lease # p.id
    BY Zenon DEF Unused
  <2>4. p.id \in Unused => \A j \in Jobs : ~Claims(p.id, j)
    BY <2>3, ZenonT(40) DEF Claims
  <2>5. OneClaim'
    BY <1>2, <2>1, <2>2, <2>4, SMTT(30) DEF OneClaim, LeaseInv
  <2>6. Answers'
    BY <1>2, <2>3, SMTT(30) DEF Answers, AnswerOK, LeaseInv
  <2>7. "lost" \notin Faults /\ LeaseAccounted => LeaseAccounted'
    BY <1>2, SMTT(30) DEF LeaseAccounted
  <2>8. QED
    BY <2>5, <2>6, <2>7, Zenon DEF LeaseInv, NamedLeaseOnRecord
<1>3. QED
  BY <1>1, <1>2, RequestLeases, SMTT(30)

LEMMA ReleasedLeases ==
    ASSUME IInv, LeaseInv, NEW t \in Tickers, NEW a \in Action, NEW out,
           a.kind = "Release", release_drain(a, out),
           tick[t].pc = "act", tick'[t].pc = "apply", tick'[t].act = a, tick'[t].out = out,
           \A u \in Tickers \ {t} : tick'[u] = tick[u],
           UNCHANGED <<job, leases, queued>>
    PROVE  LeaseInv' /\ (LeaseAccounted => LeaseAccounted')
<1>1. /\ port' \subseteq port /\ out.lease = a.lease
      /\ "release" \notin Faults => \A p \in port' : p.id # a.lease
  BY SMTT(30) DEF release_drain
<1>2. \A l \in LeaseIds, j \in Jobs : Claims(l, j)' => Claims(l, j)
  BY <1>1, SMTT(30) DEF Claims
<1>3. OneClaim' /\ NamedLeaseOnRecord'
  BY <1>2, SMTT(30) DEF OneClaim, NamedLeaseOnRecord, LeaseInv
<1>4. Answers'
  BY <1>1, SMTT(30) DEF Answers, AnswerOK, LeaseInv
<1>5. LeaseAccounted => LeaseAccounted'
  BY <1>1, SMTT(30) DEF LeaseAccounted
<1>6. QED
  BY <1>3, <1>4, <1>5, SMTT(30) DEF LeaseInv

\* Nothing fails but by refusal, or by a release whose answer is lost.
LeaseFaultless == Faults \cap {"lost", "release"} = {}

LEMMA PerformLeases ==
    ASSUME IInv, LeaseInv, reuse = {}, NEW t \in Tickers, perform_action(t)
    PROVE  LeaseInv' /\ (LeaseFaultless /\ LeaseAccounted => LeaseAccounted')
<1>1. PICK a \in Action, out \in Outcomes :
              /\ \/ a.kind = "Request" /\ request_drain(a, out)
                 \/ a.kind = "Release" /\ release_drain(a, out)
              /\ tick[t].pc = "act" /\ tick'[t].pc = "apply" /\ tick'[t].act = a /\ tick'[t].out = out
              /\ \A u \in Tickers \ {t} : tick'[u] = tick[u]
              /\ UNCHANGED <<job, leases, queued, boot>>
  BY Performed, SMTT(30)
<1>2. CASE a.kind = "Request" /\ request_drain(a, out)
  <2>1. LeaseInv' /\ ("lost" \notin Faults /\ LeaseAccounted => LeaseAccounted')
    BY <1>1, <1>2, RequestedLeases, SMTT(30)
  <2>2. QED
    BY <2>1 DEF LeaseFaultless
<1>3. CASE a.kind = "Release" /\ release_drain(a, out)
  BY <1>1, <1>3, ReleasedLeases, SMTT(30)
<1>4. QED
  BY <1>1, <1>2, <1>3, SMTT(30)
-----------------------------------------------------------------------------
(* Applying an answer.                                                     *)

\* What apply_outcomes does to the leases that jobs name.
LEMMA Answered ==
    ASSUME IInv, AInv, NEW t \in Tickers, apply_outcomes(t)
    PROVE  LET a == tick[t].act
               out == tick[t].out
           IN  /\ tick[t].pc = "apply" /\ tick'[t].pc = "act" /\ UNCHANGED <<port, boot>>
               /\ \A u \in Tickers \ {t} : tick'[u] = tick[u]
               /\ \/ /\ a.kind = "Release" /\ apply_release(a, out)
                     /\ \A j \in Jobs : job'[j].lease \in {0, job[j].lease}
                  \/ /\ a.kind = "Request" /\ leases \subseteq leases' /\ queued \subseteq queued'
                     /\ \A j \in Jobs : \/ job'[j].lease \in {0, job[j].lease}
                                        \/ /\ j = a.job /\ job'[j].lease = out.lease
                                           /\ out.lease \in leases'
                     /\ out.status = "ok" => out.lease \in leases' \cup queued'
<1> DEFINE a == tick[t].act
           out == tick[t].out
<1>1. /\ tick \in [Tickers -> TickRecord] /\ tick[t] \in TickRecord /\ tick[t].pc = "apply"
      /\ a \in Action /\ out \in Outcomes /\ job \in [Jobs -> JobRecord] /\ UNCHANGED <<port, boot>>
      /\ \A j \in Jobs : job[j] \in JobRecord /\ RecordOK(job[j], boot) /\ EndedRecord(job[j])
  BY SMTT(30) DEF IInv, TypeOK, TickRecord, apply_outcomes, AInv, Ended
<1>2. tick'[t].pc = "act" /\ \A u \in Tickers \ {t} : tick'[u] = tick[u]
  BY <1>1, SMTT(30) DEF apply_outcomes, TickRecord
<1>3. CASE a.kind = "Release"
  <2>1. apply_release(a, out)
    BY <1>3 DEF apply_outcomes
  <2>2. \A j \in Jobs : job'[j] \in {job[j], Touched([job[j] EXCEPT !.lease = 0])}
    BY <2>1, SMTT(30) DEF apply_release
  <2>3. \A j \in Jobs : Touched([job[j] EXCEPT !.lease = 0]).lease = 0
    BY <1>1, LeaseResembles, ZenonT(40)
  <2>4. \A j \in Jobs : job'[j].lease \in {0, job[j].lease}
    BY <2>2, <2>3, Zenon
  <2>5. QED
    BY <1>1, <1>2, <1>3, <2>1, <2>4, SMTT(30)
<1>4. CASE a.kind = "Request"
  <2> DEFINE r == job[a.job]
             more == [r EXCEPT !.drainFails = @ + 1]
  <2>1. a.job \in Jobs /\ a.att # 0 /\ apply_request(a, out)
    BY <1>1, <1>4, RequestJob, Zenon DEF apply_outcomes
  <2>2. r \in JobRecord /\ RecordOK(r, boot) /\ EndedRecord(r)
    BY <1>1, <2>1, SMTT(30)
  <2>3. Resembles(more, r) /\ more.lease = r.lease
    BY <2>2, MoreResembles, SMTT(30)
  <2>4. CASE UNCHANGED job /\ leases' = leases /\ out.status = "ok" /\ Undo(out)
    BY <1>1, <1>2, <1>4, <2>4, Zenon DEF Undo
  <2>5. CASE UNCHANGED <<job, leases, queued>> /\ out.status # "ok"
    BY <1>1, <1>2, <1>4, <2>5, SMTT(30)
  <2>6. CASE /\ r.att = a.att /\ out.status # "ok" /\ UNCHANGED <<leases, queued>>
             /\ \/ job' = [job EXCEPT ![a.job] = Touched(more)]
                \/ job' = [job EXCEPT ![a.job] = Touched(Moved(more, "Blocked", "soft"))]
    <3> DEFINE q == Moved(more, "Blocked", "soft")
    <3>1. more \in JobRecord /\ RecordOK(more, boot) /\ ~is_terminal(more.state)
      BY <2>1, <2>2, <2>3, <2>6, ResemblesOK, Zenon DEF Resembles, EndedRecord
    <3>2. q.lease \in {0, r.lease} /\ q \in JobRecord
      BY <2>3, <3>1, LaterStates, MovedRecord, MovedType, Zenon
    <3> HIDE DEF q, more
    <3>3. Touched(more).lease \in {0, r.lease} /\ Touched(q).lease \in {0, r.lease}
      BY <2>3, <3>1, <3>2, TouchedResembles, Zenon
    <3>4. \A j \in Jobs : job'[j].lease \in {0, job[j].lease}
      BY <1>1, <2>1, <2>6, <3>3, Zenon DEF q
    <3>5. QED
      BY <1>1, <1>2, <1>4, <2>6, <3>4, SMTT(30)
  <2>7. CASE /\ job' = [job EXCEPT ![a.job] = Touched([r EXCEPT !.lease = out.lease])]
             /\ leases' = leases \cup {out.lease} /\ UNCHANGED queued /\ out.status = "ok"
    <3>1. out.lease \in LeaseIds
      BY <1>1, <2>7, SMTT(30) DEF Outcomes, NoOutcome, Failure
    <3>2. Touched([r EXCEPT !.lease = out.lease]).lease = out.lease
      BY <2>2, <3>1, LeaseResembles, SMTT(30)
    <3>3. \A j \in Jobs : job'[j] = job[j] \/ (j = a.job /\ job'[j].lease = out.lease)
      BY <1>1, <2>1, <2>7, <3>2, SMTT(30)
    <3>4. QED
      BY <1>1, <1>2, <1>4, <2>7, <3>3, SMTT(30)
  <2>8. QED
    BY <2>1, <2>4, <2>5, <2>6, <2>7, Zenon DEF apply_request
<1>5. QED
  BY <1>3, <1>4, Zenon DEF apply_outcomes

\* The lease that a release gave back is named by no job afterwards.
LEMMA NobodyNames ==
    ASSUME IInv, AInv, OneClaim, NEW a \in Action, a.lease # 0, NEW out,
           apply_release(a, out), out.status \in {"ok", "notfound"}
    PROVE  \A j \in Jobs : job'[j].lease # a.lease
<1>1. a.lease \in LeaseIds /\ a.lease # 0 /\ Jobs \subseteq Nat
  BY JobsAreNat, Zenon DEF Action
<1>2. \A j \in Jobs : job[j] \in JobRecord /\ (job[j].lease = a.lease => ~is_terminal(job[j].state))
  BY <1>1, AuthorityFacts, SMTT(30) DEF RecordOK
<1>3. \A i, j \in Jobs : job[i].lease = a.lease /\ job[j].lease = a.lease => i = j
  BY <1>1, SMTT(30) DEF OneClaim, Claims
<1>4. SUFFICES ASSUME NEW j \in Jobs PROVE job'[j].lease # a.lease
  BY SMTT(30)
<1>5. CASE job[j].lease = a.lease
  <2>1. j \in holders(a.lease) /\ \A k \in holders(a.lease) : k = j
    BY <1>2, <1>3, <1>5, SMTT(30) DEF holders
  <2>2. \A k \in holders(a.lease) : j <= k
    BY <1>1, <2>1
  <2>3. job'[j] = Touched([job[j] EXCEPT !.lease = 0])
    BY <2>1, <2>2, SMTT(30) DEF apply_release
  <2>4. Touched([job[j] EXCEPT !.lease = 0]).lease = 0
    BY <1>2, LeaseResembles, SMTT(30)
  <2>5. QED
    BY <1>1, <2>3, <2>4
<1>6. CASE job[j].lease # a.lease
  <2>1. job'[j] = job[j]
    BY <1>6, Zenon DEF apply_release, holders
  <2>2. QED
    BY <1>6, <2>1, SMTT(30)
<1>7. QED
  BY <1>5, <1>6, SMTT(30)

LEMMA ApplyLeases ==
    ASSUME IInv, AInv, LeaseInv, NEW t \in Tickers, apply_outcomes(t)
    PROVE  LeaseInv' /\ (LeaseFaultless /\ LeaseAccounted => LeaseAccounted')
<1> DEFINE a == tick[t].act
           out == tick[t].out
<1>1. /\ tick[t].pc = "apply" /\ tick'[t].pc = "act" /\ UNCHANGED <<port, boot>>
      /\ \A u \in Tickers \ {t} : tick'[u] = tick[u]
      /\ \/ /\ a.kind = "Release" /\ apply_release(a, out)
            /\ \A j \in Jobs : job'[j].lease \in {0, job[j].lease}
         \/ /\ a.kind = "Request" /\ leases \subseteq leases' /\ queued \subseteq queued'
            /\ \A j \in Jobs : \/ job'[j].lease \in {0, job[j].lease}
                               \/ /\ j = a.job /\ job'[j].lease = out.lease
                                  /\ out.lease \in leases'
            /\ out.status = "ok" => out.lease \in leases' \cup queued'
  BY Answered, Zenon
<1>2. a \in Action /\ \A l \in LeaseIds : l # 0
  BY ControllerAssumption, Zenon DEF IInv, TypeOK, TickRecord
<1>3. AnswerOK(tick[t])
  BY Zenon DEF LeaseInv, Answers
<1>4. \A l \in LeaseIds, j \in Jobs : Claims(l, j)' => Claims(l, j)
  BY <1>1, <1>2, SMTT(30) DEF Claims
<1>5. OneClaim'
  BY <1>4, Zenon DEF OneClaim, LeaseInv
<1>6. Answers'
  BY <1>1, SMTT(30) DEF Answers, AnswerOK, LeaseInv
<1>7. CASE a.kind = "Release"
  <2>1. /\ apply_release(a, out) /\ \A j \in Jobs : job'[j].lease \in {0, job[j].lease}
    BY <1>1, <1>7, Zenon
  <2>4. NamedLeaseOnRecord'
    <3>1. leases' = leases \/ (/\ leases' = leases \ {a.lease}
                               /\ out.status \in {"ok", "notfound"})
      BY <2>1, Zenon DEF apply_release
    <3>2. QED
      BY <1>2, <2>1, <3>1, NobodyNames, Zenon DEF NamedLeaseOnRecord, LeaseInv
  <2>5. leases \ {a.lease} \subseteq leases' /\ queued \ {a.lease} \subseteq queued'
    BY <2>1, Zenon DEF apply_release
  <2>6. LeaseFaultless => out.lease = a.lease /\ \A p \in port : p.id # a.lease
    BY <1>1, <1>3, <1>7, Zenon DEF AnswerOK, LeaseFaultless
  <2>7. LeaseFaultless /\ LeaseAccounted => LeaseAccounted'
    BY <1>1, <2>5, <2>6, SMTT(30) DEF LeaseAccounted
  <2>8. QED
    BY <1>5, <1>6, <2>4, <2>7, SMTT(30) DEF LeaseInv
<1>8. CASE a.kind = "Request"
  <2>1. /\ leases \subseteq leases' /\ queued \subseteq queued'
        /\ \A j \in Jobs : \/ job'[j].lease \in {0, job[j].lease}
                           \/ job'[j].lease \in leases'
        /\ out.status = "ok" => out.lease \in leases' \cup queued'
    BY <1>1, <1>8, Zenon
  <2>2. NamedLeaseOnRecord'
    BY <2>1, Zenon DEF NamedLeaseOnRecord, LeaseInv
  <2>3. out.status = "ok" \/ out.lease = 0
    BY <1>1, <1>3, <1>8, Zenon DEF AnswerOK
  <2>4. \A p \in port : p.id \in LeaseIds
    BY Zenon DEF IInv, TypeOK, PortLease
  <2>5. LeaseAccounted => LeaseAccounted'
    BY <1>1, <1>2, <2>1, <2>3, <2>4, SMTT(60) DEF LeaseAccounted
  <2>6. QED
    BY <1>5, <1>6, <2>2, <2>5, SMTT(30) DEF LeaseInv
<1>9. QED
  BY <1>1, <1>7, <1>8, Zenon

\* No id is issued twice: the service outlives the process, or nothing has been
\* restarted.
IssuedOnce == Remote \/ boot = 1

LEMMA ReuseStep ==
    ASSUME IInv, reuse = {}, [Next]_vars, IssuedOnce'
    PROVE  IssuedOnce /\ reuse' = {}
<1>1. boot \in Nat \ {0} /\ (boot' = boot \/ boot' = boot + 1)
  BY BootGrows, Zenon
<1>2. IssuedOnce
  BY <1>1 DEF IssuedOnce
<1>3. ASSUME NEW t \in Tickers, perform_action(t) PROVE reuse' = {}
  <2>1. PICK a, out : request_drain(a, out) \/ release_drain(a, out)
    BY <1>3, Zenon DEF perform_action
  <2>2. reuse' = reuse \/ \E p : reuse' = reuse \ {p.id}
    BY <2>1, Zenon DEF request_drain, release_drain
  <2>3. QED
    BY <2>2, SMTT(30)
<1>4. ASSUME NEW t \in Tickers, Pass(t) \/ apply_outcomes(t) \/ EndTick(t) PROVE reuse' = {}
  BY <1>4, Zenon DEF Pass, StartPass, drive, arbitrate, sweep, apply_outcomes, EndTick
<1>5. ASSUME NEW j \in Jobs,
             \/ propose(j) \/ approve(j) \/ rearm(j) \/ cancel(j)
             \/ \E ok \in BOOLEAN : report_completion(j, ok)
             \/ \E x \in Targets, ok \in BOOLEAN : report_restoration(j, x, ok)
      PROVE  reuse' = {}
  BY <1>5, Zenon DEF propose, approve, rearm, cancel, report_completion, report_restoration
<1>6. CASE \/ \E x \in Targets : clear_quarantine(x)
           \/ set_policy \/ shutdown \/ Advance \/ UNCHANGED vars
  <2>1. CASE \E x \in Targets : clear_quarantine(x)
    BY <1>2, <2>1, Zenon DEF clear_quarantine
  <2>2. CASE set_policy \/ shutdown
    BY <1>2, <2>2, Zenon DEF set_policy, shutdown
  <2>3. CASE Advance
    BY <1>2, <2>3, Zenon DEF Advance
  <2>4. CASE UNCHANGED vars
    BY <1>2, <2>4, Zenon DEF vars
  <2>5. QED
    BY <1>6, <2>1, <2>2, <2>3, <2>4, Zenon
<1>7. CASE Restart
  <2>1. boot' = boot + 1
    BY <1>7, Zenon DEF Restart
  <2>2. Remote
    BY <1>1, <2>1 DEF IssuedOnce
  <2>3. QED
    BY <1>2, <1>7, <2>2, Zenon DEF Restart
<1>8. QED
  BY <1>2, <1>3, <1>4, <1>5, <1>6, <1>7, Zenon DEF Next, Call

LEMMA NextLeases ==
    ASSUME IInv, AInv, LeaseInv, reuse = {}, IssuedOnce', [Next]_vars
    PROVE  /\ LeaseInv'
           /\ LeaseFaultless /\ boot' = boot /\ LeaseAccounted => LeaseAccounted'
<1>1. CASE \E t \in Tickers : perform_action(t)
  BY <1>1, PerformLeases, SMTT(30)
<1>2. CASE \E t \in Tickers : apply_outcomes(t)
  BY <1>2, ApplyLeases, SMTT(30)
<1>3. CASE LeaseQuiet
  BY <1>3, QuietLeases, QuietAccounted
<1>4. CASE \E t \in Tickers : Pass(t) \/ EndTick(t)
  BY <1>3, <1>4, PassQuiet, Zenon
<1>5. CASE \E j \in Jobs : propose(j) \/ approve(j) \/ rearm(j) \/ cancel(j)
  BY <1>3, <1>5, OperatorQuiet, Zenon
<1>6. CASE \/ \E j \in Jobs : \/ \E ok \in BOOLEAN : report_completion(j, ok)
                              \/ \E x \in Targets, ok \in BOOLEAN : report_restoration(j, x, ok)
           \/ \E x \in Targets : clear_quarantine(x)
           \/ set_policy \/ shutdown \/ Advance \/ UNCHANGED vars
  BY <1>3, <1>6, OthersQuiet, Zenon
<1>7. CASE Restart
  <2>1. boot \in Nat \ {0} /\ boot' = boot + 1
    BY <1>7, Zenon DEF Restart, IInv, TypeOK
  <2>2. Remote
    BY <2>1 DEF IssuedOnce
  <2>3. QED
    BY <1>3, <1>7, <2>2, RestartQuiet, Zenon
<1>8. QED
  BY <1>1, <1>2, <1>4, <1>5, <1>6, <1>7, Zenon DEF Next, Call

\* The inductive invariant of both theorems.
LeaseSafe == IssuedOnce => LeaseInv /\ reuse = {}

LEMMA NextLeaseSafe ==
    ASSUME IInv, AInv, LeaseSafe, [Next]_vars
    PROVE  LeaseSafe'
<1> SUFFICES ASSUME IssuedOnce' PROVE LeaseInv' /\ reuse' = {}
  BY Zenon DEF LeaseSafe
<1>1. boot \in Nat \ {0} /\ (boot' = boot \/ boot' = boot + 1)
  BY BootGrows, Zenon
<1>2. IssuedOnce
  BY <1>1 DEF IssuedOnce
<1>3. LeaseInv /\ reuse = {}
  BY <1>2, Zenon DEF LeaseSafe
<1>4. QED
  BY <1>3, ReuseStep, NextLeases, Zenon

LEMMA InitLeases ==
    ASSUME Init
    PROVE  LeaseInv /\ LeaseAccounted /\ LeaseSafe
<1>1. \A t \in Tickers : tick[t] = Idle
  BY Zenon DEF Init
<1>2. /\ \A j \in Jobs : job[j].lease = 0
      /\ \A t \in Tickers : tick[t].pc = "idle"
  BY <1>1, Zenon DEF Init, NoJob, Idle
<1>3. port = {} /\ \A l \in LeaseIds : l # 0
  BY ControllerAssumption, Zenon DEF Init
<1>4. \A l \in LeaseIds, j \in Jobs : ~Claims(l, j)
  BY <1>2, <1>3, Zenon DEF Claims
<1>5. LeaseInv /\ LeaseAccounted
  BY <1>2, <1>3, <1>4, Zenon DEF LeaseInv, OneClaim, Answers, AnswerOK, NamedLeaseOnRecord, LeaseAccounted
<1>6. QED
  BY <1>5, Zenon DEF LeaseSafe, Init

\* Whatever is refused, lost, repeated or cut short by restarts, with any number of
\* tickers, a job names a lease only while the lease is on record, so that
\* apply_outcomes_locked never forgets a lease that a job still counts on, as long
\* as the drain service issues no id twice (LocalDrainPort does, after a restart).
THEOREM NamedLease == Spec => [](Remote \/ boot = 1 => NamedLeaseOnRecord)
<1>1. IInv /\ AInv /\ LeaseSafe /\ [Next]_vars => IInv' /\ AInv' /\ LeaseSafe'
  BY NextOK, NextSafe, NextLeaseSafe, Zenon DEF StepOK, StepSafe
<1>2. Init => IInv /\ AInv /\ LeaseSafe
  BY InitOK, InitSafe, InitLeases
<1>3. LeaseSafe => (Remote \/ boot = 1 => NamedLeaseOnRecord)
  BY Zenon DEF LeaseSafe, LeaseInv, IssuedOnce
<1>4. QED
  BY <1>1, <1>2, <1>3, PTL DEF Spec

\* In the first incarnation, when no grant is lost on the way and no release fails,
\* every lease the drain service holds is on record, queued for release or in an
\* answer about to be applied, however many tickers call the service.
THEOREM LeasesAccounted == Spec => [](LeaseFaultless /\ boot = 1 => LeaseAccounted)
<1> DEFINE First == LeaseFaultless /\ boot = 1 => LeaseAccounted
           I == IInv /\ AInv /\ LeaseSafe /\ First
<1>1. Init => I
  BY InitOK, InitSafe, InitLeases, Zenon
<1>2. I /\ [Next]_vars => I'
  <2> SUFFICES ASSUME I, [Next]_vars PROVE I'
    OBVIOUS
  <2>1. IInv' /\ AInv' /\ LeaseSafe'
    BY NextOK, NextSafe, NextLeaseSafe, Zenon DEF StepOK, StepSafe
  <2>2. boot \in Nat \ {0} /\ (boot' = boot \/ boot' = boot + 1)
    BY BootGrows, Zenon
  <2>3. boot' = 1 => boot' = boot
    BY <2>2
  <2>4. ASSUME LeaseFaultless, boot' = 1 PROVE LeaseAccounted'
    <3>1. boot = 1 /\ IssuedOnce /\ IssuedOnce'
      BY <2>3, <2>4, Zenon DEF IssuedOnce
    <3>2. LeaseInv /\ reuse = {} /\ LeaseAccounted
      BY <2>4, <3>1, Zenon DEF LeaseSafe
    <3>3. QED
      BY <2>3, <2>4, <3>1, <3>2, NextLeases, Zenon
  <2>5. First'
    BY <2>4, Zenon DEF LeaseFaultless
  <2>6. QED
    BY <2>1, <2>5, Zenon
<1>3. QED
  BY <1>1, <1>2, PTL DEF Spec
=============================================================================
