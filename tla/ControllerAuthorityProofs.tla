---------------------- MODULE ControllerAuthorityProofs ----------------------
(***************************************************************************)
(* Theorems about maintenance authority: that of the present attempt,      *)
(* generation and incarnation is the only one there is, service is removed *)
(* only under it, and a job that removed service ends restored or with its *)
(* targets quarantined.  They hold for all constants and any number of     *)
(* restarts, on top of the invariant of ControllerProofs.  The steps of    *)
(* drive_locked come first, then the other steps and the theorems.         *)
(***************************************************************************)
EXTENDS ControllerProofs

Early == {"None", "Proposed", "Validated"}
Removing == {"InMaintenance", "Verifying", "Restoring"}

\* One ticker drives the jobs, as the daemon is deployed (run_ticker is one thread).
OneTicker == \A s, t \in Tickers : s = t

\* What is known of the record r of a job in incarnation b: authority is that of
\* the active attempt; service is out exactly in the stages that remove it, or in
\* a block, after the scope was bound; only this incarnation's verification leads
\* to restoration; an ended job holds nothing.
RecordOK(r, b) ==
    /\ r.next # 0
    /\ r.auth # 0 => r.auth = r.att
    /\ r.state \in Early => r.auth = 0
    /\ r.state \in Removing => r.removed
    /\ r.removed => r.pol # 0 /\ r.state \in Removing \cup {"Blocked", "Complete", "Failed"}
    /\ is_terminal(r.state) => r.auth = 0 /\ r.lease = 0
    /\ r.state = "Restoring" => r.ver = b

\* The targets a job with record r covers (scope, for any record).
ScopeOf(r, j) == IF r.pol = 0 THEN {} ELSE Removal[j]

\* What is known of the ledger L when the jobs are f, in incarnation b: each
\* reservation is the authority its job names, in the job's generation and for
\* its whole scope; a job has one reservation at most.
OnePerJob(L) == \A x, y \in L : x.job = y.job => x = y
LedgerOK(L, f, b) ==
    /\ \A x \in L : /\ x.job \in Jobs /\ x.owner = b /\ x.gen = f[x.job].gen
                    /\ x.att = f[x.job].auth /\ x.att # 0
                    /\ x.targets = ScopeOf(f[x.job], x.job) /\ x.targets # {}
    /\ OnePerJob(L)

\* The invariant behind AuthorityIsCurrent and the theorems after it.
AInv ==
    /\ \A j \in Jobs : RecordOK(job[j], boot)
    /\ LedgerOK(ledger, job, boot)
-----------------------------------------------------------------------------
(* The ledger.                                                             *)

\* x and y are the same grant, with as much time left as may be.
SameGrant(x, y) ==
    /\ x.job = y.job /\ x.gen = y.gen /\ x.att = y.att /\ x.owner = y.owner
    /\ x.targets = y.targets

\* M holds nothing but grants of L.
Derived(M, L) == (\A x \in M : \E y \in L : SameGrant(x, y)) /\ OnePerJob(M)

\* f and g agree on what the reservation of job j depends on.
SameTitle(r, n) == n.gen = r.gen /\ n.auth = r.auth /\ n.pol = r.pol

\* Nothing has run out in M unless something had in L.
LiveKept(M, L) == (\A y \in L : live(y)) => \A x \in M : live(x)

LEMMA DerivedSubset ==
    ASSUME NEW L, NEW M, M \subseteq L, OnePerJob(L)
    PROVE  Derived(M, L) /\ LiveKept(M, L)
BY DEF Derived, OnePerJob, SameGrant, LiveKept

LEMMA DerivedRenew ==
    ASSUME NEW L \in SUBSET Reservation, OnePerJob(L), NEW j, NEW a, NEW o
    PROVE  Derived(renew(L, j, a, o), L) /\ LiveKept(renew(L, j, a, o), L)
<1> DEFINE R(r) == IF r.job = j /\ r.att = a /\ r.owner = o /\ r.ttl <= Margin
                   THEN [r EXCEPT !.ttl = @ + Margin] ELSE r
<1>1. \A r \in Reservation : SameGrant(R(r), r) /\ (live(r) => live(R(r)))
  BY LedgerAssumption DEF SameGrant, Reservation, live
<1>2. renew(L, j, a, o) = {R(r) : r \in L}
  BY DEF renew
<1> HIDE DEF R
<1>3. \A x \in renew(L, j, a, o) : \E y \in L : x = R(y) /\ SameGrant(x, y) /\ (live(y) => live(x))
  BY <1>1, <1>2
<1>4. QED
  BY <1>3 DEF Derived, OnePerJob, SameGrant, LiveKept

LEMMA DerivedElapse ==
    ASSUME NEW L \in SUBSET Reservation, OnePerJob(L)
    PROVE  Derived(Elapse(L), L)
<1> DEFINE R(r) == [r EXCEPT !.ttl = IF @ = 0 THEN 0 ELSE @ - 1]
<1>1. \A r \in Reservation : SameGrant(R(r), r)
  BY DEF SameGrant, Reservation
<1>2. Elapse(L) = {R(r) : r \in L}
  BY DEF Elapse
<1> HIDE DEF R
<1>3. \A x \in Elapse(L) : \E y \in L : x = R(y) /\ SameGrant(x, y)
  BY <1>1, <1>2, Zenon
<1>4. QED
  BY <1>3 DEF Derived, OnePerJob, SameGrant

\* Grants may go, and time may pass, as long as the jobs that still have one keep
\* their title to it.
LEMMA LedgerKept ==
    ASSUME NEW L, NEW f, NEW b, LedgerOK(L, f, b), NEW M, Derived(M, L), NEW g,
           \A x \in M : SameTitle(f[x.job], g[x.job])
    PROVE  LedgerOK(M, g, b)
<1>1. OnePerJob(M)
  BY DEF Derived
<1>2. SUFFICES ASSUME NEW x \in M
               PROVE  /\ x.job \in Jobs /\ x.owner = b /\ x.gen = g[x.job].gen
                      /\ x.att = g[x.job].auth /\ x.att # 0
                      /\ x.targets = ScopeOf(g[x.job], x.job) /\ x.targets # {}
  BY <1>1 DEF LedgerOK
<1>3. PICK y \in L : SameGrant(x, y)
  BY DEF Derived
<1>4. /\ y.job \in Jobs /\ y.owner = b /\ y.gen = f[y.job].gen
      /\ y.att = f[y.job].auth /\ y.att # 0
      /\ y.targets = ScopeOf(f[y.job], y.job) /\ y.targets # {}
  BY DEF LedgerOK
<1>5. QED
  BY <1>3, <1>4 DEF SameGrant, SameTitle, ScopeOf

\* release_resources_locked leaves the job no reservation.
LEMMA FreedNone ==
    ASSUME NEW L, NEW f, LedgerOK(L, f, boot), NEW j, NEW r, r.auth = f[j].auth
    PROVE  /\ FreedLedger(L, j, r) \subseteq L
           /\ \A x \in FreedLedger(L, j, r) : x.job # j
<1>1. \A x \in L : x.job = j => x.att = r.auth /\ x.att # 0 /\ x.owner = boot
  BY DEF LedgerOK
<1>2. QED
  BY <1>1 DEF FreedLedger, release

\* In particular when no job changes.
LEMMA DerivedOK ==
    ASSUME NEW L, NEW f, NEW b, LedgerOK(L, f, b), NEW M, Derived(M, L)
    PROVE  LedgerOK(M, f, b)
<1>1. \A x \in M : SameTitle(f[x.job], f[x.job])
  BY DEF SameTitle
<1>2. QED
  BY <1>1, LedgerKept
-----------------------------------------------------------------------------
(* Records.                                                                *)

\* transition_locked keeps the title of a job it does not retire, and what is
\* known of records, as long as it is asked for one of the moves that the
\* controller makes.
LEMMA MovedRecord ==
    ASSUME NEW r \in JobRecord, NEW b, RecordOK(r, b), ~is_terminal(r.state),
           NEW to \in JobState \ Early, NEW blk \in {"none", "soft", "hard"},
           to = "InMaintenance" => r.pol # 0,
           to = "Restoring" => r.ver = b,
           to \in {"Verifying", "Restoring"} => r.removed,
           r.removed => to \in Removing \cup {"Blocked", "Complete", "Failed"}
    PROVE  LET q == Moved(r, to, blk)
           IN  /\ RecordOK(q, b)
               /\ q.gen = r.gen /\ q.pol = r.pol
               /\ ~Retires(r, to) => q.auth = r.auth
               /\ q.lease \in {0, r.lease} /\ q.att \in {0, r.att}
               /\ q.removed => r.removed \/ to = "InMaintenance"
               /\ q.state \in {r.state, to}
<1> DEFINE x == r.removed \/ to = "InMaintenance"
           d == IF to = "Blocked" THEN 1 ELSE 0
           m == [r EXCEPT !.state = to, !.block = blk, !.removed = x, !.dwell = d]
           q == Moved(r, to, blk)
<1>1. \/ q = r /\ ~Retires(r, to)
      \/ q = m /\ ~is_terminal(to) /\ ~Retires(r, to)
      \/ q = [m EXCEPT !.auth = 0, !.lease = 0, !.att = 0] /\ Retires(r, to)
      \/ q = [m EXCEPT !.auth = 0, !.lease = 0] /\ ~is_terminal(to) /\ Retires(r, to)
  BY DEF Moved, Retires
<1>2. /\ m.state = to /\ m.removed = x /\ m.gen = r.gen /\ m.pol = r.pol
      /\ m.auth = r.auth /\ m.att = r.att /\ m.lease = r.lease /\ m.next = r.next
      /\ m.ver = r.ver
  BY DEF JobRecord
<1>3. \A z : z = [m EXCEPT !.auth = 0, !.lease = 0, !.att = 0] =>
         /\ z.state = to /\ z.removed = x /\ z.gen = r.gen /\ z.pol = r.pol
         /\ z.auth = 0 /\ z.att = 0 /\ z.lease = 0 /\ z.next = r.next /\ z.ver = r.ver
  BY DEF JobRecord
<1>4. \A z : z = [m EXCEPT !.auth = 0, !.lease = 0] =>
         /\ z.state = to /\ z.removed = x /\ z.gen = r.gen /\ z.pol = r.pol
         /\ z.auth = 0 /\ z.att = r.att /\ z.lease = 0 /\ z.next = r.next /\ z.ver = r.ver
  BY DEF JobRecord
<1>5. \/ q = r /\ ~Retires(r, to)
      \/ /\ q.state = to /\ q.removed = x /\ q.gen = r.gen /\ q.pol = r.pol
         /\ q.next = r.next /\ q.ver = r.ver
         /\ \/ /\ q.auth = r.auth /\ q.att = r.att /\ q.lease = r.lease
               /\ ~is_terminal(to) /\ ~Retires(r, to)
            \/ q.auth = 0 /\ q.lease = 0 /\ q.att \in {0, r.att} /\ Retires(r, to)
  <2> HIDE DEF m, q
  <2>1. QED
    BY <1>1, <1>2, <1>3, <1>4, Zenon
<1> HIDE DEF m, q, d
<1>6. r.removed \in BOOLEAN /\ r.state \in JobState \cup {"None"}
  BY DEF JobRecord
<1>7. CASE q = r /\ ~Retires(r, to)
  BY <1>7 DEF q
<1>8. CASE /\ q.state = to /\ q.removed = x /\ q.gen = r.gen /\ q.pol = r.pol
           /\ q.next = r.next /\ q.ver = r.ver
           /\ \/ /\ q.auth = r.auth /\ q.att = r.att /\ q.lease = r.lease
                 /\ ~is_terminal(to) /\ ~Retires(r, to)
              \/ q.auth = 0 /\ q.lease = 0 /\ q.att \in {0, r.att} /\ Retires(r, to)
  <2>1. RecordOK(q, b)
    BY <1>6, <1>8, Zenon DEF RecordOK, Removing, Early, is_terminal, x
  <2>2. QED
    BY <2>1, <1>8, Zenon DEF q, x
<1>9. QED
  BY <1>5, <1>7, <1>8, Zenon
-----------------------------------------------------------------------------
(* One job changes.                                                        *)

LEMMA AuthorityFacts ==
    ASSUME IInv, AInv
    PROVE  /\ job \in [Jobs -> JobRecord] /\ boot \in Nat \ {0} /\ policy \in Nat \ {0}
           /\ ledger \in SUBSET Reservation /\ OnePerJob(ledger)
           /\ LedgerOK(ledger, job, boot)
           /\ \A j \in Jobs : job[j] \in JobRecord /\ RecordOK(job[j], boot)
BY DEF IInv, TypeOK, AInv, LedgerOK

\* A job changes; unless it keeps its title it has no reservation afterwards.
LEMMA OneJob ==
    ASSUME IInv, AInv, NEW j \in Jobs, NEW n, RecordOK(n, boot),
           job' = [job EXCEPT ![j] = n], boot' = boot, Derived(ledger', ledger),
           (\A x \in ledger' : x.job # j) \/ SameTitle(job[j], n)
    PROVE  AInv'
<1>1. /\ \A i \in Jobs : job'[i] = IF i = j THEN n ELSE job[i]
      /\ LedgerOK(ledger, job, boot) /\ \A i \in Jobs : RecordOK(job[i], boot)
  BY AuthorityFacts
<1>2. \A i \in Jobs : RecordOK(job'[i], boot')
  BY <1>1
<1>3. \A x \in ledger' : x.job \in Jobs
  BY <1>1 DEF Derived, SameGrant, LedgerOK
<1>4. \A x \in ledger' : SameTitle(job[x.job], job'[x.job])
  BY <1>1, <1>3 DEF SameTitle
<1>5. LedgerOK(ledger', job', boot)
  BY <1>1, <1>4, LedgerKept, Zenon
<1>6. QED
  BY <1>2, <1>5 DEF AInv

\* No job changes.
LEMMA NoJobChanges ==
    ASSUME IInv, AInv, job' = job, boot' = boot, Derived(ledger', ledger)
    PROVE  AInv'
<1>1. LedgerOK(ledger', job, boot)
  BY AuthorityFacts, DerivedOK
<1>2. QED
  BY <1>1 DEF AInv

LEMMA Unaffected ==
    ASSUME IInv, AInv, UNCHANGED <<job, ledger, boot>>
    PROVE  AInv'
BY AuthorityFacts, DerivedSubset, NoJobChanges, Zenon

\* r is job[j], perhaps bound to the policy or with a new attempt, neither of which
\* happens to a job that has authority.
Entitled(r, j) ==
    /\ r \in JobRecord /\ RecordOK(r, boot)
    /\ r.state = job[j].state /\ r.removed = job[j].removed
    /\ r.gen = job[j].gen /\ r.auth = job[j].auth /\ r.lease = job[j].lease
    /\ r.pol = job[j].pol \/ r.state = "Validated"
    /\ r.att = job[j].att \/ r.state \in {"Validated", "Prerequisites", "Blocked"}

\* Job j, and no other, has changed: it is in the state it was in or in state to,
\* service is not removed but by the start of maintenance, it names no lease but
\* the one it named, and generation, policy and attempt change no more than drive
\* may change them.  The ledger gains nothing.
Carried(j, to) ==
    /\ AInv' /\ Derived(ledger', ledger) /\ LiveKept(ledger', ledger)
    /\ \A i \in Jobs \ {j} : job'[i] = job[i]
    /\ job'[j].state \in {job[j].state, to}
    /\ job'[j].removed => job[j].removed \/ to = "InMaintenance"
    /\ job'[j].lease \in {0, job[j].lease}
    /\ job'[j].gen = job[j].gen
    /\ job[j].state # "Validated" => job'[j].pol = job[j].pol
    /\ job[j].state \notin {"Validated", "Prerequisites", "Blocked"} =>
          job'[j].att \in {0, job[j].att}

LEMMA GoesAuthority ==
    ASSUME IInv, AInv, boot' = boot, NEW t, NEW j \in Jobs, NEW r, Entitled(r, j),
           ~is_terminal(r.state), NEW to \in JobState \ Early,
           NEW blk \in {"none", "soft", "hard"},
           to = "InMaintenance" => r.pol # 0,
           to = "Restoring" => r.ver = boot,
           to \in {"Verifying", "Restoring"} => r.removed,
           r.removed => to \in Removing \cup {"Blocked", "Complete", "Failed"},
           NEW L, Derived(L, ledger), LiveKept(L, ledger), Goes(t, j, r, to, blk, L)
    PROVE  Carried(j, to)
<1> DEFINE q == Moved(r, to, blk)
<1>1. /\ RecordOK(q, boot) /\ q.gen = r.gen /\ q.pol = r.pol
      /\ ~Retires(r, to) => q.auth = r.auth
      /\ q.lease \in {0, r.lease} /\ q.state \in {r.state, to} /\ q.att \in {0, r.att}
      /\ q.removed => r.removed \/ to = "InMaintenance"
  BY MovedRecord, SMTT(30) DEF Entitled
<1>2. LedgerOK(L, job, boot)
  BY AuthorityFacts, DerivedOK
<1>3. /\ job' = [job EXCEPT ![j] = q]
      /\ ledger' = IF Retires(r, to) THEN FreedLedger(L, j, r) ELSE L
  BY DEF Goes
<1> HIDE DEF q
<1>4. /\ q.state \in {job[j].state, to} /\ q.lease \in {0, job[j].lease}
      /\ q.gen = job[j].gen
      /\ q.removed => job[j].removed \/ to = "InMaintenance"
      /\ job[j].state # "Validated" => q.pol = job[j].pol
      /\ job[j].state \notin {"Validated", "Prerequisites", "Blocked"} => q.att \in {0, job[j].att}
  BY <1>1, Zenon DEF Entitled
<1>5. ASSUME Retires(r, to) PROVE AInv' /\ Derived(ledger', ledger) /\ LiveKept(ledger', ledger)
  <2>1. ledger' \subseteq L /\ \A x \in ledger' : x.job # j
    BY <1>2, <1>3, <1>5, FreedNone DEF Entitled
  <2>2. Derived(ledger', ledger) /\ LiveKept(ledger', ledger)
    BY <2>1 DEF Derived, OnePerJob, LiveKept
  <2>3. AInv'
    BY <1>1, <1>3, <2>1, <2>2, OneJob, Zenon
  <2>4. QED
    BY <2>2, <2>3, Zenon
<1>6. ASSUME ~Retires(r, to) PROVE AInv' /\ Derived(ledger', ledger) /\ LiveKept(ledger', ledger)
  <2>1. (\A x \in ledger' : x.job # j) \/ SameTitle(job[j], q)
    <3>1. CASE r.auth = 0
      BY <1>2, <1>3, <1>6, <3>1, ZenonT(40) DEF LedgerOK, Entitled
    <3>2. CASE r.auth # 0
      BY <1>1, <1>6, <3>2, Zenon DEF Entitled, SameTitle, RecordOK, Early
    <3>3. QED
      BY <3>1, <3>2, Zenon
  <2>2. Derived(ledger', ledger) /\ LiveKept(ledger', ledger)
    BY <1>3, <1>6
  <2>3. AInv'
    BY <1>1, <1>3, <1>6, <2>1, OneJob, Zenon
  <2>4. QED
    BY <2>2, <2>3
<1>7. AInv' /\ Derived(ledger', ledger) /\ LiveKept(ledger', ledger)
  BY <1>5, <1>6, Zenon
<1>8. job \in [Jobs -> JobRecord]
  BY AuthorityFacts, Zenon
<1>9. QED
  BY <1>3, <1>4, <1>7, <1>8, Zenon DEF Carried

LEMMA StaysAuthority ==
    ASSUME IInv, AInv, boot' = boot, NEW t, NEW j \in Jobs, NEW r, Entitled(r, j),
           NEW L, Derived(L, ledger), LiveKept(L, ledger), Stays(t, j, r, L)
    PROVE  Carried(j, job[j].state)
<1>1. job' = [job EXCEPT ![j] = r] /\ ledger' = L
  BY DEF Stays
<1>2. LedgerOK(L, job, boot)
  BY AuthorityFacts, DerivedOK, Zenon
<1>3. (\A x \in ledger' : x.job # j) \/ SameTitle(job[j], r)
  BY <1>1, <1>2, SMTT(30) DEF LedgerOK, Entitled, SameTitle, RecordOK, Early
<1>4. AInv'
  BY <1>1, <1>3, OneJob, Zenon DEF Entitled
<1>5. job \in [Jobs -> JobRecord]
  BY AuthorityFacts, Zenon
<1>6. QED
  BY <1>1, <1>4, <1>5, Zenon DEF Carried, Entitled

\* The targets are quarantined, unless the journal does not take it.
Quarantines(j) == "append" \in Faults \/ scope(j) \subseteq quarantined'

LEMMA FailsAuthority ==
    ASSUME IInv, AInv, boot' = boot, NEW t, NEW j \in Jobs, NEW r, Entitled(r, j),
           ~is_terminal(r.state), FailsQuarantined(t, j, r)
    PROVE  /\ Carried(j, "Failed")
           /\ job'[j].state = "Failed" /\ Quarantines(j)
<1> DEFINE q == Moved(r, "Failed", "soft")
<1>1. /\ RecordOK(q, boot) /\ q.state = "Failed"
      /\ q.lease \in {0, r.lease} /\ q.att \in {0, r.att} /\ q.gen = r.gen /\ q.pol = r.pol
      /\ q.removed => r.removed
  <2>1. "Failed" \in JobState \ Early
    BY DEF JobState, Early
  <2>2. /\ RecordOK(q, boot) /\ q.lease \in {0, r.lease} /\ q.att \in {0, r.att}
        /\ q.gen = r.gen /\ q.pol = r.pol
        /\ q.removed => r.removed
    BY <2>1, MovedRecord, SMTT(30) DEF Entitled
  <2>3. check_transition(r.state, "Failed", r.removed)
    BY DEF check_transition, is_terminal
  <2>4. q.state = "Failed"
    BY <2>3, Zenon DEF Moved, is_terminal, Entitled, JobRecord
  <2>5. QED
    BY <2>2, <2>4, Zenon
<1>2. job' = [job EXCEPT ![j] = q] /\ ledger' = FreedLedger(ledger, j, r)
      /\ Quarantines(j)
  BY Zenon DEF FailsQuarantined, Quarantines
<1> HIDE DEF q
<1>3. ledger' \subseteq ledger /\ \A x \in ledger' : x.job # j
  BY <1>2, AuthorityFacts, FreedNone, SMTT(30) DEF Entitled
<1>4. Derived(ledger', ledger) /\ LiveKept(ledger', ledger)
  BY <1>3, AuthorityFacts, DerivedSubset
<1>5. AInv'
  BY <1>1, <1>2, <1>3, <1>4, OneJob, Zenon
<1>6. job \in [Jobs -> JobRecord]
  BY AuthorityFacts
<1>7. Carried(j, "Failed")
  BY <1>1, <1>2, <1>4, <1>5, <1>6, Zenon DEF Carried, Entitled
<1>8. QED
  BY <1>1, <1>2, <1>6, <1>7, Zenon
-----------------------------------------------------------------------------
(* drive_locked.                                                           *)

LEMMA EntitledLike ==
    ASSUME IInv, AInv, NEW j \in Jobs, NEW r \in JobRecord,
           r.state = job[j].state, r.removed = job[j].removed,
           r.gen = job[j].gen, r.auth = job[j].auth, r.lease = job[j].lease,
           r.pol = job[j].pol \/ (r.state = "Validated" /\ r.pol # 0),
           \/ r.att = job[j].att
           \/ r.auth = 0 /\ r.state \in {"Validated", "Prerequisites", "Blocked"},
           r.next # 0, r.ver \in {job[j].ver, boot}
    PROVE  Entitled(r, j)
<1>1. job[j] \in JobRecord /\ RecordOK(job[j], boot)
  BY AuthorityFacts
<1>2. RecordOK(r, boot)
  BY <1>1, Zenon DEF RecordOK
<1>3. QED
  BY <1>2, Zenon DEF Entitled

\* The changes that drive makes to a job before it decides.
LEMMA EntitledUpdates ==
    ASSUME IInv, AInv, NEW j \in Jobs
    PROVE  LET r == job[j]
           IN  /\ Entitled(r, j)
               /\ Entitled([r EXCEPT !.ver = boot], j)
               /\ Entitled([r EXCEPT !.verFails = @ + 1], j)
               /\ Entitled([r EXCEPT !.restFails = @ + 1], j)
               /\ \A x \in BOOLEAN : Entitled([r EXCEPT !.failed = x], j)
               /\ r.att = 0 /\ r.state \in {"Validated", "Prerequisites", "Blocked"} =>
                     Entitled(NewAttempt(r), j)
<1> DEFINE r == job[j]
<1>1. r \in JobRecord /\ RecordOK(r, boot) /\ boot \in Nat
  BY AuthorityFacts
<1> HIDE DEF r
<1>2. Entitled(r, j)
  BY <1>1, EntitledLike, Zenon DEF RecordOK, r
<1>3. \A n : n = [r EXCEPT !.ver = boot] => Entitled(n, j)
  <2> SUFFICES ASSUME NEW n, n = [r EXCEPT !.ver = boot] PROVE Entitled(n, j)
    OBVIOUS
  <2>1. n \in JobRecord /\ n.state = r.state /\ n.removed = r.removed /\ n.gen = r.gen
        /\ n.auth = r.auth /\ n.lease = r.lease /\ n.pol = r.pol /\ n.att = r.att
        /\ n.next = r.next /\ n.ver = boot
    BY <1>1 DEF JobRecord
  <2>2. QED
    BY <1>1, <2>1, EntitledLike, Zenon DEF RecordOK, r
<1>4. \A n : (\/ n = [r EXCEPT !.verFails = r.verFails + 1]
              \/ n = [r EXCEPT !.restFails = r.restFails + 1]
              \/ \E x \in BOOLEAN : n = [r EXCEPT !.failed = x]) => Entitled(n, j)
  <2> SUFFICES ASSUME NEW n, \/ n = [r EXCEPT !.verFails = r.verFails + 1]
                             \/ n = [r EXCEPT !.restFails = r.restFails + 1]
                             \/ \E x \in BOOLEAN : n = [r EXCEPT !.failed = x]
               PROVE  Entitled(n, j)
    OBVIOUS
  <2>1. n \in JobRecord /\ n.state = r.state /\ n.removed = r.removed /\ n.gen = r.gen
        /\ n.auth = r.auth /\ n.lease = r.lease /\ n.pol = r.pol /\ n.att = r.att
        /\ n.next = r.next /\ n.ver = r.ver
    BY <1>1 DEF JobRecord
  <2>2. QED
    BY <1>1, <2>1, EntitledLike, Zenon DEF RecordOK, r
<1>5. ASSUME r.att = 0, r.state \in {"Validated", "Prerequisites", "Blocked"}
      PROVE  Entitled(NewAttempt(r), j)
  <2> DEFINE n == NewAttempt(r)
  <2>1. n \in JobRecord /\ n.state = r.state /\ n.removed = r.removed
    BY <1>1, NewAttemptType
  <2>2. /\ n.gen = r.gen /\ n.auth = r.auth /\ n.lease = r.lease /\ n.pol = r.pol
        /\ n.next = r.next + 1 /\ n.ver = r.ver
    BY <1>1, Zenon DEF NewAttempt, JobRecord
  <2>3. r.auth = 0 /\ r.next + 1 # 0
    BY <1>1, <1>5 DEF RecordOK, JobRecord
  <2> HIDE DEF n
  <2>4. Entitled(n, j)
    BY <1>5, <2>1, <2>2, <2>3, EntitledLike, Zenon DEF r
  <2>5. QED
    BY <2>4 DEF n
<1>6. QED
  BY <1>2, <1>3, <1>4, <1>5 DEF r
\* EndsRestoredOrQuarantined, for one job and one step.
EndsWell(j) ==
    j \in Out /\ is_terminal(job'[j].state) =>
        \/ /\ job[j].ver = boot /\ job[j].lease = 0
           /\ scope(j) \cap quarantined = {}
           /\ scope(j) \subseteq view.serving
        \/ job'[j].state = "Failed" /\ Quarantines(j)

\* drive_ready found nothing against the start of maintenance.
Cleared(j) == job[j].state = "Ready" /\ ~Violated(j) /\ ~Pending(j)

\* drive_restoring found everything restored.
Restored(j) ==
    /\ job[j].state = "Restoring" /\ job[j].lease = 0
    /\ scope(j) \subseteq view.serving \ quarantined

\* What drive does to the job it drives.
Driven(j) ==
    /\ AInv' /\ Derived(ledger', ledger) /\ LiveKept(ledger', ledger)
    /\ \A i \in Jobs \ {j} : job'[i] = job[i]
    /\ EndsWell(j)
    /\ ~job[j].removed /\ job'[j].removed => Cleared(j) /\ job'[j].state # "Blocked"
    /\ job'[j].state = "Complete" => Restored(j)
    /\ job[j].removed /\ job'[j].state = "Blocked" => job[j].state = "Blocked"
    /\ job'[j].lease \in {0, job[j].lease}
    /\ job'[j].gen = job[j].gen
    /\ job[j].state # "Validated" => job'[j].pol = job[j].pol
    /\ job[j].state \notin {"Validated", "Prerequisites", "Blocked"} =>
          job'[j].att \in {0, job[j].att}

LEMMA CarriedDriven ==
    ASSUME NEW j, NEW to, Carried(j, to), ~is_terminal(job[j].state),
           is_terminal(to) => EndsWell(j), to = "InMaintenance" => Cleared(j),
           to = "Complete" => Restored(j), to = "Blocked" => ~job[j].removed
    PROVE  Driven(j)
BY Zenon DEF Carried, Driven, EndsWell, is_terminal, Cleared

LEMMA RenewedLedger ==
    ASSUME IInv, AInv, NEW j, NEW a
    PROVE  /\ Derived(renew(ledger, j, a, boot), ledger) /\ Derived(ledger, ledger)
           /\ LiveKept(renew(ledger, j, a, boot), ledger) /\ LiveKept(ledger, ledger)
BY AuthorityFacts, DerivedRenew, DerivedSubset

LEMMA LaterStates ==
    /\ {"Blocked", "Prerequisites", "Ready", "InMaintenance", "Verifying",
        "Restoring", "Complete", "Failed", "Cancelled"} \subseteq JobState \ Early
    /\ \A s \in {"Blocked", "Prerequisites", "Ready", "InMaintenance", "Verifying",
                 "Restoring", "Validated"} : ~is_terminal(s)
    /\ {"Blocked", "Verifying", "Restoring", "Complete", "Failed"} \subseteq
          Removing \cup {"Blocked", "Complete", "Failed"}
BY States DEF Early, is_terminal, Removing

\* The job fails with its targets quarantined.
LEMMA FailsDriven ==
    ASSUME IInv, AInv, boot' = boot, NEW t, NEW j \in Jobs, NEW r, Entitled(r, j),
           ~is_terminal(job[j].state), FailsQuarantined(t, j, r)
    PROVE  Driven(j)
<1>1. Carried(j, "Failed") /\ job'[j].state = "Failed" /\ Quarantines(j)
  BY FailsAuthority, Zenon DEF Entitled
<1>2. EndsWell(j)
  BY <1>1, Zenon DEF EndsWell
<1>3. QED
  BY <1>1, <1>2, CarriedDriven, Zenon

\* The job stays in its state.
LEMMA StaysDriven ==
    ASSUME IInv, AInv, boot' = boot, NEW t, NEW j \in Jobs, NEW r, Entitled(r, j),
           ~is_terminal(job[j].state), job[j].state # "InMaintenance" \/ job[j].removed,
           NEW L, Derived(L, ledger), LiveKept(L, ledger), Stays(t, j, r, L)
    PROVE  Driven(j)
<1>1. Carried(j, job[j].state)
  BY StaysAuthority, Zenon
<1>2. job' = [job EXCEPT ![j] = r] /\ job \in [Jobs -> JobRecord]
  BY AuthorityFacts, Zenon DEF Stays
<1>3. job'[j].removed = job[j].removed /\ job[j].removed \in BOOLEAN
  BY <1>2, Zenon DEF Entitled, JobRecord
<1>4. QED
  BY <1>1, <1>3, Zenon DEF Carried, Driven, EndsWell, is_terminal

LEMMA DriveValidatedAuthority ==
    ASSUME IInv, AInv, boot' = boot, NEW t, NEW j \in Jobs, drive_validated(t, j)
    PROVE  Driven(j)
<1> DEFINE r == job[j]
           bound == [r EXCEPT !.pol = policy]
           q == IF r.att = 0 THEN NewAttempt(bound) ELSE bound
<1>1. /\ r \in JobRecord /\ RecordOK(r, boot) /\ r.state = "Validated"
      /\ policy \in Nat \ {0} /\ Derived(ledger, ledger) /\ LiveKept(ledger, ledger) /\ Entitled(r, j)
  BY AuthorityFacts, RenewedLedger, EntitledUpdates, Zenon DEF drive_validated
<1>2. r.auth = 0 /\ ~r.removed /\ ~is_terminal(r.state) /\ r.next \in Nat
  BY <1>1, Zenon DEF RecordOK, Early, Removing, is_terminal, JobRecord
<1>3. \/ Goes(t, j, r, "Blocked", "hard", ledger)
      \/ Goes(t, j, q, "Prerequisites", "none", ledger)
  BY DEF drive_validated
<1> HIDE DEF r
<1>4. /\ bound \in JobRecord /\ bound.state = r.state /\ bound.removed = r.removed
      /\ bound.gen = r.gen /\ bound.auth = r.auth /\ bound.lease = r.lease
      /\ bound.pol = policy /\ bound.att = r.att /\ bound.next = r.next /\ bound.ver = r.ver
  BY <1>1 DEF JobRecord
<1> HIDE DEF bound
<1>5. LET n == NewAttempt(bound)
      IN  /\ n \in JobRecord /\ n.state = r.state /\ n.removed = r.removed
          /\ n.gen = r.gen /\ n.auth = r.auth /\ n.lease = r.lease
          /\ n.pol = policy /\ n.next = r.next + 1 /\ n.ver = r.ver
  <2>1. NewAttempt(bound) \in JobRecord
    BY <1>4, NewAttemptType, Zenon
  <2>2. QED
    BY <1>4, <2>1 DEF NewAttempt, JobRecord
<1>6. Entitled(q, j)
  <2>1. /\ q \in JobRecord /\ q.state = r.state /\ q.removed = r.removed
        /\ q.gen = r.gen /\ q.auth = r.auth /\ q.lease = r.lease
        /\ q.pol = policy /\ q.next # 0 /\ q.ver = r.ver
    BY <1>1, <1>2, <1>4, <1>5, SMTT(30) DEF RecordOK
  <2> HIDE DEF q
  <2>2. QED
    BY <1>1, <1>2, <2>1, EntitledLike, Zenon DEF r
<1> HIDE DEF q
<1>7. ~q.removed /\ ~is_terminal(q.state)
  BY <1>2, <1>6, Zenon DEF Entitled, r
<1>8. \E to \in {"Blocked", "Prerequisites"} : Carried(j, to)
  BY <1>1, <1>2, <1>3, <1>6, <1>7, GoesAuthority, LaterStates, Zenon
<1>9. QED
  BY <1>2, <1>8, CarriedDriven, LaterStates, Zenon DEF r

LEMMA DriveReadyAuthority ==
    ASSUME IInv, AInv, boot' = boot, NEW t, NEW j \in Jobs, drive_ready(t, j)
    PROVE  Driven(j)
<1>1. /\ job[j].state = "Ready" /\ Derived(ledger, ledger) /\ LiveKept(ledger, ledger)
      /\ Entitled(job[j], j)
      /\ RecordOK(job[j], boot)
  BY AuthorityFacts, RenewedLedger, EntitledUpdates, Zenon DEF drive_ready
<1>2. ~job[j].removed /\ ~is_terminal(job[j].state)
  BY <1>1, Zenon DEF RecordOK, Removing, is_terminal
<1>3. \/ \E to \in {"Blocked", "Prerequisites"}, blk \in {"none", "soft", "hard"} :
            Goes(t, j, job[j], to, blk, ledger)
      \/ Cleared(j) /\ Goes(t, j, job[j], "InMaintenance", "none", ledger)
  BY Zenon DEF drive_ready, Cleared
<1>4. CASE \E to \in {"Blocked", "Prerequisites"}, blk \in {"none", "soft", "hard"} :
              Goes(t, j, job[j], to, blk, ledger)
  <2>1. \E to \in {"Blocked", "Prerequisites"} : Carried(j, to)
    BY <1>1, <1>2, <1>4, GoesAuthority, LaterStates, SMTT(30)
  <2>2. QED
    BY <1>2, <2>1, CarriedDriven, LaterStates, Zenon
<1>5. CASE Cleared(j) /\ Goes(t, j, job[j], "InMaintenance", "none", ledger)
  <2>1. job[j].pol # 0
    BY <1>5, AuthorityFacts DEF Cleared, Violated, PolicyStale
  <2>2. Carried(j, "InMaintenance")
    BY <1>1, <1>2, <1>5, <2>1, GoesAuthority, LaterStates, Zenon
  <2>3. QED
    BY <1>2, <1>5, <2>2, CarriedDriven, LaterStates, Zenon
<1>6. QED
  BY <1>3, <1>4, <1>5

LEMMA DriveBlockedAuthority ==
    ASSUME IInv, AInv, boot' = boot, NEW t, NEW j \in Jobs, drive_blocked(t, j)
    PROVE  Driven(j)
<1> DEFINE r == job[j]
           q == IF r.att = 0 THEN NewAttempt(r) ELSE r
<1>1. /\ r.state = "Blocked" /\ Derived(ledger, ledger) /\ LiveKept(ledger, ledger) /\ Entitled(r, j)
      /\ Entitled(q, j) /\ r \in JobRecord
  BY AuthorityFacts, RenewedLedger, EntitledUpdates, Zenon DEF drive_blocked
<1>2. \/ Stays(t, j, r, ledger)
      \/ r.removed /\ Goes(t, j, q, "Verifying", r.block, ledger)
      \/ ~r.removed /\ Goes(t, j, r, "Prerequisites", "none", ledger)
  BY Zenon DEF drive_blocked
<1> HIDE DEF q
<1>3. /\ ~is_terminal(r.state) /\ r.block \in {"none", "soft", "hard"}
      /\ q.state = r.state /\ q.removed = r.removed
  BY <1>1, Zenon DEF JobRecord, is_terminal, Entitled
<1>4. CASE Stays(t, j, r, ledger)
  BY <1>1, <1>3, <1>4, StaysDriven, Zenon
<1>5. CASE r.removed /\ Goes(t, j, q, "Verifying", r.block, ledger)
  <2>1. Carried(j, "Verifying")
    BY <1>1, <1>3, <1>5, GoesAuthority, LaterStates, ZenonT(40)
  <2>2. QED
    BY <1>3, <2>1, CarriedDriven, LaterStates, Zenon
<1>6. CASE ~r.removed /\ Goes(t, j, r, "Prerequisites", "none", ledger)
  <2>1. Carried(j, "Prerequisites")
    BY <1>1, <1>3, <1>6, GoesAuthority, LaterStates, Zenon
  <2>2. QED
    BY <1>3, <2>1, CarriedDriven, LaterStates, Zenon
<1>7. QED
  BY <1>2, <1>4, <1>5, <1>6, Zenon

LEMMA DriveInMaintenanceAuthority ==
    ASSUME IInv, AInv, boot' = boot, NEW t, NEW j \in Jobs, drive_in_maintenance(t, j)
    PROVE  Driven(j)
<1> DEFINE r == job[j]
           x == r.failed \/ \E k \in scope(j) : ~completed[k].ok
           q == [r EXCEPT !.failed = x]
<1>1. /\ r.state = "InMaintenance" /\ Derived(ledger, ledger) /\ LiveKept(ledger, ledger) /\ Entitled(r, j)
      /\ r \in JobRecord /\ RecordOK(r, boot)
  BY AuthorityFacts, RenewedLedger, EntitledUpdates, Zenon DEF drive_in_maintenance
<1>2. Entitled(q, j)
  <2>1. x \in BOOLEAN
    BY <1>1, Zenon DEF JobRecord
  <2> HIDE DEF x
  <2>2. QED
    BY <2>1, EntitledUpdates, Zenon
<1>3. \/ Stays(t, j, r, ledger)
      \/ FailsQuarantined(t, j, r)
      \/ Goes(t, j, q, "Verifying", "none", ledger)
  BY DEF drive_in_maintenance
<1> HIDE DEF q
<1>4. ~is_terminal(r.state) /\ r.removed /\ q.state = r.state /\ q.removed = r.removed
  BY <1>1, <1>2, Zenon DEF RecordOK, Removing, is_terminal, Entitled
<1>5. CASE Goes(t, j, q, "Verifying", "none", ledger)
  <2>1. Carried(j, "Verifying")
    BY <1>1, <1>2, <1>4, <1>5, GoesAuthority, LaterStates, Zenon
  <2>2. QED
    BY <1>4, <2>1, CarriedDriven, LaterStates, Zenon
<1>6. QED
  BY <1>1, <1>3, <1>4, <1>5, StaysDriven, FailsDriven, Zenon

LEMMA DriveVerifyingAuthority ==
    ASSUME IInv, AInv, boot' = boot, NEW t, NEW j \in Jobs, drive_verifying(t, j)
    PROVE  Driven(j)
<1> DEFINE r == job[j]
           passed == [r EXCEPT !.ver = boot]
           more == [r EXCEPT !.verFails = @ + 1]
<1>1. /\ r.state = "Verifying" /\ Derived(ledger, ledger) /\ LiveKept(ledger, ledger) /\ Entitled(r, j)
      /\ RecordOK(r, boot) /\ r \in JobRecord
  BY AuthorityFacts, RenewedLedger, EntitledUpdates, Zenon DEF drive_verifying
<1>2. Entitled(passed, j) /\ Entitled(more, j) /\ passed.ver = boot
  BY <1>1, EntitledUpdates, Zenon DEF JobRecord
<1>3. \/ Goes(t, j, passed, "Restoring", "none", ledger)
      \/ Stays(t, j, r, ledger)
      \/ Stays(t, j, more, ledger)
      \/ FailsQuarantined(t, j, more)
  BY DEF drive_verifying
<1> HIDE DEF passed, more
<1>4. /\ ~is_terminal(r.state) /\ r.removed
      /\ passed.state = r.state /\ passed.removed = r.removed
  BY <1>1, <1>2, Zenon DEF RecordOK, Removing, is_terminal, Entitled
<1>5. CASE Goes(t, j, passed, "Restoring", "none", ledger)
  <2>1. Carried(j, "Restoring")
    BY <1>1, <1>2, <1>4, <1>5, GoesAuthority, LaterStates, Zenon
  <2>2. QED
    BY <1>4, <2>1, CarriedDriven, LaterStates, Zenon
<1>6. QED
  BY <1>1, <1>2, <1>3, <1>4, <1>5, StaysDriven, FailsDriven, Zenon

\* The one way to end well: verified by this incarnation, the lease given back,
\* the targets serving and free of quarantine.
LEMMA DriveRestoringAuthority ==
    ASSUME IInv, AInv, boot' = boot, NEW t, NEW j \in Jobs, drive_restoring(t, j)
    PROVE  Driven(j)
<1> DEFINE r == job[j]
           more == [r EXCEPT !.restFails = @ + 1]
           proven == scope(j) \subseteq view.serving \ quarantined
<1>1. /\ r.state = "Restoring" /\ Derived(ledger, ledger) /\ LiveKept(ledger, ledger) /\ Entitled(r, j)
      /\ RecordOK(r, boot) /\ Entitled(more, j)
  BY AuthorityFacts, RenewedLedger, EntitledUpdates, Zenon DEF drive_restoring
<1>2. \/ Stays(t, j, r, ledger)
      \/ Stays(t, j, more, ledger)
      \/ FailsQuarantined(t, j, more)
      \/ /\ r.lease = 0 /\ proven
         /\ \/ Goes(t, j, r, "Failed", "soft", ledger)
            \/ Goes(t, j, r, "Complete", "none", ledger)
      \/ UNCHANGED <<job, ledger>>
  BY Zenon DEF drive_restoring
<1>3. ~is_terminal(r.state) /\ r.removed /\ r.ver = boot
  BY <1>1 DEF RecordOK, Removing, is_terminal
<1>4. CASE /\ r.lease = 0 /\ proven
           /\ \/ Goes(t, j, r, "Failed", "soft", ledger)
              \/ Goes(t, j, r, "Complete", "none", ledger)
  <2>1. \E to \in {"Failed", "Complete"} : Carried(j, to)
    BY <1>1, <1>3, <1>4, GoesAuthority, LaterStates, Zenon
  <2>2. EndsWell(j) /\ Restored(j)
    BY <1>1, <1>3, <1>4, Zenon DEF EndsWell, Restored
  <2>3. QED
    BY <1>3, <2>1, <2>2, CarriedDriven, Zenon
<1>5. CASE UNCHANGED <<job, ledger>>
  <2>1. AInv'
    BY <1>5, Unaffected
  <2>2. job[j].state # "Complete"
    BY <1>1
  <2>3. QED
    BY <1>1, <1>3, <1>5, <2>1, <2>2, Zenon DEF Driven, EndsWell
<1> HIDE DEF more
<1>6. QED
  BY <1>1, <1>2, <1>3, <1>4, <1>5, StaysDriven, FailsDriven, Zenon

LEMMA DrivePrerequisitesAuthority ==
    ASSUME IInv, AInv, boot' = boot, NEW t, NEW j \in Jobs, drive_prerequisites(t, j)
    PROVE  Driven(j)
<1> DEFINE r == job[j]
           L == renew(ledger, j, r.att, boot)
           new == NewAttempt(r)
           freed == [r EXCEPT !.auth = 0]
           held == {x \in ledger : x.job = j /\ x.att = r.auth}
<1>1. /\ r.state = "Prerequisites" /\ Derived(ledger, ledger) /\ Derived(L, ledger)
      /\ LiveKept(ledger, ledger) /\ LiveKept(L, ledger)
      /\ Entitled(r, j) /\ RecordOK(r, boot) /\ r \in JobRecord
  BY AuthorityFacts, RenewedLedger, EntitledUpdates, Zenon DEF drive_prerequisites
<1>2. r.att = 0 => Entitled(new, j)
  BY <1>1, EntitledUpdates, Zenon
<1>3. \/ r.att = 0 /\ Stays(t, j, new, ledger)
      \/ Stays(t, j, r, ledger)
      \/ held = {} /\ Stays(t, j, freed, ledger)
      \/ \E to \in {"Blocked", "Ready"}, blk \in {"none", "soft", "hard"} :
            Goes(t, j, r, to, blk, L)
      \/ Stays(t, j, r, L)
      \/ ledger' = L /\ UNCHANGED job
  BY Zenon DEF drive_prerequisites
<1>4. ~is_terminal(r.state) /\ ~r.removed
  BY <1>1, Zenon DEF RecordOK, Removing, is_terminal
<1>5. CASE held = {} /\ Stays(t, j, freed, ledger)
  <2>1. \A x \in ledger : x.job # j
    BY <1>5, AuthorityFacts DEF LedgerOK
  <2>2. /\ RecordOK(freed, boot) /\ freed.state = r.state /\ freed.removed = r.removed
        /\ freed.lease = r.lease /\ freed.gen = r.gen /\ freed.pol = r.pol
    <3>1. /\ freed.state = r.state /\ freed.removed = r.removed /\ freed.lease = r.lease
          /\ freed.auth = 0 /\ freed.next = r.next /\ freed.pol = r.pol /\ freed.ver = r.ver
          /\ freed.gen = r.gen
      BY <1>1 DEF JobRecord
    <3> HIDE DEF freed
    <3>2. QED
      BY <1>1, <3>1, Zenon DEF RecordOK
  <2>3. job' = [job EXCEPT ![j] = freed] /\ ledger' = ledger
    BY <1>5 DEF Stays
  <2> HIDE DEF freed
  <2>4. AInv'
    BY <1>1, <2>1, <2>2, <2>3, OneJob, Zenon
  <2>5. job \in [Jobs -> JobRecord]
    BY AuthorityFacts
  <2>6. QED
    BY <1>1, <1>4, <2>2, <2>3, <2>4, <2>5, Zenon DEF Driven, EndsWell, is_terminal
<1>6. CASE ledger' = L /\ UNCHANGED job
  <2>1. AInv'
    BY <1>1, <1>6, NoJobChanges, Zenon
  <2>2. QED
    BY <1>1, <1>4, <1>6, <2>1, Zenon DEF Driven, EndsWell, is_terminal
<1>7. CASE \E to \in {"Blocked", "Ready"}, blk \in {"none", "soft", "hard"} :
              Goes(t, j, r, to, blk, L)
  <2> HIDE DEF L
  <2>1. PICK to \in {"Blocked", "Ready"}, blk \in {"none", "soft", "hard"} : Goes(t, j, r, to, blk, L)
    BY <1>7, Zenon
  <2>2. Carried(j, to)
    BY <1>1, <1>4, <2>1, GoesAuthority, LaterStates, SMTT(30)
  <2>3. ~is_terminal("Blocked") /\ ~is_terminal("Ready")
    BY DEF is_terminal
  <2>4. QED
    BY <1>4, <2>2, <2>3, CarriedDriven, Zenon
<1> HIDE DEF L, new, freed, held
<1>8. QED
  BY <1>1, <1>2, <1>3, <1>4, <1>5, <1>6, <1>7, StaysDriven, Zenon
-----------------------------------------------------------------------------
\* A job that removed service keeps its removal set and generation, and but for a
\* restart and the end of a block its attempt.
Steady(j) ==
    job[j].removed \/ job'[j].removed =>
        /\ job'[j].pol = job[j].pol /\ job'[j].gen = job[j].gen
        /\ boot' = boot /\ job[j].state # "Blocked" => job'[j].att \in {0, job[j].att}

Starts(j) == ~job[j].removed /\ job'[j].removed

\* A ticker is driving the jobs and has come to j.
Reached(j) == \E t \in Tickers : tick[t].pc = "drive" /\ j > tick[t].at

\* What every step keeps, and what it may do to a job that removed service or is
\* about to.
StepSafe ==
    /\ AInv'
    /\ \A j \in Jobs : EndsWell(j) /\ Steady(j)
    /\ \A j \in Jobs : Starts(j) => Cleared(j) /\ Reached(j) /\ job'[j].state # "Blocked"
    /\ \A i, j \in Jobs : Starts(i) /\ Starts(j) => i = j

\* No job removes service, and none that did ends.
Calm ==
    \A j \in Jobs :
        /\ job'[j].removed = job[j].removed /\ Steady(j)
        /\ job[j].removed => job'[j].state = job[j].state \/ ~is_terminal(job'[j].state)

LEMMA CalmSafe ==
    ASSUME AInv', Calm
    PROVE  StepSafe
BY Zenon DEF StepSafe, Calm, EndsWell, Out, Starts

LEMMA QuietSafe ==
    ASSUME IInv, AInv, UNCHANGED <<job, boot>>, Derived(ledger', ledger)
    PROVE  StepSafe
BY NoJobChanges, CalmSafe, Zenon DEF Calm, Steady

LEMMA UntouchedSafe ==
    ASSUME IInv, AInv, UNCHANGED <<job, ledger, boot>>
    PROVE  StepSafe
BY AuthorityFacts, DerivedSubset, QuietSafe

\* Jobs change but keep their titles.
LEMMA TitlesKept ==
    ASSUME IInv, AInv, boot' = boot, Derived(ledger', ledger),
           \A i \in Jobs : RecordOK(job'[i], boot) /\ SameTitle(job[i], job'[i]),
           Calm
    PROVE  StepSafe
<1>1. LedgerOK(ledger, job, boot)
  BY AuthorityFacts, Zenon
<1>2. \A x \in ledger' : x.job \in Jobs
  BY <1>1, Zenon DEF Derived, SameGrant, LedgerOK
<1>3. LedgerOK(ledger', job', boot)
  BY <1>1, <1>2, LedgerKept, Zenon
<1>4. QED
  BY <1>3, CalmSafe, Zenon DEF AInv

\* One job changes, calmly.
LEMMA OneCalm ==
    ASSUME IInv, AInv, NEW j \in Jobs, NEW n, RecordOK(n, boot),
           job' = [job EXCEPT ![j] = n], boot' = boot, Derived(ledger', ledger),
           (\A x \in ledger' : x.job # j) \/ SameTitle(job[j], n),
           n.removed = job[j].removed,
           job[j].removed => n.state = job[j].state \/ ~is_terminal(n.state),
           job[j].removed => n.pol = job[j].pol /\ n.gen = job[j].gen /\ n.att \in {0, job[j].att}
    PROVE  StepSafe
<1>1. AInv'
  BY OneJob, Zenon
<1>2. job \in [Jobs -> JobRecord]
  BY AuthorityFacts, Zenon
<1>3. Calm
  BY <1>2, Zenon DEF Calm, Steady
<1>4. QED
  BY <1>1, <1>3, CalmSafe, Zenon
-----------------------------------------------------------------------------
(* The steps of a pass.                                                    *)

LEMMA DriveDriven ==
    ASSUME IInv, AInv, NEW t \in Tickers, drive(t)
    PROVE  \E j \in Remaining(tick[t].at) :
              Driven(j) /\ (job[j].state = "Restoring" => drive_restoring(t, j))
<1>1. boot' = boot
  BY Zenon DEF drive
<1>2. PICK j \in Remaining(tick[t].at) :
         \/ drive_restoring(t, j) \/ drive_validated(t, j) \/ drive_prerequisites(t, j)
         \/ drive_ready(t, j) \/ drive_blocked(t, j)
         \/ drive_in_maintenance(t, j) \/ drive_verifying(t, j)
  BY Zenon DEF drive
<1>3. j \in Jobs
  BY Zenon DEF Remaining
<1>4. Driven(j)
  BY <1>1, <1>2, <1>3, DriveRestoringAuthority, DriveValidatedAuthority,
     DrivePrerequisitesAuthority, DriveReadyAuthority, DriveBlockedAuthority,
     DriveInMaintenanceAuthority, DriveVerifyingAuthority, Zenon
<1>5. job[j].state = "Restoring" => drive_restoring(t, j)
  BY <1>2, Zenon DEF drive_validated, drive_prerequisites, drive_ready, drive_blocked,
     drive_in_maintenance, drive_verifying
<1>6. QED
  BY <1>2, <1>4, <1>5, Zenon

LEMMA DriveSafe ==
    ASSUME IInv, AInv, NEW t \in Tickers, drive(t)
    PROVE  StepSafe
<1>1. PICK j \in Jobs : Driven(j) /\ Reached(j)
  BY DriveDriven, Zenon DEF Remaining, drive, Reached
<1>2. \A i \in Jobs \ {j} : job'[i] = job[i]
  BY <1>1, Zenon DEF Driven
<1>3. \A i \in Jobs : EndsWell(i)
  BY <1>1, <1>2, Zenon DEF Driven, EndsWell, Out
<1>4. \A i \in Jobs : Steady(i)
  <2>1. RecordOK(job[j], boot)
    BY AuthorityFacts
  <2>2. job[j].removed \/ job'[j].removed => job[j].state \notin {"Validated", "Prerequisites"}
    BY <1>1, <2>1, Zenon DEF RecordOK, Removing, is_terminal, Driven, Cleared
  <2>3. QED
    BY <1>1, <1>2, <2>2, Zenon DEF Driven, Steady
<1>5. \A i \in Jobs : Starts(i) => i = j /\ Cleared(i) /\ job'[i].state # "Blocked"
  BY <1>1, <1>2, Zenon DEF Driven, Starts
<1>6. QED
  BY <1>1, <1>3, <1>4, <1>5, Zenon DEF Driven, StepSafe

LEMMA StartPassSafe ==
    ASSUME IInv, AInv, NEW t \in Tickers, StartPass(t)
    PROVE  StepSafe
<1>1. UNCHANGED <<job, boot>> /\ ledger' = expire(ledger)
  BY DEF StartPass
<1>2. Derived(ledger', ledger)
  BY <1>1, AuthorityFacts, DerivedSubset, Zenon DEF expire
<1>3. QED
  BY <1>1, <1>2, QuietSafe, Zenon

\* A grant: the job had no reservation of its generation, so it had none.
LEMMA GrantSafe ==
    ASSUME IInv, AInv, NEW j \in Jobs, job[j].state = "Prerequisites", job[j].att # 0,
           scope(j) # {}, find_for_job(ledger, j, job[j].gen) = {},
           ledger' = reserve(ledger, j, job[j].gen, job[j].att, boot, scope(j)),
           job' = [job EXCEPT ![j].auth = job[j].att], boot' = boot
    PROVE  StepSafe
<1> DEFINE r == job[j]
           n == [r EXCEPT !.auth = r.att]
           x == [job |-> j, gen |-> r.gen, att |-> r.att, owner |-> boot,
                 targets |-> scope(j), ttl |-> Lease]
<1>1. /\ job \in [Jobs -> JobRecord] /\ r \in JobRecord /\ RecordOK(r, boot)
      /\ LedgerOK(ledger, job, boot)
  BY AuthorityFacts
<1>2. job' = [job EXCEPT ![j] = n]
  BY <1>1
<1>3. /\ n.state = r.state /\ n.removed = r.removed /\ n.lease = r.lease
      /\ n.gen = r.gen /\ n.att = r.att /\ n.auth = r.att /\ n.next = r.next
      /\ n.pol = r.pol /\ n.ver = r.ver
  BY <1>1, Zenon DEF JobRecord
<1> HIDE DEF n
<1>4. RecordOK(n, boot)
  BY <1>1, <1>3, Zenon DEF RecordOK, Early, is_terminal
<1>5. \A i \in Jobs : job'[i] = IF i = j THEN n ELSE job[i]
  BY <1>1, <1>2
<1>6. \A y \in ledger : y.job # j
  BY <1>1 DEF find_for_job, LedgerOK
<1>7. ledger' = ledger \cup {x}
  BY DEF reserve
<1>8. /\ x.job = j /\ x.gen = r.gen /\ x.att = r.att /\ x.owner = boot /\ x.targets = scope(j)
  BY Zenon
<1> HIDE DEF x
<1>9. LedgerOK(ledger', job', boot)
  <2>1. \A y \in ledger : /\ y.job \in Jobs /\ y.owner = boot /\ y.gen = job'[y.job].gen
                          /\ y.att = job'[y.job].auth /\ y.att # 0
                          /\ y.targets = ScopeOf(job'[y.job], y.job) /\ y.targets # {}
    BY <1>1, <1>5, <1>6, Zenon DEF LedgerOK
  <2>2. x.targets = ScopeOf(job'[j], j)
    BY <1>3, <1>5, <1>8 DEF scope, ScopeOf
  <2>3. OnePerJob(ledger')
    BY <1>1, <1>6, <1>7, <1>8, Zenon DEF OnePerJob, LedgerOK
  <2>4. QED
    BY <1>3, <1>5, <1>7, <1>8, <2>1, <2>2, <2>3, ZenonT(40) DEF LedgerOK
<1>10. AInv'
  BY <1>1, <1>4, <1>5, <1>9, AuthorityFacts, Zenon DEF AInv
<1>11. Calm
  BY <1>3, <1>5 DEF Calm, Steady
<1>12. QED
  BY <1>10, <1>11, CalmSafe, Zenon

LEMMA ArbitrateSafe ==
    ASSUME IInv, AInv, NEW t \in Tickers, arbitrate(t)
    PROVE  StepSafe
<1>1. PICK j \in Jobs :
         /\ job[j].state = "Prerequisites" /\ job[j].att # 0
         /\ \/ /\ acquire_authority(ledger, j, job[j].gen, scope(j), view.fresh, view.serving)
               /\ ledger' = reserve(ledger, j, job[j].gen, job[j].att, boot, scope(j))
               /\ job' = [job EXCEPT ![j].auth = job[j].att]
            \/ /\ job[j].auth = 0 /\ job' = [job EXCEPT ![j] = Moved(job[j], "Blocked", "soft")]
               /\ UNCHANGED ledger
            \/ UNCHANGED <<job, ledger>>
  BY Zenon DEF arbitrate, Candidates
<1>2. boot' = boot
  BY Zenon DEF arbitrate
<1>3. CASE /\ acquire_authority(ledger, j, job[j].gen, scope(j), view.fresh, view.serving)
           /\ ledger' = reserve(ledger, j, job[j].gen, job[j].att, boot, scope(j))
           /\ job' = [job EXCEPT ![j].auth = job[j].att]
  BY <1>1, <1>2, <1>3, GrantSafe, Zenon DEF acquire_authority
<1>4. CASE /\ job[j].auth = 0 /\ job' = [job EXCEPT ![j] = Moved(job[j], "Blocked", "soft")]
           /\ UNCHANGED ledger
  <2> DEFINE q == Moved(job[j], "Blocked", "soft")
  <2>1. /\ job[j] \in JobRecord /\ RecordOK(job[j], boot)
        /\ ~is_terminal(job[j].state) /\ ~job[j].removed /\ LedgerOK(ledger, job, boot)
    BY <1>1, AuthorityFacts, Zenon DEF RecordOK, Removing, is_terminal
  <2>2. RecordOK(q, boot) /\ (q.removed => job[j].removed) /\ q \in JobRecord
    <3>1. "Blocked" \in JobState \ Early
      BY LaterStates, Zenon
    <3>2. RecordOK(q, boot) /\ (q.removed => job[j].removed)
      BY <2>1, <3>1, MovedRecord, Zenon
    <3>3. q \in JobRecord
      BY <2>1, <3>1, MovedType, Zenon
    <3>4. QED
      BY <3>2, <3>3, Zenon
  <2>3. q.removed = job[j].removed
    BY <2>1, <2>2, Zenon DEF JobRecord
  <2>4. \A x \in ledger : x.job # j
    BY <1>4, <2>1, Zenon DEF LedgerOK
  <2>5. Derived(ledger', ledger)
    BY <1>4, AuthorityFacts, DerivedSubset, Zenon
  <2> HIDE DEF q
  <2>6. QED
    BY <1>2, <1>4, <2>1, <2>2, <2>3, <2>4, <2>5, OneCalm, Zenon DEF q
<1>5. CASE UNCHANGED <<job, ledger>>
  BY <1>2, <1>5, UntouchedSafe
<1>6. QED
  BY <1>1, <1>3, <1>4, <1>5, Zenon
-----------------------------------------------------------------------------
(* Answers of the drain service.                                           *)

\* n is r but for what no title depends on.
Resembles(n, r) ==
    /\ n \in JobRecord
    /\ n.state = r.state /\ n.removed = r.removed /\ n.gen = r.gen /\ n.att = r.att
    /\ n.next = r.next /\ n.auth = r.auth /\ n.pol = r.pol /\ n.ver = r.ver

LEMMA ResemblesOK ==
    ASSUME NEW r, NEW b, RecordOK(r, b), NEW n, Resembles(n, r),
           n.lease = r.lease \/ n.lease = 0 \/ ~is_terminal(r.state)
    PROVE  RecordOK(n, b) /\ SameTitle(r, n)
BY Zenon DEF RecordOK, Resembles, SameTitle

LEMMA TouchedResembles ==
    ASSUME NEW r \in JobRecord
    PROVE  Resembles(Touched(r), r) /\ Touched(r).lease = r.lease
BY DEF Resembles, Touched, JobRecord

LEMMA LeaseResembles ==
    ASSUME NEW r \in JobRecord, NEW l \in LeaseIds \cup {0}
    PROVE  LET n == [r EXCEPT !.lease = l]
           IN  /\ Resembles(n, r) /\ n.lease = l
               /\ Resembles(Touched(n), r) /\ Touched(n).lease = l
<1> DEFINE n == [r EXCEPT !.lease = l]
<1>1. Resembles(n, r) /\ n.lease = l
  BY DEF Resembles, JobRecord
<1> HIDE DEF n
<1>2. Resembles(Touched(n), n) /\ Touched(n).lease = n.lease
  BY <1>1, TouchedResembles, Zenon DEF Resembles
<1>3. QED
  BY <1>1, <1>2 DEF Resembles, n

LEMMA MoreResembles ==
    ASSUME NEW r \in JobRecord, NEW n, n = [r EXCEPT !.drainFails = @ + 1]
    PROVE  Resembles(n, r) /\ n.lease = r.lease
BY DEF Resembles, JobRecord

LEMMA ApplyReleaseSafe ==
    ASSUME IInv, AInv, boot' = boot, NEW a, NEW out, apply_release(a, out)
    PROVE  StepSafe
<1>1. /\ \A i \in Jobs : \/ job'[i] = job[i]
                         \/ job'[i] = Touched([job[i] EXCEPT !.lease = 0])
      /\ ledger' = ledger
  BY DEF apply_release
<1>2. Derived(ledger', ledger) /\ \A i \in Jobs : job[i] \in JobRecord /\ RecordOK(job[i], boot)
  BY <1>1, AuthorityFacts, DerivedSubset, Zenon
<1>3. \A i \in Jobs : Resembles(job'[i], job[i]) /\ job'[i].lease \in {0, job[i].lease}
  <2> SUFFICES ASSUME NEW i \in Jobs
               PROVE  Resembles(job'[i], job[i]) /\ job'[i].lease \in {0, job[i].lease}
    BY Zenon
  <2>1. CASE job'[i] = job[i]
    BY <1>2, <2>1, Zenon DEF Resembles
  <2>2. CASE job'[i] = Touched([job[i] EXCEPT !.lease = 0])
    BY <1>2, <2>2, LeaseResembles
  <2>3. QED
    BY <1>1, <2>1, <2>2, Zenon
<1>4. \A i \in Jobs : RecordOK(job'[i], boot) /\ SameTitle(job[i], job'[i])
  BY <1>2, <1>3, ResemblesOK, Zenon
<1>5. Calm
  BY <1>3, Zenon DEF Calm, Resembles, Steady
<1>6. QED
  BY <1>2, <1>4, <1>5, TitlesKept, Zenon

\* A late refusal blocks a job; unless it removed service its authority is given
\* back.
LEMMA RefusalSafe ==
    ASSUME IInv, AInv, boot' = boot, NEW j \in Jobs, ~is_terminal(job[j].state),
           NEW m, Resembles(m, job[j]), m.lease = job[j].lease,
           job' = [job EXCEPT ![j] = Touched(Moved(m, "Blocked", "soft"))],
           ledger' = IF Retires(m, "Blocked") THEN FreedLedger(ledger, j, m) ELSE ledger
    PROVE  StepSafe
<1> DEFINE q == Moved(m, "Blocked", "soft")
           n == Touched(q)
<1>1. /\ job[j] \in JobRecord /\ RecordOK(job[j], boot) /\ LedgerOK(ledger, job, boot)
      /\ m \in JobRecord /\ ~is_terminal(m.state) /\ OnePerJob(ledger)
  BY AuthorityFacts, Zenon DEF Resembles
<1>2. RecordOK(m, boot) /\ "Blocked" \in JobState \ Early
  BY <1>1, ResemblesOK, LaterStates, Zenon
<1>3. /\ RecordOK(q, boot) /\ q.gen = m.gen /\ q.pol = m.pol /\ q.att \in {0, m.att}
      /\ ~Retires(m, "Blocked") => q.auth = m.auth
      /\ q.removed => m.removed
      /\ q.state \in {m.state, "Blocked"}
  BY <1>1, <1>2, MovedRecord, SMTT(30)
<1>4. q \in JobRecord /\ (m.removed => q.removed)
  BY <1>1, <1>2, MovedType, Zenon
<1> HIDE DEF q
<1>5. Resembles(n, q) /\ n.lease = q.lease
  BY <1>4, TouchedResembles, Zenon
<1>6. /\ RecordOK(n, boot) /\ n.gen = m.gen /\ n.pol = m.pol /\ n.auth = q.auth
      /\ n.att \in {0, m.att}
  BY <1>3, <1>5, ResemblesOK, Zenon DEF Resembles
<1>7. n.removed = job[j].removed /\ ~is_terminal(n.state)
  BY <1>1, <1>3, <1>4, <1>5, ZenonT(40) DEF Resembles, JobRecord, is_terminal
<1>8. Derived(ledger', ledger) /\ ((\A x \in ledger' : x.job # j) \/ SameTitle(job[j], n))
  <2>1. CASE Retires(m, "Blocked")
    <3>1. ledger' \subseteq ledger /\ \A x \in ledger' : x.job # j
      BY <1>1, <2>1, FreedNone, SMT DEF Resembles
    <3>2. QED
      BY <1>1, <3>1, DerivedSubset, Zenon
  <2>2. CASE ~Retires(m, "Blocked")
    <3>1. SameTitle(job[j], n)
      BY <1>3, <1>6, <2>2, Zenon DEF SameTitle, Resembles
    <3>2. QED
      BY <1>1, <2>2, <3>1, DerivedSubset, Zenon
  <2>3. QED
    BY <2>1, <2>2, Zenon
<1>9. job' = [job EXCEPT ![j] = n]
  BY Zenon DEF q
<1> HIDE DEF n
<1>10. n.gen = job[j].gen /\ n.pol = job[j].pol /\ n.att \in {0, job[j].att}
  BY <1>6, Zenon DEF Resembles
<1>11. QED
  BY <1>6, <1>7, <1>8, <1>9, <1>10, OneCalm, Zenon

\* Any other answer changes the job in nothing its title depends on.
LEMMA ResemblesSafe ==
    ASSUME IInv, AInv, UNCHANGED <<ledger, boot>>, NEW j \in Jobs, NEW n,
           Resembles(n, job[j]), n.lease = job[j].lease \/ ~is_terminal(job[j].state),
           job' = [job EXCEPT ![j] = n]
    PROVE  StepSafe
<1>1. RecordOK(n, boot) /\ SameTitle(job[j], n)
  BY AuthorityFacts, ResemblesOK, Zenon
<1>2. /\ Derived(ledger', ledger) /\ n.removed = job[j].removed /\ n.state = job[j].state
      /\ n.gen = job[j].gen /\ n.pol = job[j].pol /\ n.att = job[j].att
  BY AuthorityFacts, DerivedSubset, Zenon DEF Resembles
<1>3. QED
  BY <1>1, <1>2, OneCalm, Zenon

LEMMA ApplyRequestSafe ==
    ASSUME IInv, AInv, boot' = boot, NEW a \in Action, a.kind = "Request",
           NEW out \in Outcomes, apply_request(a, out)
    PROVE  StepSafe
<1> DEFINE j == a.job
           r == job[j]
           more == [r EXCEPT !.drainFails = @ + 1]
<1>1. j \in Jobs /\ a.att # 0
  BY RequestJob, Zenon
<1>2. r \in JobRecord /\ (is_terminal(r.state) => r.att = 0)
  BY <1>1, Zenon DEF IInv, TypeOK, Ended, EndedRecord
<1>3. Resembles(more, r) /\ more.lease = r.lease /\ more \in JobRecord
  <2>1. \A n : n = [r EXCEPT !.drainFails = @ + 1] => Resembles(n, r) /\ n.lease = r.lease
    BY <1>2, MoreResembles
  <2> HIDE DEF more, r
  <2>2. Resembles(more, r) /\ more.lease = r.lease
    BY <2>1 DEF more
  <2>3. QED
    BY <2>2, Zenon DEF Resembles
<1>4. \/ UNCHANGED <<job, ledger>>
      \/ /\ r.att = a.att
         /\ job' = [job EXCEPT ![j] = Touched(Moved(more, "Blocked", "soft"))]
         /\ ledger' = IF Retires(more, "Blocked") THEN FreedLedger(ledger, j, more) ELSE ledger
      \/ r.att = a.att /\ job' = [job EXCEPT ![j] = Touched(more)] /\ UNCHANGED ledger
      \/ /\ r.att = a.att /\ out.status = "ok"
         /\ job' = [job EXCEPT ![j] = Touched([r EXCEPT !.lease = out.lease])]
         /\ UNCHANGED ledger
  BY Zenon DEF apply_request
<1>5. r.att = a.att => ~is_terminal(r.state)
  BY <1>1, <1>2, Zenon
<1> HIDE DEF more
<1>6. CASE UNCHANGED <<job, ledger>>
  BY <1>6, UntouchedSafe
<1>7. CASE /\ r.att = a.att
           /\ job' = [job EXCEPT ![j] = Touched(Moved(more, "Blocked", "soft"))]
           /\ ledger' = IF Retires(more, "Blocked") THEN FreedLedger(ledger, j, more) ELSE ledger
  BY <1>1, <1>3, <1>5, <1>7, RefusalSafe, Zenon
<1>8. CASE r.att = a.att /\ job' = [job EXCEPT ![j] = Touched(more)] /\ UNCHANGED ledger
  <2>1. Resembles(Touched(more), r) /\ Touched(more).lease = r.lease
    BY <1>3, TouchedResembles, Zenon DEF Resembles
  <2>2. QED
    BY <1>1, <1>8, <2>1, ResemblesSafe, Zenon
<1>9. CASE /\ r.att = a.att /\ out.status = "ok"
           /\ job' = [job EXCEPT ![j] = Touched([r EXCEPT !.lease = out.lease])]
           /\ UNCHANGED ledger
  <2>1. out.lease \in LeaseIds
    BY <1>9 DEF Outcomes, NoOutcome, Failure
  <2>2. Resembles(Touched([r EXCEPT !.lease = out.lease]), r)
    BY <1>2, <2>1, LeaseResembles, Zenon
  <2>3. QED
    BY <1>1, <1>5, <1>9, <2>2, ResemblesSafe, Zenon
<1>10. QED
  BY <1>4, <1>6, <1>7, <1>8, <1>9, Zenon

LEMMA ApplyOutcomesSafe ==
    ASSUME IInv, AInv, NEW t \in Tickers, apply_outcomes(t)
    PROVE  StepSafe
<1>1. tick[t].act \in Action /\ tick[t].out \in Outcomes
  BY Zenon DEF IInv, TypeOK, TickRecord
<1>2. QED
  BY <1>1, ApplyReleaseSafe, ApplyRequestSafe DEF apply_outcomes
-----------------------------------------------------------------------------
(* Calls of operators and executors, time, restarts.                       *)

LEMMA ProposeSafe ==
    ASSUME IInv, AInv, NEW j \in Jobs, propose(j) \/ approve(j)
    PROVE  StepSafe
<1> DEFINE r == job[j]
<1>1. /\ r \in JobRecord /\ RecordOK(r, boot) /\ LedgerOK(ledger, job, boot)
      /\ job \in [Jobs -> JobRecord]
  BY AuthorityFacts, Zenon
<1>2. r.state \in {"None", "Proposed"} /\ UNCHANGED <<ledger, boot>>
  BY DEF propose, approve
<1>3. PICK n : /\ job' = [job EXCEPT ![j] = n]
               /\ \/ n = [r EXCEPT !.state = "Proposed", !.gen = 1]
                  \/ n = [r EXCEPT !.state = "Validated"]
  BY <1>1, Zenon DEF propose, approve
<1>4. /\ n.state \in {"Proposed", "Validated"} /\ n.removed = r.removed /\ n.auth = r.auth
      /\ n.att = r.att /\ n.next = r.next /\ n.pol = r.pol
  BY <1>1, <1>3, Zenon DEF JobRecord
<1>5. r.auth = 0 /\ ~r.removed
  BY <1>1, <1>2, Zenon DEF RecordOK, Early, Removing
<1>6. RecordOK(n, boot)
  BY <1>1, <1>4, <1>5, Zenon DEF RecordOK, Early, Removing, is_terminal
<1>7. \A x \in ledger' : x.job # j
  BY <1>1, <1>2, <1>5, Zenon DEF LedgerOK
<1>8. Derived(ledger', ledger)
  BY <1>2, AuthorityFacts, DerivedSubset, Zenon
<1>9. QED
  BY <1>2, <1>3, <1>4, <1>5, <1>6, <1>7, <1>8, OneCalm, Zenon

\* The ledger after a job has given back what it held.
LEMMA GivenBack ==
    ASSUME IInv, AInv, NEW j \in Jobs, ledger' = FreedLedger(ledger, j, job[j])
    PROVE  Derived(ledger', ledger) /\ \A x \in ledger' : x.job # j
BY AuthorityFacts, FreedNone, DerivedSubset, Zenon

\* The reservation is released even when the lifecycle then refuses.
LEMMA RearmSafe ==
    ASSUME IInv, AInv, NEW j \in Jobs, rearm(j)
    PROVE  StepSafe
<1> DEFINE r == job[j]
<1>1. /\ ledger' = FreedLedger(ledger, j, r) /\ boot' = boot /\ ~r.removed
      /\ \/ \E to \in {"Validated", "Prerequisites"} : job' = [job EXCEPT ![j] = Rearmed(r, to)]
         \/ UNCHANGED job
  BY Zenon DEF rearm
<1>2. Derived(ledger', ledger) /\ \A x \in ledger' : x.job # j
  BY <1>1, GivenBack, Zenon
<1>3. r \in JobRecord /\ RecordOK(r, boot)
  BY AuthorityFacts, Zenon
<1>4. ASSUME NEW to \in {"Validated", "Prerequisites"}
      PROVE  RecordOK(Rearmed(r, to), boot) /\ Rearmed(r, to).removed = FALSE
  <2> DEFINE n == Rearmed(r, to)
  <2>1. /\ n.state = to /\ n.removed = FALSE /\ n.auth = 0 /\ n.next = r.next
    BY DEF Rearmed, NoJob
  <2> HIDE DEF n
  <2>2. RecordOK(n, boot)
    BY <1>3, <2>1, Zenon DEF RecordOK, Early, Removing, is_terminal
  <2>3. QED
    BY <2>1, <2>2, Zenon DEF n
<1>5. CASE UNCHANGED job
  BY <1>1, <1>2, <1>5, QuietSafe, Zenon
<1>6. CASE \E to \in {"Validated", "Prerequisites"} : job' = [job EXCEPT ![j] = Rearmed(r, to)]
  <2>1. PICK n : /\ job' = [job EXCEPT ![j] = n] /\ RecordOK(n, boot) /\ n.removed = FALSE
    BY <1>4, <1>6, Zenon
  <2>2. r.removed = FALSE
    BY <1>1, <1>3, Zenon DEF JobRecord
  <2>3. QED
    BY <1>1, <1>2, <2>1, <2>2, OneCalm, Zenon
<1>7. QED
  BY <1>1, <1>5, <1>6, Zenon

LEMMA CancelSafe ==
    ASSUME IInv, AInv, NEW j \in Jobs, cancel(j)
    PROVE  StepSafe
<1> DEFINE r == job[j]
           q == Moved(r, "Cancelled", "none")
<1>1. /\ job' = [job EXCEPT ![j] = q] /\ ledger' = FreedLedger(ledger, j, r)
      /\ boot' = boot /\ ~r.removed /\ ~is_terminal(r.state)
  BY Zenon DEF cancel
<1>2. r \in JobRecord /\ RecordOK(r, boot) /\ "Cancelled" \in JobState \ Early
  BY AuthorityFacts, LaterStates, Zenon
<1>3. RecordOK(q, boot) /\ (q.removed => r.removed)
  BY <1>1, <1>2, MovedRecord, Zenon
<1>4. q \in JobRecord
  BY <1>1, <1>2, MovedType, Zenon
<1>5. q.removed = r.removed
  BY <1>1, <1>2, <1>3, <1>4, Zenon DEF JobRecord
<1>6. Derived(ledger', ledger) /\ \A x \in ledger' : x.job # j
  BY <1>1, GivenBack, Zenon
<1> HIDE DEF q
<1>7. QED
  BY <1>1, <1>3, <1>5, <1>6, OneCalm, Zenon

LEMMA ReportRestorationSafe ==
    ASSUME IInv, AInv, NEW j \in Jobs, NEW x \in Targets, NEW ok \in BOOLEAN,
           report_restoration(j, x, ok)
    PROVE  StepSafe
<1>1. /\ UNCHANGED <<ledger, boot>>
      /\ job' = job \/ job' = [job EXCEPT ![j] = Touched(job[j])]
  BY Zenon DEF report_restoration
<1>2. Resembles(Touched(job[j]), job[j]) /\ Touched(job[j]).lease = job[j].lease
  BY AuthorityFacts, TouchedResembles, Zenon
<1>3. QED
  BY <1>1, <1>2, UntouchedSafe, ResemblesSafe, Zenon

LEMMA AdvanceSafe ==
    ASSUME IInv, AInv, Advance
    PROVE  StepSafe
<1>1. /\ job' = [j \in Jobs |-> [job[j] EXCEPT !.dwell = 0]] /\ ledger' = Elapse(ledger)
      /\ boot' = boot
  BY DEF Advance
<1>2. Derived(ledger', ledger)
  BY <1>1, AuthorityFacts, DerivedElapse, Zenon
<1>3. \A i \in Jobs : Resembles(job'[i], job[i]) /\ job'[i].lease = job[i].lease
  <2> SUFFICES ASSUME NEW i \in Jobs
               PROVE  Resembles(job'[i], job[i]) /\ job'[i].lease = job[i].lease
    BY Zenon
  <2>1. job'[i] = [job[i] EXCEPT !.dwell = 0] /\ job[i] \in JobRecord
    BY <1>1, AuthorityFacts
  <2>2. QED
    BY <2>1 DEF Resembles, JobRecord
<1>4. \A i \in Jobs : RecordOK(job'[i], boot) /\ SameTitle(job[i], job'[i])
  BY <1>3, AuthorityFacts, ResemblesOK, Zenon
<1>5. Calm
  BY <1>3, Zenon DEF Calm, Resembles, Steady
<1>6. QED
  BY <1>1, <1>2, <1>4, <1>5, TitlesKept, Zenon

\* reconcile_locked: nothing of the old incarnation is left, and the jobs that
\* removed service have a new attempt that the new authority names.
LEMMA ReconciledRecord ==
    ASSUME NEW r \in JobRecord, NEW b \in Nat, RecordOK(r, b)
    PROVE  LET q == Reconciled(r)
           IN  /\ RecordOK(q, b + 1) /\ q.removed = r.removed
               /\ q.lease \in {0, r.lease}
               /\ q.state = r.state \/ ~is_terminal(q.state)
               /\ r.removed => q.gen = r.gen /\ q.pol = r.pol
               /\ r.removed /\ ~is_terminal(r.state) => q.auth = q.att /\ q.att # 0
<1> DEFINE f == [r EXCEPT !.att = 0, !.auth = 0, !.state = "Blocked",
                          !.block = "soft", !.dwell = 1]
           n == NewAttempt(f)
           q == Reconciled(r)
<1>1. \/ /\ q = r
         /\ is_terminal(r.state) \/ r.state \in {"None", "Proposed", "Validated"}
      \/ /\ ~is_terminal(r.state) /\ r.removed
         /\ q = [n EXCEPT !.auth = n.att]
      \/ /\ ~is_terminal(r.state) /\ ~r.removed
         /\ q = [f EXCEPT !.lease = 0]
  BY DEF Reconciled
<1>2. /\ f \in JobRecord
      /\ f.state = "Blocked" /\ f.removed = r.removed /\ f.gen = r.gen /\ f.pol = r.pol
      /\ f.next = r.next /\ f.auth = 0 /\ f.ver = r.ver /\ f.lease = r.lease
  <2>1. \A g : g = f => g \in JobRecord
    BY FencedType, Zenon
  <2>2. /\ f.state = "Blocked" /\ f.removed = r.removed /\ f.gen = r.gen /\ f.pol = r.pol
        /\ f.next = r.next /\ f.auth = 0 /\ f.ver = r.ver /\ f.lease = r.lease
    BY DEF JobRecord
  <2> HIDE DEF f
  <2>3. QED
    BY <2>1, <2>2, Zenon
<1> HIDE DEF f, q
<1>3. /\ n \in JobRecord /\ n.state = f.state /\ n.removed = f.removed /\ n.att = f.next
      /\ n.gen = f.gen /\ n.pol = f.pol /\ n.next = f.next + 1 /\ n.lease = f.lease
  <2>1. n \in JobRecord /\ n.state = f.state /\ n.removed = f.removed /\ n.att = f.next
    BY <1>2, NewAttemptType, Zenon
  <2>2. f \in JobRecord
    BY <1>2
  <2>3. n.gen = f.gen /\ n.pol = f.pol /\ n.next = f.next + 1 /\ n.lease = f.lease
    BY <2>2 DEF NewAttempt, JobRecord
  <2>4. QED
    BY <2>1, <2>3, Zenon
<1> HIDE DEF n
<1>4. CASE /\ q = r
           /\ is_terminal(r.state) \/ r.state \in {"None", "Proposed", "Validated"}
  <2>1. RecordOK(q, b + 1)
    BY <1>4, Zenon DEF RecordOK, is_terminal
  <2>2. ~(r.removed /\ ~is_terminal(r.state))
    BY <1>4, Zenon DEF RecordOK, Removing, is_terminal
  <2>3. QED
    BY <1>4, <2>1, <2>2, Zenon DEF q
<1>5. CASE ~is_terminal(r.state) /\ r.removed /\ q = [n EXCEPT !.auth = n.att]
  <2>1. /\ q.state = "Blocked" /\ q.removed = r.removed /\ q.gen = r.gen /\ q.pol = r.pol
        /\ q.next = r.next + 1 /\ q.att = r.next /\ q.auth = r.next /\ q.lease = r.lease
    <3>1. n \in JobRecord
      BY <1>3, Zenon
    <3>2. /\ q.state = n.state /\ q.removed = n.removed /\ q.gen = n.gen /\ q.pol = n.pol
          /\ q.next = n.next /\ q.att = n.att /\ q.auth = n.att /\ q.lease = n.lease
      BY <1>5, <3>1 DEF JobRecord
    <3>3. QED
      BY <1>2, <1>3, <3>2, Zenon
  <2>2. r.next # 0 /\ r.next + 1 # 0 /\ r.pol # 0
    BY <1>5 DEF RecordOK, JobRecord
  <2>3. RecordOK(q, b + 1)
    BY <1>5, <2>1, <2>2 DEF RecordOK, Early, Removing, is_terminal
  <2>4. QED
    BY <2>1, <2>2, <2>3, Zenon DEF q, is_terminal
<1>6. CASE ~is_terminal(r.state) /\ ~r.removed /\ q = [f EXCEPT !.lease = 0]
  <2>1. /\ q.state = "Blocked" /\ q.removed = r.removed /\ q.next = r.next /\ q.auth = 0
        /\ q.lease = 0
    BY <1>2, <1>6, Zenon DEF JobRecord
  <2>2. RecordOK(q, b + 1)
    BY <1>6, <2>1, Zenon DEF RecordOK, Early, Removing, is_terminal
  <2>3. QED
    BY <1>6, <2>1, <2>2, Zenon DEF q, is_terminal
<1>7. QED
  BY <1>1, <1>4, <1>5, <1>6, Zenon

LEMMA RestartSafe ==
    ASSUME IInv, AInv, Restart
    PROVE  StepSafe
<1> DEFINE next == [j \in Jobs |-> Reconciled(job[j])]
<1>1. /\ boot' = boot + 1 /\ job' = next
      /\ ledger' = fence_older_incarnations(ledger, boot + 1) \cup Reissued(next)
  BY Zenon DEF Restart
<1>2. /\ \A j \in Jobs : job[j] \in JobRecord /\ RecordOK(job[j], boot)
      /\ boot \in Nat /\ LedgerOK(ledger, job, boot)
  BY AuthorityFacts, Zenon
<1>3. \A j \in Jobs : LET r == job[j]
                          q == next[j]
                      IN  /\ RecordOK(q, boot + 1) /\ q.removed = r.removed
                          /\ q.state = r.state \/ ~is_terminal(q.state)
                          /\ r.removed => q.gen = r.gen /\ q.pol = r.pol
                          /\ r.removed /\ ~is_terminal(r.state) => q.auth = q.att /\ q.att # 0
  BY <1>2, ReconciledRecord, Zenon
<1> HIDE DEF next
<1>4. fence_older_incarnations(ledger, boot + 1) = {}
  BY <1>2, SMTT(30) DEF fence_older_incarnations, LedgerOK
<1>5. \A x \in ledger' : \E j \in Jobs :
         /\ job[j].removed /\ ~is_terminal(job[j].state)
         /\ x = [job |-> j, gen |-> next[j].gen, att |-> next[j].att, owner |-> boot + 1,
                 targets |-> scope(j), ttl |-> Lease]
  BY <1>1, <1>4, Zenon DEF Reissued, reserve
<1>6. LedgerOK(ledger', job', boot')
  <2>1. OnePerJob(ledger')
    <3>1. SUFFICES ASSUME NEW x \in ledger', NEW y \in ledger', x.job = y.job
                   PROVE  x = y
      BY DEF OnePerJob
    <3>2. PICK i \in Jobs : x = [job |-> i, gen |-> next[i].gen, att |-> next[i].att,
                                owner |-> boot + 1, targets |-> scope(i), ttl |-> Lease]
      BY <1>5, Zenon
    <3>3. PICK j \in Jobs : y = [job |-> j, gen |-> next[j].gen, att |-> next[j].att,
                                owner |-> boot + 1, targets |-> scope(j), ttl |-> Lease]
      BY <1>5, Zenon
    <3>4. i = j
      BY <3>1, <3>2, <3>3, Zenon
    <3>5. QED
      BY <3>2, <3>3, <3>4, Zenon
  <2>2. SUFFICES ASSUME NEW x \in ledger'
                 PROVE  /\ x.job \in Jobs /\ x.owner = boot' /\ x.gen = job'[x.job].gen
                        /\ x.att = job'[x.job].auth /\ x.att # 0
                        /\ x.targets = ScopeOf(job'[x.job], x.job) /\ x.targets # {}
    BY <2>1, Zenon DEF LedgerOK
  <2>3. PICK j \in Jobs :
           /\ job[j].removed /\ ~is_terminal(job[j].state)
           /\ x = [job |-> j, gen |-> next[j].gen, att |-> next[j].att, owner |-> boot + 1,
                   targets |-> scope(j), ttl |-> Lease]
    BY <1>5, Zenon
  <2>4. /\ x.job = j /\ x.owner = boot + 1 /\ x.gen = next[j].gen /\ x.att = next[j].att
        /\ x.targets = scope(j)
    BY <2>3, Zenon
  <2>5. next[j].auth = next[j].att /\ next[j].att # 0 /\ next[j].pol = job[j].pol
    BY <1>3, <2>3, Zenon
  <2>6. job[j].pol # 0 /\ Removal[j] # {}
    BY <1>2, <2>3, ControllerAssumption, Zenon DEF RecordOK
  <2>7. QED
    BY <1>1, <2>4, <2>5, <2>6, Zenon DEF scope, ScopeOf
<1>7. AInv'
  BY <1>1, <1>3, <1>6, Zenon DEF AInv
<1>8. Calm
  <2>1. SUFFICES ASSUME NEW j \in Jobs
                 PROVE  /\ job'[j].removed = job[j].removed /\ Steady(j)
                        /\ job[j].removed => \/ job'[j].state = job[j].state
                                             \/ ~is_terminal(job'[j].state)
    BY Zenon DEF Calm
  <2>2. boot' # boot
    BY <1>1, <1>2
  <2>3. /\ job'[j].removed = job[j].removed
        /\ job'[j].state = job[j].state \/ ~is_terminal(job'[j].state)
        /\ job[j].removed => job'[j].gen = job[j].gen /\ job'[j].pol = job[j].pol
    BY <1>1, <1>3, Zenon
  <2>4. QED
    BY <2>2, <2>3, Zenon DEF Steady
<1>9. QED
  BY <1>7, <1>8, CalmSafe, Zenon
-----------------------------------------------------------------------------
(* The theorems.                                                           *)

LEMMA InitSafe ==
    ASSUME Init
    PROVE  AInv
<1>1. \A j \in Jobs : RecordOK(job[j], boot)
  BY SMTT(30) DEF Init, NoJob, RecordOK, Early, Removing, is_terminal
<1>2. LedgerOK(ledger, job, boot)
  BY Zenon DEF Init, LedgerOK, OnePerJob
<1>3. QED
  BY <1>1, <1>2, Zenon DEF AInv

LEMMA NextSafe ==
    ASSUME IInv, AInv, [Next]_vars
    PROVE  StepSafe
<1>1. ASSUME NEW t \in Tickers, Pass(t) \/ Call(t) \/ EndTick(t) PROVE StepSafe
  <2>1. CASE StartPass(t) \/ drive(t) \/ arbitrate(t) \/ apply_outcomes(t)
    BY <2>1, StartPassSafe, DriveSafe, ArbitrateSafe, ApplyOutcomesSafe, Zenon
  <2>2. CASE sweep(t) \/ perform_action(t) \/ EndTick(t)
    BY <2>2, UntouchedSafe, Zenon DEF sweep, perform_action, EndTick, store
  <2>3. QED
    BY <1>1, <2>1, <2>2, Zenon DEF Pass, Call
<1>2. ASSUME NEW j \in Jobs, propose(j) \/ approve(j) \/ rearm(j) \/ cancel(j) PROVE StepSafe
  BY <1>2, ProposeSafe, RearmSafe, CancelSafe, Zenon
<1>3. ASSUME NEW j \in Jobs, NEW ok \in BOOLEAN, report_completion(j, ok) PROVE StepSafe
  BY <1>3, UntouchedSafe, Zenon DEF report_completion
<1>4. ASSUME NEW j \in Jobs, NEW x \in Targets, NEW ok \in BOOLEAN, report_restoration(j, x, ok)
      PROVE  StepSafe
  BY <1>4, ReportRestorationSafe
<1>5. CASE (\E x \in Targets : clear_quarantine(x)) \/ set_policy \/ shutdown \/ UNCHANGED vars
  BY <1>5, UntouchedSafe, Zenon DEF clear_quarantine, set_policy, shutdown, vars, store
<1>6. CASE Advance \/ Restart
  BY <1>6, AdvanceSafe, RestartSafe
<1>7. QED
  BY <1>1, <1>2, <1>3, <1>4, <1>5, <1>6, Zenon DEF Next

\* What a job names as its authority, and what the ledger holds for it, is that of
\* its active attempt: a late answer, a denied grant, a re-armed job or a restart
\* leaves no authority of an earlier attempt, generation or incarnation behind.
THEOREM AuthorityCurrent == Spec => []AuthorityIsCurrent
<1>1. IInv /\ AInv /\ [Next]_vars => IInv' /\ AInv'
  BY NextOK, NextSafe, Zenon DEF StepOK, StepSafe
<1>2. AInv => AuthorityIsCurrent
  BY SMTT(60) DEF AInv, RecordOK, LedgerOK, AuthorityIsCurrent
<1>3. QED
  BY InitOK, InitSafe, <1>1, <1>2, PTL DEF Spec

\* The ledger speaks for the running incarnation and the present generation of each
\* job only, once per job, and for the whole of the job's removal set.
OwnedByPresent ==
    /\ \A r \in ledger : /\ r.owner = boot /\ r.gen = job[r.job].gen
                         /\ r.targets = scope(r.job) /\ r.targets # {}
    /\ \A r, q \in ledger : r.job = q.job => r = q

\* Grants, renewals, releases, re-arming and the fencing of Controller::open keep the
\* ledger that way, in every incarnation.
THEOREM LedgerOwned == Spec => []OwnedByPresent
<1>1. IInv /\ AInv /\ [Next]_vars => IInv' /\ AInv'
  BY NextOK, NextSafe, Zenon DEF StepOK, StepSafe
<1>2. AInv => OwnedByPresent
  BY Zenon DEF AInv, LedgerOK, OnePerJob, OwnedByPresent, ScopeOf, scope
<1>3. QED
  BY InitOK, InitSafe, <1>1, <1>2, PTL DEF Spec

\* A job that removed service ends verified by this incarnation and restored with
\* no quarantine on its targets, or failed with all of them quarantined, if the
\* journal takes every quarantine (quarantine_targets_locked ignores that one fails).
THEOREM EndsRestored ==
    ASSUME "append" \notin Faults
    PROVE  Spec => EndsRestoredOrQuarantined
<1> DEFINE Ending == \A j \in Out :
               is_terminal(job'[j].state) =>
                  \/ /\ job[j].ver = boot /\ job[j].lease = 0
                     /\ scope(j) \cap quarantined = {}
                     /\ scope(j) \subseteq view.serving
                  \/ job'[j].state = "Failed" /\ scope(j) \subseteq quarantined'
<1>1. IInv /\ AInv /\ [Next]_vars => IInv' /\ AInv'
  BY NextOK, NextSafe, Zenon DEF StepOK, StepSafe
<1>2. IInv /\ AInv /\ [Next]_vars => [Ending]_vars
  BY NextSafe, Zenon DEF StepSafe, EndsWell, Quarantines, Out
<1>3. QED
  BY InitOK, InitSafe, <1>1, <1>2, PTL DEF Spec, EndsRestoredOrQuarantined

\* The grounds on which drive_ready removes service, as they stand when it does:
\* the removal set is known, a live reservation of this incarnation and of the
\* active attempt covers all of it, every dependency is complete, and with what is
\* reserved, or out in a stage that removes service, policy is satisfied.
Grounds(j) ==
    /\ scope(j) # {} /\ scope(j) \subseteq view.fresh
    /\ \E r \in ledger : /\ r.job = j /\ r.att = job[j].att /\ live(r)
                         /\ r.owner = boot /\ r.targets = scope(j)
    /\ \A d \in DependsOn[j] : job[d].state = "Complete"
    /\ satisfied(baseline(j), scope(j), view.serving)
    /\ \A r \in expire(ledger) : r.job # j => r.targets \cap scope(j) = {}

LEMMA ClearedGrounds ==
    ASSUME AInv, NEW j \in Jobs, Cleared(j)
    PROVE  Grounds(j)
<1>1. PICK r \in ledger : r.job = j /\ r.gen = job[j].gen /\ live(r)
  BY Zenon DEF Cleared, Pending, Unauthorised, expire, find_for_job
<1>2. r.att = job[j].att
  BY <1>1, Zenon DEF Cleared, Violated, Misattributed, expire, find_for_job
<1>3. r.owner = boot /\ r.targets = scope(j) /\ r.targets # {}
  BY <1>1, Zenon DEF AInv, LedgerOK, ScopeOf, scope
<1>4. scope(j) \subseteq view.fresh
  BY Zenon DEF Cleared, Violated, EvidenceStale
<1>5. \A d \in DependsOn[j] : job[d].state = "Complete"
  BY Zenon DEF Cleared, Pending, DependencyUnmet
<1>6. satisfied(baseline(j), scope(j), view.serving)
  BY Zenon DEF Cleared, Violated, Intolerable
<1>7. \A q \in expire(ledger) : q.job # j => q.targets \cap scope(j) = {}
  BY Zenon DEF Cleared, Violated, Conflicting
<1>8. QED
  BY <1>1, <1>2, <1>3, <1>4, <1>5, <1>6, <1>7, Zenon DEF Grounds

\* Service is removed on these grounds only, whatever tickers, late answers and
\* restarts interleave: those of StartIsJustified but for the drained lease, and
\* with a blocked job that removed service not counted as out.
StartIsGrounded == [][\A j \in Jobs : ~job[j].removed /\ job'[j].removed => Grounds(j)]_vars

\* Every entry into InMaintenance (drive_ready) is on these grounds.
THEOREM StartGrounded == Spec => StartIsGrounded
<1> DEFINE Starting == \A j \in Jobs : ~job[j].removed /\ job'[j].removed => Grounds(j)
<1>1. IInv /\ AInv /\ [Next]_vars => IInv' /\ AInv'
  BY NextOK, NextSafe, Zenon DEF StepOK, StepSafe
<1>2. IInv /\ AInv /\ [Next]_vars => [Starting]_vars
  BY NextSafe, ClearedGrounds, Zenon DEF StepSafe, Starts
<1>3. QED
  BY InitOK, InitSafe, <1>1, <1>2, PTL DEF Spec, StartIsGrounded
=============================================================================
