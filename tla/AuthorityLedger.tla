--------------------------- MODULE AuthorityLedger ---------------------------
(***************************************************************************)
(* The ledger of maintenance authority (src/domain/authority.cpp) as       *)
(* operators on a set of reservations, and the acquisition rule            *)
(* (src/engine/authority.cpp) that decides what may enter it.              *)
(*                                                                         *)
(* A reservation names the job, generation and attempt it was granted to,  *)
(* the incarnation that owns it, the targets it covers, and ttl, the time  *)
(* that is left before expires_at; it is live while ttl is positive.       *)
(***************************************************************************)
EXTENDS Impact

CONSTANTS
    Lease,   \* policy.authority_lease, in units of the soft-block dwell
    Margin   \* renewal_margin: max(authority_lease / 4, one dwell)

ASSUME LedgerAssumption == Lease \in Nat \ {0} /\ Margin \in Nat \ {0}

Reservation == [job : Nat, gen : Nat, att : Nat, owner : Nat,
                targets : SUBSET Targets, ttl : Nat]

live(r) == r.ttl > 0
expire(L) == {r \in L : live(r)}
reserved_targets(L) == UNION {r.targets : r \in expire(L)}
find_for_job(L, j, g) == {r \in L : r.job = j /\ r.gen = g}

\* A job holds at most one reservation per generation, live or not.
reserve(L, j, g, a, o, ts) ==
    L \cup {[job |-> j, gen |-> g, att |-> a, owner |-> o,
             targets |-> ts, ttl |-> Lease]}

\* Only the incarnation that owns a reservation may release it.
release(L, j, a, o) == {r \in L : ~(r.job = j /\ r.att = a /\ r.owner = o)}

\* Renewal by the owner, for the attempt it was granted to, when no more than
\* the margin is left; the extension counts from the present if the lease had
\* already run out.
renew(L, j, a, o) ==
    {IF r.job = j /\ r.att = a /\ r.owner = o /\ r.ttl <= Margin
     THEN [r EXCEPT !.ttl = @ + Margin] ELSE r : r \in L}

fence_nothing(L, current) == L
fence_older_incarnations(L, current) == {r \in L : r.owner >= current}

\* One unit of time passes.
Elapse(L) == {[r EXCEPT !.ttl = IF @ = 0 THEN 0 ELSE @ - 1] : r \in L}

\* Two jobs never hold the same target; the union of what is reserved and what
\* is asked for has to satisfy policy; every target has fresh health evidence.
acquire_alone(L, j, g, ts, fresh, serving) ==
    /\ ts # {} /\ ts \subseteq fresh
    /\ \A r \in expire(L) : (r.job = j /\ r.gen = g) \/ r.targets \cap ts = {}
    /\ satisfied({}, ts, serving)
    /\ find_for_job(L, j, g) = {}
acquire_authority(L, j, g, ts, fresh, serving) ==
    /\ ts # {}
    /\ ts \subseteq fresh
    /\ \A r \in expire(L) : (r.job = j /\ r.gen = g) \/ r.targets \cap ts = {}
    /\ satisfied(reserved_targets(L), ts, serving)
    /\ find_for_job(L, j, g) = {}
==============================================================================
