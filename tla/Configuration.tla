---------------------------- MODULE Configuration ----------------------------
(***************************************************************************)
(* How a configuration file becomes what the controller runs on: it is     *)
(* loaded and validated, committed to the journal (Controller::set_topology*)
(* and set_policy, Store::append_and_apply), read back at the next start   *)
(* (Store::open, Store::apply), and written out again (render_topology,    *)
(* render_policy).                                                         *)
(*                                                                         *)
(* The topology and the policy take the same path and do not meet on it:   *)
(* a behaviour follows one of them.                                        *)
(***************************************************************************)
EXTENDS Topology, Policy

CONSTANTS
    TopologyLines,  \* lines a topology file is made of
    PolicyLines,    \* lines a policy file is made of
    Drafts,         \* topology files the operator starts from
    MaxLines,       \* bound: lines written in a behaviour
    MaxLoads,       \* bound: loads in a behaviour
    MaxTime         \* bound: times at which a policy's windows are asked

ASSUME ConfigurationAssumption == {MaxLines, MaxLoads, MaxTime} \subseteq Nat

VARIABLES
    what,     \* "topology" or "policy": the file this behaviour is about
    file,     \* the lines of the file
    written,  \* how many lines have been written so far
    current,  \* state_.topology or state_.policy
    journal,  \* records of it that a replay of the journal reads
    gap,      \* TRUE: what is appended now is behind a gap, where it is not read
    loads,    \* how often the file was loaded; the clock of relative times
    answer,   \* what the last load returned: "none", "ok", "refused", "internal",
              \* "failed"
    adrift    \* history: the newest record of use is of a commit that failed

vars == <<what, file, written, current, journal, gap, loads, answer, adrift>>

Lines == IF what = "topology" THEN TopologyLines ELSE PolicyLines
Begun == IF what = "topology" THEN Drafts ELSE {<<>>}
Empty == IF what = "topology" THEN EmptyTopology ELSE DefaultPolicy
Load(text, now) == IF what = "topology" THEN load_topology_text(text) ELSE load_policy_text(text, now)
Render(v) == IF what = "topology" THEN render_topology(v) ELSE render_policy(v)
Encode(v) == IF what = "topology" THEN encode_topology_record(v) ELSE encode_policy_record(v)
Decode(r) == IF what = "topology" THEN decode_topology_record(r) ELSE decode_policy_record(r)

Init ==
    /\ what \in {"topology", "policy"}
    /\ file \in Begun
    /\ written = 0 /\ current = Empty /\ journal = <<>> /\ gap = FALSE
    /\ loads = 0 /\ answer = "none" /\ adrift = FALSE

\* The operator writes the file.
WriteLine ==
    /\ written < MaxLines /\ loads < MaxLoads
    /\ \E l \in Lines : file' = Append(file, l)
    /\ written' = written + 1
    /\ UNCHANGED <<what, current, journal, gap, loads, answer, adrift>>

\* Store::apply for a topology or policy record: strict, so a record that
\* cannot be decoded leaves the state as it was.
apply(v, r) == IF Decode(r).ok THEN Decode(r).value ELSE v

\* The record that is appended is read by the next start, unless there is a gap
\* before it.
Appended(v) == IF gap THEN journal ELSE Append(journal, Encode(v))

\* set_topology, set_policy: validate, append and flush, then apply what was
\* appended.
commit_as_given(v) ==
    /\ journal' = Appended(v)
    /\ current' = v
    /\ answer' = "ok" /\ adrift' = FALSE
    /\ UNCHANGED gap
commit(v) ==
    /\ journal' = Appended(v)
    /\ current' = apply(current, Encode(v))
    /\ answer' = IF Decode(Encode(v)).ok THEN "ok" ELSE "internal"
    /\ adrift' = (adrift /\ ~Decode(Encode(v)).ok)
    /\ UNCHANGED gap

\* A failing append or flush: nothing is applied.  The record may not be in the
\* file, or not whole, and then nothing behind it is read; or it is there, and only
\* its fsync has failed.
commit_fails(v) ==
    /\ \/ gap' = TRUE /\ UNCHANGED <<journal, adrift>>
       \/ /\ journal' = Appended(v)
          /\ adrift' = (adrift \/ Decode(Encode(v)).ok)
          /\ UNCHANGED gap
    /\ answer' = "failed"
    /\ UNCHANGED current

\* The file is loaded, at a start of mfd or by a load request, and another is
\* begun.
LoadFile ==
    /\ loads < MaxLoads
    /\ LET r == Load(file, loads)
       IN  \/ r.ok /\ (commit(r.value) \/ commit_fails(r.value))
           \/ ~r.ok /\ answer' = "refused" /\ UNCHANGED <<current, journal, gap, adrift>>
    /\ file' \in Begun /\ loads' = loads + 1
    /\ UNCHANGED <<what, written>>

\* Store::open: every record is applied in turn; one that is refused is noted.  The
\* journal is cut off behind the last record read.
Replayed == FoldLeft(apply, Empty, journal)
Restart ==
    /\ current' = Replayed
    /\ gap' = FALSE /\ adrift' = FALSE
    /\ UNCHANGED <<what, file, written, journal, loads, answer>>

\* Store::compact writes what is held and Journal::rewrite goes on with the number
\* it had, which leaves a gap unless as many records were written as there were.
Compact ==
    /\ journal # <<>> \/ gap
    /\ journal' = <<Encode(current)>>
    /\ gap' \in BOOLEAN /\ adrift' = FALSE
    /\ UNCHANGED <<what, file, written, current, loads, answer>>

Next == WriteLine \/ LoadFile \/ Restart \/ Compact

Spec == Init /\ [][Next]_vars
-----------------------------------------------------------------------------
(* Properties.                                                             *)

\* A start brings back the configuration the controller ran on, also when the
\* journal does not take it back as it was given, or a commit failed earlier; but
\* not what was committed behind a gap, and not before the next commit once a
\* record outlived its failing flush (Store::append_and_apply, Store::compact,
\* Store::open).
RestartSame == ~gap /\ ~adrift => Replayed = current

\* A rendered topology can be loaded again, at any later time, and has the digest
\* it had (render_topology against load_topology_text).
TopologyReloads ==
    what = "topology" =>
        LET again == Load(Render(current), loads + 1)
        IN  again.ok /\ topology_digest(again.value) = topology_digest(current)

\* "always re-loadable" (src/config/text.cpp): so does a rendered policy.
PolicyReloads ==
    what = "policy" =>
        LET again == Load(Render(current), loads + 1)
        IN  again.ok /\ again.value = current

\* Below x in the containment forest, from the parents alone.
Contained(t, x) ==
    {y \in DOMAIN t.targets : \E n \in 0 .. Cardinality(TargetIds) : Up(t, y, Cardinality(TargetIds))[n] = x}

Topologies == IF what # "topology" THEN {}
              ELSE {current} \cup {t \in {Load(file, loads).value} : Load(file, loads).ok}

\* The indexes that the engine reads agree with the declarations, however often
\* a file declares the same target or pool: a removal takes exactly what is
\* contained in its targets, and the domains and pools it touches are theirs
\* (add_target, add_pool, removal_set, domains_of, pools_of).
RemovalSetExact ==
    \A t \in Topologies : \A S \in SUBSET DOMAIN t.targets :
        LET out == removal_set(t, S)
        IN  /\ out = UNION {Contained(t, x) : x \in S}
            /\ \A d \in DomainIds : t.members[d] \cap out # {} <=> d \in domains_of(t, out)
            /\ pools_of(t, out) = {p \in DOMAIN t.pools : ToSet(t.pools[p].members) \cap out # {}}

WindowsMeanIt(p, S, now) ==
    LET for_job == {w \in ToSet(p.windows) : w.targets = <<>> \/ \E x \in S : x \in ToSet(w.targets)}
        admitting == {w \in for_job : now >= w.opens /\ now < w.closes /\ now + w.lead <= w.closes}
    IN  \A e \in evaluate_window(p, S, now) :
            /\ allows_start(e) <=> (admitting # {} \/ (for_job = {} /\ p.settings["require_window"] = 0))
            /\ allows_start(e) /\ admitting # {} /\ NoRepeat(Each(p.windows, LAMBDA w : w.id))
                => \E w \in admitting : start_under(p, e) = [closes |-> w.closes, on_close |-> w.on_close]

\* An accepted policy asks of every pool for at least one unit and for what its
\* rule says, without wrapping around; it asks nothing of a contract that the
\* contract cannot give; a tier ranks before every tier of a higher index, an
\* undeclared one last; and a job may start exactly when no window applies and
\* none is asked for, or one that applies is open with its lead time left, and
\* then runs to the close and under the close rule of such a window, where the
\* windows have ids of their own (Policy::validate, redundancy_for, tier_rank,
\* evaluate_window, drive_ready_locked).
PolicyMeansIt ==
    what = "policy" =>
        /\ \A pool \in PoolIds :
            LET r == redundancy_for(current, pool)
            IN  required_serving_units(r) = r.min + r.losses /\ required_serving_units(r) > 0
        /\ \A c \in contracts_touching(current, TargetIds) : c.min <= Cardinality(ToSet(c.members))
        /\ \A i, j \in 0 .. 2 : i \in TierIndexes(current) /\ (i < j \/ j \notin TierIndexes(current))
                                    => tier_rank(current, i) < tier_rank(current, j)
        /\ \A S \in (SUBSET TargetIds) \ {{}}, now \in 0 .. MaxTime : WindowsMeanIt(current, S, now)

\* A file that validates is committed.
AcceptedIsCommitted == answer # "internal"
==============================================================================
