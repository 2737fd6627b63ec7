------------------------------- MODULE Policy -------------------------------
(***************************************************************************)
(* The policy (src/domain/policy.cpp), its text form (src/config/text.cpp) *)
(* and its journal record (src/store/records.cpp).                         *)
(*                                                                         *)
(* A text is a sequence of lines; a line of kind "bad" is any line that    *)
(* tokenize or a value parser refuses.  Numbers are words of Width bits.   *)
(* Durations and counts are numbers.  Of the names, all treated alike, the  *)
(* redundancy rules' are kept: "given", "long" (over kMaxNameLength) or    *)
(* "empty".  A window's abort grace is left out.                           *)
(***************************************************************************)
EXTENDS Naturals, Sequences, FiniteSets, SequencesExt

CONSTANTS
    Width,        \* bits of a rule's numbers (32 in the code)
    MaxRules,     \* kMaxRedundancyRules, and the bound of every other list
    MaxWindows,   \* kMaxWindowRules
    MaxContract,  \* kMaxMembersPerPool, the record's bound on a contract's members
    MinLease,     \* kMinDrainLeaseNanos, kMinEvidenceTtlNanos
    MaxSetting    \* the upper bound of a setting that has one

ASSUME PolicyAssumption == {Width, MaxRules, MaxWindows, MaxContract, MinLease, MaxSetting} \subseteq Nat

Word == 2 ^ Width

SettingKeys == {"min_evidence_sources", "require_window", "max_precondition_age",
                "default_duration", "max_concurrent_jobs", "authority_lease", "drain_lease",
                "max_drain_failures", "max_verification_attempts", "max_restoration_attempts"}
Leases == {"authority_lease", "drain_lease"}
Unbounded == {"default_duration", "max_drain_failures", "max_verification_attempts",
              "max_restoration_attempts"}

\* The members of struct Policy and their defaults.
DefaultPolicy ==
    [redundancy |-> <<>>, domain_limits |-> <<>>, headroom |-> <<>>, contracts |-> <<>>,
     windows |-> <<>>, tiers |-> <<>>, ttl |-> <<>>,
     settings |-> [k \in SettingKeys |-> IF k = "require_window" THEN 0
                                         ELSE IF k \in Leases THEN MinLease ELSE 1]]

PutAt(f, k, v) == [x \in DOMAIN f \cup {k} |-> IF x = k THEN v ELSE f[x]]
NoRepeat(s) == Cardinality(ToSet(s)) = Len(s)
-----------------------------------------------------------------------------
(* validate.                                                               *)

SettingOk(k, v) ==
    CASE k = "require_window" -> v \in {0, 1}
      [] k \in Leases -> v \in MinLease .. MaxSetting
      [] k \in Unbounded -> v > 0
      [] OTHER -> v \in 1 .. MaxSetting

positive_requirement(r) == r.pool > 0 /\ r.min > 0
valid_requirement(r) == r.pool > 0 /\ r.min > 0 /\ (r.min + r.losses) % Word >= r.min

valid_contract(c) ==
    /\ c.id > 0 /\ c.members # <<>>
    /\ c.min \in 1 .. Len(c.members)
    /\ NoRepeat(c.members)

valid_window(w) == w.id > 0 /\ w.closes > w.opens

TierIndexes(p) == {p.tiers[i] : i \in 1 .. Len(p.tiers)}

validate_policy(p) ==
    /\ \A n \in {Len(p.redundancy), Len(p.domain_limits), Len(p.contracts), Len(p.tiers)} : n <= MaxRules
    /\ Len(p.windows) <= MaxWindows
    /\ \A k \in SettingKeys : SettingOk(k, p.settings[k])
    /\ p.tiers # <<>> => 0 \in TierIndexes(p)
    /\ \A i \in 1 .. Len(p.redundancy) : valid_requirement(p.redundancy[i])
    /\ \A i \in 1 .. Len(p.domain_limits) : p.domain_limits[i].max_out > 0
    /\ \A i \in 1 .. Len(p.contracts) : valid_contract(p.contracts[i])
    /\ \A i \in 1 .. Len(p.windows) : valid_window(p.windows[i])
    /\ \A k \in DOMAIN p.ttl : p.ttl[k] \in MinLease .. MaxSetting
    /\ NoRepeat(p.tiers)
-----------------------------------------------------------------------------
(* Queries.                                                                *)

\* redundancy_for: the first rule of the pool, or the conservative default.
redundancy_for(p, pool) ==
    LET rules == SelectSeq(p.redundancy, LAMBDA r : r.pool = pool)
    IN  IF rules = <<>> THEN [pool |-> pool, min |-> 1, losses |-> 0, name |-> "given"]
        ELSE Head(rules)

required_serving_units(r) == (r.min + r.losses) % Word

contracts_touching(p, S) == ToSet(SelectSeq(p.contracts, LAMBDA c : ToSet(c.members) \cap S # {}))

\* tier_rank: the place of a tier among the declared ones, after them if it is
\* not declared.
tier_rank(p, index) ==
    IF index \in TierIndexes(p) THEN Cardinality({i \in TierIndexes(p) : i < index})
    ELSE Cardinality(TierIndexes(p))

\* Policy::window: the first with this id; validate accepts an id twice.
window(p, id) == Head(SelectSeq(p.windows, LAMBDA w : w.id = id))

applies_to(w, S) == w.targets = <<>> \/ ToSet(w.targets) \cap S # {}

classify(w, now) ==
    CASE now < w.opens -> "NotYetOpen"
      [] now >= w.closes -> "Closed"
      [] w.opens <= now /\ now < w.closes /\ w.closes - now < w.lead -> "TooLateToStart"
      [] OTHER -> "Open"

\* evaluate_window for a job on the targets S: the first open window in the order
\* of ids, or else the first that applies.  Which of two with one id comes first is
\* up to std::sort, hence the set.
evaluate_window(p, S, now) ==
    LET applicable == {w \in ToSet(p.windows) : applies_to(w, S)}
        open == {w \in applicable : classify(w, now) = "Open"}
        first(ws) == {w \in ws : \A v \in ws : w.id <= v.id}
    IN  IF applicable = {}
        THEN {[verdict |-> IF p.settings["require_window"] = 1 THEN "NoMatchingWindow"
                           ELSE "NoWindowConfigured", window |-> 0, closes |-> 0]}
        ELSE {[verdict |-> classify(w, now), window |-> w.id, closes |-> w.closes] :
                w \in first(IF open # {} THEN open ELSE applicable)}

allows_start(e) == e.verdict \in {"Open", "NoWindowConfigured"}

\* What drive_ready puts down for the job it starts.
start_under(p, e) ==
    [closes |-> IF e.verdict = "Open" THEN e.closes ELSE 0,
     on_close |-> IF e.verdict = "Open" THEN window(p, e.window).on_close ELSE "finish"]
-----------------------------------------------------------------------------
(* Text.                                                                   *)

NoPolicy == [ok |-> FALSE, value |-> DefaultPolicy]

\* parse_time: an offset from the time of loading, or an absolute time.
ParseTime(l, t, now) == IF l.relative THEN now + t ELSE t

\* One operator per kind of line.
add_redundancy(p, l) ==
    [p EXCEPT !.redundancy =
        Append(@, [pool |-> l.pool, min |-> l.min, losses |-> l.losses, name |-> l.name])]
add_headroom(p, l) ==
    [p EXCEPT !.headroom = Append(@, [pool |-> l.pool, reserve |-> l.reserve])]
add_domain_limit(p, l) ==
    [p EXCEPT !.domain_limits = Append(@, [domain |-> l.domain, max_out |-> l.max_out])]
add_contract(p, l) ==
    [p EXCEPT !.contracts = Append(@, [id |-> l.id, members |-> l.members, min |-> l.min,
                                       fresh |-> l.fresh_evidence # "false"])]
add_window(p, l, now) ==
    [p EXCEPT !.windows = Append(@, [id |-> l.id, opens |-> ParseTime(l, l.opens, now),
                                     closes |-> ParseTime(l, l.closes, now),
                                     lead |-> l.lead, on_close |-> l.on_close,
                                     targets |-> l.targets])]
add_tier(p, l) == [p EXCEPT !.tiers = Append(@, l.index)]
add_evidence_ttl(p, l) == [p EXCEPT !.ttl = PutAt(@, l.of, l.ttl)]
apply_setting(p, l) == [p EXCEPT !.settings[l.key] = l.value]

Known(l) ==
    \/ l.kind \in {"redundancy", "headroom", "domain_limit", "contract", "window", "tier",
                   "evidence_ttl"}
    \/ l.kind = "setting" /\ l.key \in SettingKeys

add_line(p, l, now) ==
    CASE l.kind = "redundancy" -> add_redundancy(p, l)
      [] l.kind = "headroom" -> add_headroom(p, l)
      [] l.kind = "domain_limit" -> add_domain_limit(p, l)
      [] l.kind = "contract" -> add_contract(p, l)
      [] l.kind = "window" -> add_window(p, l, now)
      [] l.kind = "tier" -> add_tier(p, l)
      [] l.kind = "evidence_ttl" -> add_evidence_ttl(p, l)
      [] l.kind = "setting" -> apply_setting(p, l)

\* load_policy_text.  The settings are applied after the other lines; the last
\* line of a key counts.
load_policy_text(lines, now) ==
    LET p == FoldLeft(LAMBDA q, l : add_line(q, l, now), DefaultPolicy, lines)
    IN  IF (\A l \in ToSet(lines) : Known(l)) /\ validate_policy(p)
        THEN [ok |-> TRUE, value |-> p] ELSE NoPolicy

Each(list, line(_)) == [i \in 1 .. Len(list) |-> line(list[i])]
EachOf(f, line(_, _)) == FoldSet(LAMBDA k, out : Append(out, line(k, f[k])), <<>>, DOMAIN f)

\* render_policy: a contract's fresh_evidence is not written, and a name that
\* is empty leaves "name=", which tokenize refuses.
render_policy(p) ==
    EachOf(p.ttl, LAMBDA k, v : [kind |-> "evidence_ttl", of |-> k, ttl |-> v])
    \o Each(p.redundancy, LAMBDA r : [kind |-> IF r.name = "empty" THEN "bad" ELSE "redundancy",
                                       pool |-> r.pool, min |-> r.min, losses |-> r.losses,
                                       name |-> r.name])
    \o Each(p.headroom, LAMBDA r : [kind |-> "headroom", pool |-> r.pool, reserve |-> r.reserve])
    \o Each(p.domain_limits, LAMBDA r : [kind |-> "domain_limit", domain |-> r.domain, max_out |-> r.max_out])
    \o Each(p.contracts, LAMBDA c : [kind |-> "contract", id |-> c.id, members |-> c.members, min |-> c.min,
                                     fresh_evidence |-> "absent"])
    \o Each(p.windows, LAMBDA w : [kind |-> "window", id |-> w.id, relative |-> FALSE, opens |-> w.opens,
                                   closes |-> w.closes, lead |-> w.lead, on_close |-> w.on_close,
                                   targets |-> w.targets])
    \o Each(p.tiers, LAMBDA i : [kind |-> "tier", index |-> i])
    \o EachOf(p.settings, LAMBDA k, v : [kind |-> "setting", key |-> k, value |-> v])
-----------------------------------------------------------------------------
(* Record.                                                                 *)

\* encode_policy_record: one list after the other, then the settings.  For a name
\* over its bound ByteWriter::str writes an empty one and notes an overflow that
\* is not looked at.
encode_policy_record(p) ==
    [lists |-> <<Each(p.redundancy, LAMBDA r : IF r.name = "long" THEN [r EXCEPT !.name = "empty"] ELSE r),
                 p.domain_limits, p.headroom, p.contracts, p.windows, p.tiers>>,
     ttl |-> EachOf(p.ttl, LAMBDA k, v : <<k, v>>),
     settings |-> p.settings]

\* decode_policy_record bounds every list before it reads it, headroom rules and
\* the members of a contract included, and validates what it read.
decode_policy_record(r) ==
    LET p == [redundancy |-> r.lists[1], domain_limits |-> r.lists[2], headroom |-> r.lists[3],
              contracts |-> r.lists[4], windows |-> r.lists[5], tiers |-> r.lists[6],
              ttl |-> FoldLeft(LAMBDA f, e : PutAt(f, e[1], e[2]), <<>>, r.ttl),
              settings |-> r.settings]
    IN  IF /\ \A i \in {1, 2, 3, 4, 6} : Len(r.lists[i]) <= MaxRules
           /\ Len(p.windows) <= MaxWindows
           /\ \A i \in 1 .. Len(p.contracts) : Len(p.contracts[i].members) <= MaxContract
           /\ validate_policy(p)
        THEN [ok |-> TRUE, value |-> p] ELSE NoPolicy
==============================================================================
