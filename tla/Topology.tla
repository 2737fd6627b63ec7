------------------------------ MODULE Topology ------------------------------
(***************************************************************************)
(* The topology (src/domain/topology.cpp): targets that contain targets,   *)
(* the failure domains they belong to, and pools, with the three indexes   *)
(* that the engine reads; its text form (src/config/text.cpp) and its      *)
(* journal record (src/store/records.cpp).                                 *)
(*                                                                         *)
(* A text is a sequence of lines, a record a sequence of entries; a line   *)
(* of kind "bad" is any line that tokenize or a value parser refuses.      *)
(* Names and the correlated and maintainable flags are left out.            *)
(***************************************************************************)
EXTENDS Naturals, Sequences, FiniteSets, SequencesExt

CONSTANTS
    TargetIds,   \* numbers that can identify a target
    DomainIds,   \* failure domains
    PoolIds,     \* numbers that can identify a pool
    ChainDepth,  \* kMaxTopologyChainDepth
    MaxMembers   \* kMaxMembersPerPool

ASSUME TopologyAssumption ==
    /\ TargetIds \subseteq Nat \ {0} /\ PoolIds \subseteq Nat \ {0}
    /\ IsFiniteSet(TargetIds) /\ IsFiniteSet(PoolIds)
    /\ {ChainDepth, MaxMembers} \subseteq Nat

NoParent == 0

\* An empty topology: targets_, domains_, pools_, children_, domain_members_,
\* target_pools_ and revision_.
EmptyTopology ==
    [targets |-> <<>>, domains |-> {}, pools |-> <<>>,
     children |-> [x \in TargetIds |-> {}],
     members |-> [d \in DomainIds |-> {}],
     in_pools |-> [x \in TargetIds |-> {}],
     revision |-> 0]

With(f, k, v) == [x \in DOMAIN f \cup {k} |-> IF x = k THEN v ELSE f[x]]
Distinct(s) == Cardinality(ToSet(s)) = Len(s)

add_domain(t, d) == [t EXCEPT !.domains = @ \cup {d}, !.revision = @ + 1]

\* A target l = [id, parent, domains, capacity].
validate_target_record(l) == l.capacity > 0 /\ Distinct(l.domains)

can_add_target(t, l) ==
    /\ validate_target_record(l)
    /\ l.parent # NoParent => l.parent # l.id /\ l.parent \in DOMAIN t.targets
    /\ ToSet(l.domains) \subseteq t.domains

\* A target that is added again is taken out of the indexes it was in.
keep_indexes(t, x) == t
drop_indexes(t, x) ==
    IF x \notin DOMAIN t.targets THEN t
    ELSE [t EXCEPT !.members = [d \in DomainIds |-> IF d \in ToSet(t.targets[x].domains)
                                                    THEN @[d] \ {x} ELSE @[d]],
                   !.children = [p \in TargetIds |-> IF p = t.targets[x].parent
                                                     THEN @[p] \ {x} ELSE @[p]]]

add_target(t, l) ==
    LET u == drop_indexes(t, l.id)
    IN  [u EXCEPT !.targets = With(@, l.id, l),
                  !.members = [d \in DomainIds |-> IF d \in ToSet(l.domains)
                                                   THEN @[d] \cup {l.id} ELSE @[d]],
                  !.children = [p \in TargetIds |-> IF p = l.parent THEN @[p] \cup {l.id} ELSE @[p]],
                  !.revision = @ + 1]

\* A pool l = [id, members].
can_add_pool(t, l) ==
    /\ Len(l.members) \in 1 .. MaxMembers
    /\ ToSet(l.members) \subseteq DOMAIN t.targets
    /\ Distinct(l.members)

add_pool(t, l) ==
    LET old == IF l.id \in DOMAIN t.pools THEN ToSet(t.pools[l.id].members) ELSE {}
    IN  [t EXCEPT !.pools = With(@, l.id, l),
                  !.in_pools = [x \in TargetIds |->
                                   IF x \in ToSet(l.members) THEN @[x] \cup {l.id}
                                   ELSE IF x \in old THEN @[x] \ {l.id} ELSE @[x]],
                  !.revision = @ + 1]
-----------------------------------------------------------------------------
(* Queries.                                                                *)

\* The n-th ancestor of x, NoParent beyond the root.
Up(t, x, limit) ==
    LET up[n \in 0 .. limit] ==
            IF n = 0 THEN x
            ELSE IF up[n - 1] = NoParent THEN NoParent
            ELSE t.targets[up[n - 1]].parent
    IN  up

\* ancestors: it stops after ChainDepth of them.
ancestors(t, x) ==
    LET up == Up(t, x, ChainDepth)
    IN  SelectSeq([n \in 1 .. ChainDepth |-> up[n]], LAMBDA y : y # NoParent)

\* subtree: a walk down children_.
subtree(t, x) ==
    LET walk[n \in 0 .. Cardinality(TargetIds)] ==
            IF n = 0 THEN {x} ELSE walk[n - 1] \cup UNION {t.children[y] : y \in walk[n - 1]}
    IN  IF x \in DOMAIN t.targets THEN walk[Cardinality(TargetIds)] ELSE {}

removal_set(t, requested) == UNION {subtree(t, x) : x \in requested}

domains_of(t, S) == UNION {ToSet(t.targets[x].domains) : x \in S \cap DOMAIN t.targets}
pools_of(t, S) == UNION {t.in_pools[x] : x \in S}

\* validate: what is named exists, and every chain of parents ends.
validate_topology(t) ==
    /\ \A x \in DOMAIN t.targets :
        /\ validate_target_record(t.targets[x])
        /\ t.targets[x].parent \in (DOMAIN t.targets \cup {NoParent}) \ {x}
        /\ ToSet(t.targets[x].domains) \subseteq t.domains
        /\ Up(t, x, Cardinality(TargetIds))[Cardinality(TargetIds)] = NoParent
    /\ \A p \in DOMAIN t.pools : Len(t.pools[p].members) > 0
                                 /\ ToSet(t.pools[p].members) \subseteq DOMAIN t.targets

\* digest: a hash of the declarations, not of the revision or the indexes.
topology_digest(t) == [targets |-> t.targets, domains |-> t.domains, pools |-> t.pools]
-----------------------------------------------------------------------------
(* Text and record.  Both list the domains, then the targets by the number *)
(* of their ancestors and their id, then the pools; both are read back by  *)
(* adding one entry after the other, and validated.                        *)

Failed == [ok |-> FALSE, value |-> EmptyTopology]

AddLine(acc, l) ==
    LET t == acc.value
    IN  IF ~acc.ok THEN acc
        ELSE CASE l.kind = "domain" -> [acc EXCEPT !.value = add_domain(t, l.id)]
               [] l.kind = "target" /\ can_add_target(t, l) -> [acc EXCEPT !.value = add_target(t, l)]
               [] l.kind = "pool" /\ can_add_pool(t, l) -> [acc EXCEPT !.value = add_pool(t, l)]
               [] OTHER -> Failed

Read(lines) ==
    LET r == FoldLeft(AddLine, [ok |-> TRUE, value |-> EmptyTopology], lines)
    IN  IF r.ok /\ validate_topology(r.value) THEN r ELSE Failed

load_topology_text(lines) == Read(lines)
decode_topology_record(entries) == Read(entries)

DomainEntries(t) == [i \in 1 .. Cardinality(t.domains) |->
                        [kind |-> "domain", id |-> SetToSeq(t.domains)[i]]]
PoolEntries(t) == LET ids == SetToSortSeq(DOMAIN t.pools, <)
                  IN  [i \in 1 .. Len(ids) |-> t.pools[ids[i]]]
TargetEntries(t, ids) == [i \in 1 .. Len(ids) |-> t.targets[ids[i]]]

ById(t) == SetToSortSeq(DOMAIN t.targets, <)
ByDepth(t) ==
    LET depth(x) == Len(ancestors(t, x))
        before(x, y) == depth(x) < depth(y) \/ (depth(x) = depth(y) /\ x < y)
    IN  SetToSortSeq(DOMAIN t.targets, before)

encode_topology_record(t) == DomainEntries(t) \o TargetEntries(t, ByDepth(t)) \o PoolEntries(t)

render_unordered(t) == DomainEntries(t) \o TargetEntries(t, ById(t)) \o PoolEntries(t)
render_topology(t) == DomainEntries(t) \o TargetEntries(t, ByDepth(t)) \o PoolEntries(t)
==============================================================================
