-------------------------------- MODULE Impact --------------------------------
(***************************************************************************)
(* The capacity impact of taking targets out of service                    *)
(* (compute_impact in src/engine/impact.cpp): pools keep their redundancy  *)
(* and reserve, failure domains their limits, contracts their minimum.     *)
(*                                                                         *)
(* baseline is what is out or spoken for already, planned what is to go    *)
(* out as well, serving the targets fresh evidence shows to be serving.    *)
(***************************************************************************)
EXTENDS Naturals, FiniteSets, Functions

CONSTANTS
    Targets,    \* what maintenance takes out of service
    Units,      \* capacity_units of a target
    Pools,      \* pools with their redundancy and headroom rules
    Domains,    \* failure domains with the max_out of each of their rules
    Contracts   \* availability contracts

ASSUME ImpactAssumption ==
    /\ IsFiniteSet(Targets)
    /\ Units \in [Targets -> Nat]
    /\ Pools \subseteq [members : SUBSET Targets, min_viable : Nat,
                        tolerated_losses : Nat, reserve_units : Nat]
    /\ Domains \subseteq [members : SUBSET Targets, rules : SUBSET (Nat \ {0})]
    /\ Contracts \subseteq [members : SUBSET Targets, min_available : Nat]

UnitsOf(S) == FoldFunctionOnSet(+, 0, Units, S)

\* A pool counts when one of its members is out.
PoolKept(p, out, serving) ==
    p.members \cap out # {} =>
        UnitsOf((p.members \cap serving) \ out)
            >= p.min_viable + p.tolerated_losses + p.reserve_units

\* Of several rules for one domain the most permissive decides.
DomainKept(d, out) ==
    d.rules # {} => \E max_out \in d.rules : Cardinality(d.members \cap out) <= max_out

\* A contract counts when one of its members is to go out now.
ContractKept(c, out, planned, serving) ==
    c.members \cap planned # {} =>
        Cardinality((c.members \cap serving) \ out) >= c.min_available

satisfied(baseline, planned, serving) ==
    LET out == baseline \cup planned
    IN  /\ \A p \in Pools : PoolKept(p, out, serving)
        /\ \A d \in Domains : DomainKept(d, out)
        /\ \A c \in Contracts : ContractKept(c, out, planned, serving)
===============================================================================
