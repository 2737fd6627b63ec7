--------------------------- MODULE MCConfiguration ---------------------------
(***************************************************************************)
(* Instances of Configuration for TLC: the lines a file is written from.   *)
(***************************************************************************)
EXTENDS Configuration

T(x, p, ds, c) == [kind |-> "target", id |-> x, parent |-> p, domains |-> ds, capacity |-> c]
P(x, ms) == [kind |-> "pool", id |-> x, members |-> ms]
D(d) == [kind |-> "domain", id |-> d]
Bad == [kind |-> "bad"]

MCDrafts == {<<D("d")>>, <<D("e"), D("d"), T(3, 0, <<"d">>, 1), T(2, 3, <<"e">>, 1), P(1, <<2>>)>>}

MCTopologyLines ==
    {D("e"), Bad}
    \cup {T(x, p, <<"d">>, 1) : x \in 1 .. 3, p \in 0 .. 3}
    \cup {T(1, 0, <<"e">>, 1), T(1, 2, <<"d", "e">>, 1), T(1, 0, <<"d", "d">>, 1), T(2, 0, <<"d">>, 0)}
    \cup {P(1, <<1>>), P(1, <<2, 1>>), P(1, <<1, 1>>)}

R(min, losses, name) == [kind |-> "redundancy", pool |-> 1, min |-> min, losses |-> losses, name |-> name]
C(ms, min, fresh) == [kind |-> "contract", id |-> 1, members |-> ms, min |-> min, fresh_evidence |-> fresh]
W(id, rel, from, to, lead, ts) ==
    [kind |-> "window", id |-> id, relative |-> rel, opens |-> from, closes |-> to, lead |-> lead,
     on_close |-> IF ts = <<>> THEN "finish" ELSE "abort", targets |-> ts]
Set(k, v) == [kind |-> "setting", key |-> k, value |-> v]

MCPolicyLines ==
    {Bad}
    \cup {R(0, 1, "given"), R(1, 1, "given"), R(1, 3, "given"), R(2, 0, "given"), R(1, 0, "long")}
    \cup {[kind |-> "headroom", pool |-> 1, reserve |-> n] : n \in 0 .. 1}
    \cup {[kind |-> "domain_limit", domain |-> "d", max_out |-> n] : n \in 0 .. 1}
    \cup {C(<<1>>, 1, "false"), C(<<1, 2>>, 2, "true"), C(<<1, 1>>, 2, "absent")}
    \cup {W(2, TRUE, 1, 2, 0, <<>>), W(1, FALSE, 0, 1, 0, <<>>), W(1, TRUE, 1, 1, 0, <<>>),
          W(1, FALSE, 0, 3, 2, <<2>>)}
    \cup {[kind |-> "tier", index |-> n] : n \in {0, 2}}
    \cup {[kind |-> "evidence_ttl", of |-> "Health", ttl |-> n] : n \in 0 .. 1}
    \cup {Set("drain_lease", 0), Set("drain_lease", 2), Set("require_window", 1), Set("typo", 1)}
==============================================================================
