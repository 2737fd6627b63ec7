-------------------------------- MODULE MCApi --------------------------------
(***************************************************************************)
(* Instances of Api for TLC: the command lines.                            *)
(***************************************************************************)
EXTENDS Api

Line(name, given) == [name |-> name, given |-> given, job |-> 1, actor |-> 2, title |-> 2, text |-> 2,
                      targets |-> <<1>>, deps |-> <<>>, attempt |-> 1, ok |-> TRUE, count |-> 2]

Proposals ==
    {[Line("propose", {"title", "target"}) EXCEPT !.title = t, !.text = r, !.targets = ts, !.deps = ds, !.actor = a] :
        t \in {2, 9}, r \in {0, 2, 11}, ts \in {<<1>>, <<2, 1>>, <<1, 1>>, <<1, 2, 3>>},
        ds \in {<<>>, <<1>>, <<1, 1>>, <<1, 2>>}, a \in {2, 7}}

\* On a job, which may be job:0, or on a quarantine.
OnJobs ==
    {[Line(n, {"job", "id", "attempt", "target"}) EXCEPT !.job = j, !.actor = a, !.text = r, !.ok = ok] :
        n \in Jobs \cup {"clear-quarantine"}, j \in {0, 1}, a \in {2, 7}, r \in {0, 2, 5, 11, 13}, ok \in BOOLEAN}

Others == {Line(n, {"target"}) : n \in {"status", "conflicts", "arbitration", "quarantines", "tick", "observe",
                                        "topology", "policy"}}
Counts == {[Line(n, {"job"}) EXCEPT !.count = k] : n \in {"start", "tick"}, k \in 0..3}
Incomplete == {Line(n, {}) : n \in Jobs \cup {"propose", "observe", "clear-quarantine"}}

MCCommands == Proposals \cup OnJobs \cup Others \cup Counts \cup Incomplete
==============================================================================
