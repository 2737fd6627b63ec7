---------------------------- MODULE MCController ----------------------------
(* Instances of Controller for TLC.                                        *)
EXTENDS Controller

CONSTANTS x, y, z, t1, t2

\* Two targets of one failure domain that lets one of them be out, of one pool
\* that needs one unit, and under a contract that needs one of them.
OneEach == [k \in {x, y} |-> 1]
OneOut == {[members |-> {x, y}, rules |-> {1}]}
OneServing == {[members |-> {x, y}, min_viable |-> 1, tolerated_losses |-> 0,
                reserve_units |-> 0]}
OneAvailable == {[members |-> {x, y}, min_available |-> 1]}

Separate == [j \in {1, 2} |-> IF j = 1 THEN {x} ELSE {y}]
Same == [j \in {1, 2} |-> {x}]
Single == [j \in {1} |-> {x}]
SingleTwo == [j \in {1} |-> {x, y}]
NoDeps == [j \in {1, 2} |-> {}]
NoDep == [j \in {1} |-> {}]
Chained == [j \in {1, 2} |-> IF j = 2 THEN {1} ELSE {}]
\* Two jobs that compete, and one that waits for the first.
Third == [j \in 1 .. 3 |-> IF j = 1 THEN {x} ELSE IF j = 2 THEN {y} ELSE {z}]
Follows == [j \in 1 .. 3 |-> IF j = 3 THEN {1} ELSE {}]
LastFirst == [j \in 1 .. 3 |-> 4 - j]
Units3 == [k \in {x, y, z} |-> 1]
ById == [j \in {1, 2} |-> j]
Only == [j \in {1} |-> 1]

\* What a pass may find: all well; target x down; x unobserved; no window;
\* evidence beyond its ttl; precondition evaluation too old.
Good == [fresh |-> {x, y}, serving |-> {x, y}, window |-> TRUE,
         lapsed |-> FALSE, aged |-> FALSE]
Down == [Good EXCEPT !.serving = {y}]
Unseen == [Good EXCEPT !.fresh = {y}, !.serving = {y}]
Closed == [Good EXCEPT !.window = FALSE]
Lapsed == [Good EXCEPT !.lapsed = TRUE]
Aged == [Good EXCEPT !.aged = TRUE]
GoodViews == {Good}
GoodViews3 == {[Good EXCEPT !.fresh = {x, y, z}, !.serving = {x, y, z}]}
DownViews == {Good, Down}
CloseViews == {Good, Closed}
AllViews == {Good, Down, Unseen, Closed, Lapsed, Aged}
=============================================================================
