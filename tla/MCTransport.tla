----------------------------- MODULE MCTransport -----------------------------
(***************************************************************************)
(* Transport for TLC, with drain ports that may call for ever: once a port *)
(* has used up its calls and nothing of them is left on its connection, it *)
(* counts calls and request ids from the start.  (In the code the ids go   *)
(* on counting; an id that is on no stream can be compared with none.)     *)
(***************************************************************************)
EXTENDS Transport

Recount(k) ==
    LET c == client[k].conn
    IN  /\ Calls = MaxCalls
        /\ client[k].pc = "idle" /\ c # NoConn /\ client[k].id > 0
        /\ up[c] = <<>> /\ down[c] = <<>>
        /\ \A w \in Workers : worker[w].conn = c => worker[w].pc = "read"
        /\ client' = [client EXCEPT ![k].id = 0, ![k].calls = 0]
        /\ result' = [result EXCEPT ![k] = NoResult]
        /\ UNCHANGED <<sockets, server>>

MCNext == Next \/ \E k \in Ports : Recount(k)
MCSpec == Init /\ [][MCNext]_vars /\ Fairness
==============================================================================
