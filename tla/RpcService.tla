------------------------------ MODULE RpcService ------------------------------
(***************************************************************************)
(* What a TcpServer promises the thread that owns it: handlers run only    *)
(* between start and the return of stop, at most Limit at a time, and at   *)
(* most one for a connection.  When stop has returned, nothing the handler *)
(* uses is in use any more.                                                *)
(***************************************************************************)
EXTENDS Naturals, FiniteSets

CONSTANTS Peers, Limit

VARIABLES
    phase,  \* "down" | "up" | "stopping"
    busy    \* the connections whose handler is running

Init == phase = "down" /\ busy = {}

Start == phase = "down" /\ phase' = "up" /\ UNCHANGED busy

Begin(c) ==
    /\ phase # "down"
    /\ c \notin busy /\ Cardinality(busy) < Limit
    /\ busy' = busy \cup {c}
    /\ UNCHANGED phase

End(c) == c \in busy /\ busy' = busy \ {c} /\ UNCHANGED phase

Stop == phase = "up" /\ phase' = "stopping" /\ UNCHANGED busy

Stopped == phase = "stopping" /\ busy = {} /\ phase' = "down" /\ UNCHANGED busy

Next == Start \/ Stop \/ Stopped \/ \E c \in Peers : Begin(c) \/ End(c)

Safe == Init /\ [][Next]_<<phase, busy>>

\* A stop that was asked for is carried out.
Spec == Safe /\ WF_<<phase, busy>>(Stopped)
===============================================================================
