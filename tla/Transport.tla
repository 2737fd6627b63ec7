------------------------------ MODULE Transport ------------------------------
(***************************************************************************)
(* A TCP server and its clients, joined by their sockets: the accept       *)
(* thread, the workers, the owner that stops the server at any moment, and *)
(* clients whose deadlines may pass while their request is being handled.  *)
(***************************************************************************)
EXTENDS TcpServer, TcpClient

vars == <<sockets, server, clients>>

Init == SocketsInit /\ ServerInit /\ ClientInit

\* A connection attempt reaches the listener's backlog, or is refused.
Connect(k) ==
    /\ listening /\ Len(backlog) < Backlog
    /\ connect(k)
    /\ backlog' = Append(backlog, NextConn)
    /\ UNCHANGED <<stopping, listening, acceptor, queue, worker, live, owner, starts>>

Call(k) == CallStep(k) /\ UNCHANGED server

Serve == ServerNext /\ UNCHANGED clients

Next == Serve \/ \E k \in Clients : Connect(k) \/ Call(k)

\* The threads of the server run, and a blocking read ends with its timeout.
\* Nothing is assumed of the clients, nor that the owner ever stops the server.
Fairness ==
    /\ WF_vars(~killed /\ AcceptStep /\ UNCHANGED clients)
    /\ WF_vars(~killed /\ StopStep /\ UNCHANGED clients)
    /\ \A w \in Workers : WF_vars(~killed /\ WorkerStep(w) /\ UNCHANGED clients)

Spec == Init /\ [][Next]_vars /\ Fairness
-----------------------------------------------------------------------------
(* Properties.                                                             *)

\* The variables keep their types.
TypeOK ==
    /\ \A c \in Conns : srv[c] \in {"none", "open", "shut", "closed"}
                        /\ cli[c] \in {"none", "open", "closed"}
    /\ Elements(queue) \cup Elements(backlog) \cup live \subseteq Conns
    /\ \A w \in Workers : worker[w].conn \in Conns \cup {None}
    /\ \A k \in Clients : client[k].conn \in Conns \cup {NoConn}

\* A call that returns an answer returns the answer to its own request, however
\* late the answers to the client's earlier requests arrive (the request id
\* check of TcpClient::call).
OwnAnswer == \A k \in Clients : result[k].ok => result[k].answer = result[k].asked

\* A drain call never begins on a connection that still carries something of
\* an earlier call: after a failure RemoteDrainPort::call has replaced it.
CleanStream ==
    [][\A k \in Ports : client[k].calls # client'[k].calls =>
          LET c == client[k].conn
          IN  up[c] = <<>> /\ down[c] = <<>>
              /\ \A w \in Workers : worker[w].conn = c => worker[w].pc \in {"popped", "read", "leave"}]_vars

\* No socket is in two hands: a connection is in the backlog, with the
\* acceptor, in the queue or with one worker, and live_ names only sockets
\* that a worker still has (stop dereferences them).
OneHolder ==
    /\ TypeOK
    /\ \A v, w \in Workers : v # w /\ worker[v].conn = worker[w].conn => worker[v].conn = None
    /\ \A w \in Workers : worker[w].conn \notin Elements(queue) \cup Elements(backlog)
    /\ \A c \in live : srv[c] \in {"open", "shut"} /\ \E w \in Workers : worker[w].conn = c

\* What the owner of the server relies on: RpcService, with stop and start
\* seen from outside and a handler running from the decoded request to its
\* return.  (TcpServer::stop joins the workers before it returns.)
Phase == IF owner = "stopped" THEN "down" ELSE IF owner = "serving" THEN "up" ELSE "stopping"
Handling == {w \in Workers : worker[w].pc = "handle"}
Busy == {worker[w].conn : w \in Handling}
Service == INSTANCE RpcService WITH
    Peers <- Conns, Limit <- Cardinality(Workers), phase <- Phase, busy <- Busy
ServiceKept == Service!Spec

\* From some moment on no client begins a call.
ClientsRest == <>[][\A k \in Clients : client'[k].calls = client[k].calls]_vars

\* Once the clients make no more calls, every connection that was queued is
\* closed at last: a worker takes it, or stop does (no wake-up of cv_ is lost,
\* and an idle peer loses its worker to io_timeout).  A client that goes on
\* calling keeps its worker: serve() looks at neither stopping_ nor an age.
QueuedIsServed ==
    ClientsRest => \A c \in Conns : (\E i \in 1 .. Len(queue) : queue[i] = c) ~> srv[c] = "closed"

\* The same whatever the clients do.
QueuedIsServedAlways ==
    \A c \in Conns : (\E i \in 1 .. Len(queue) : queue[i] = c) ~> srv[c] = "closed"

\* "A worker parked in a blocking read is released by step 3" (docs): once
\* stop has cut the live connections, no worker reads from a socket that has
\* not been shut down.
ParkedReleased ==
    owner \in {"notify", "join"} =>
        \A w \in Workers : worker[w].pc \in {"read", "body"} => srv[worker[w].conn] = "shut"
==============================================================================
