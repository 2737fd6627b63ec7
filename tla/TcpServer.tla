------------------------------ MODULE TcpServer ------------------------------
(***************************************************************************)
(* The TCP server (src/transport/server.cpp): an accept thread, a pool of  *)
(* workers fed by a bounded queue of connections, and the thread that owns *)
(* the server, which starts and stops it.                                  *)
(*                                                                         *)
(* What the code does under mu_ is one step.  A worker that waits on cv_   *)
(* sleeps until it is notified.  The handler is the interval in which a    *)
(* worker is in "handle"; what it answers is outside this module.          *)
(***************************************************************************)
EXTENDS Sockets

CONSTANTS
    Workers,    \* options.workers threads
    MaxQueued,  \* options.max_queued
    Backlog,    \* the kernel's bound on connections not yet accepted
    MaxStarts   \* bound: how often the owner starts the server

ASSUME ServerAssumption ==
    /\ IsFiniteSet(Workers) /\ Workers # {}
    /\ MaxQueued \in Nat \ {0} /\ Backlog \in Nat \ {0} /\ MaxStarts \in Nat

VARIABLES
    stopping,  \* stopping_
    listening, \* listener_ is open
    backlog,   \* connections the kernel holds for accept
    acceptor,  \* [pc, conn] of the accept thread
    queue,     \* queue_
    worker,    \* [pc, conn, head] of every worker
    live,      \* live_
    owner,     \* where the owning thread is in start or stop
    starts     \* how often start has been called

server == <<stopping, listening, backlog, acceptor, queue, worker, live, owner, starts>>

None == 0
NoPiece == Piece("none", "none", 0)
Off == [pc |-> "off", conn |-> None, head |-> NoPiece]
Waiting == [pc |-> "wait", conn |-> None, head |-> NoPiece]

ServerInit ==
    /\ stopping = FALSE /\ listening = FALSE /\ backlog = <<>>
    /\ acceptor = [pc |-> "off", conn |-> None]
    /\ queue = <<>> /\ worker = [w \in Workers |-> Off] /\ live = {}
    /\ owner = "stopped" /\ starts = 0

Elements(s) == {s[i] : i \in 1 .. Len(s)}

\* Sockets are closed, and what they had not read is discarded.
Close(S) ==
    /\ srv' = [c \in Conns |-> IF c \in S THEN "closed" ELSE srv[c]]
    /\ up' = [c \in Conns |-> IF c \in S THEN <<>> ELSE up[c]]
Woken == [w \in Workers |-> IF worker[w].pc = "asleep" THEN Waiting ELSE worker[w]]
-----------------------------------------------------------------------------
(* accept_loop                                                             *)

accept_check ==
    /\ acceptor.pc = "check"
    /\ acceptor' = [acceptor EXCEPT !.pc = IF stopping THEN "off" ELSE "accept"]
    /\ UNCHANGED <<stopping, listening, backlog, queue, worker, live, owner, starts, sockets>>

accept ==
    /\ acceptor.pc = "accept" /\ listening /\ backlog # <<>>
    /\ acceptor' = [pc |-> "admit", conn |-> Head(backlog)]
    /\ backlog' = Tail(backlog)
    /\ srv' = [srv EXCEPT ![Head(backlog)] = "open"]
    /\ UNCHANGED <<stopping, listening, queue, worker, live, owner, starts,
                   cli, up, down, killed>>

\* The listener was closed under the accept call.
accept_fails ==
    /\ acceptor.pc = "accept" /\ ~listening
    /\ acceptor' = [acceptor EXCEPT !.pc = IF stopping THEN "off" ELSE "check"]
    /\ UNCHANGED <<stopping, listening, backlog, queue, worker, live, owner, starts, sockets>>

\* The connection is queued, or refused when the queue is full or the server
\* is stopping.
admit ==
    /\ acceptor.pc = "admit"
    /\ IF ~stopping /\ Len(queue) < MaxQueued
       THEN /\ queue' = Append(queue, acceptor.conn)
            /\ acceptor' = [pc |-> "notify", conn |-> None]
            /\ UNCHANGED <<srv, up>>
       ELSE /\ Close({acceptor.conn})
            /\ acceptor' = [pc |-> "check", conn |-> None]
            /\ UNCHANGED queue
    /\ UNCHANGED <<stopping, listening, backlog, worker, live, owner, starts,
                   cli, down, killed>>

\* cv_.notify_one, after the lock was released.
notify_nobody ==
    /\ acceptor.pc = "notify"
    /\ acceptor' = [acceptor EXCEPT !.pc = "check"]
    /\ UNCHANGED <<stopping, listening, backlog, queue, worker, live, owner, starts, sockets>>
notify_one ==
    /\ acceptor.pc = "notify"
    /\ acceptor' = [acceptor EXCEPT !.pc = "check"]
    /\ \/ \E w \in Workers : worker[w].pc = "asleep" /\ worker' = [worker EXCEPT ![w] = Waiting]
       \/ (\A w \in Workers : worker[w].pc # "asleep") /\ UNCHANGED worker
    /\ UNCHANGED <<stopping, listening, backlog, queue, live, owner, starts, sockets>>
-----------------------------------------------------------------------------
(* worker_loop and serve                                                   *)

\* cv_.wait and what follows it under the lock.
worker_wait(w) ==
    /\ worker[w].pc = "wait"
    /\ IF queue # <<>>
       THEN /\ worker' = [worker EXCEPT ![w] = [pc |-> "popped", conn |-> Head(queue), head |-> NoPiece]]
            /\ queue' = Tail(queue)
       ELSE /\ worker' = [worker EXCEPT ![w].pc = IF stopping THEN "off" ELSE "asleep"]
            /\ UNCHANGED queue
    /\ UNCHANGED <<stopping, listening, backlog, acceptor, live, owner, starts, sockets>>

serve_enter(w) ==
    /\ worker[w].pc = "popped"
    /\ live' = live \cup {worker[w].conn}
    /\ worker' = [worker EXCEPT ![w].pc = "read"]
    /\ UNCHANGED <<stopping, listening, backlog, acceptor, queue, owner, starts, sockets>>

\* The next piece of the stream is consumed and the worker goes on at pc.
Consume(w, pc, head) ==
    LET c == worker[w].conn IN
    /\ ServerCanRead(c)
    /\ up' = [up EXCEPT ![c] = Tail(@)]
    /\ worker' = [worker EXCEPT ![w].pc = pc, ![w].head = head]
    /\ UNCHANGED <<stopping, listening, backlog, acceptor, queue, live, owner, starts,
                   srv, cli, down, killed>>

serve_header(w) ==
    /\ worker[w].pc = "read"
    /\ ServerCanRead(worker[w].conn)
    /\ LET h == Head(up[worker[w].conn])
       IN  Consume(w, IF ~decode_frame_header(h) THEN "reject"
                      ELSE IF h.kind = "goodbye" THEN "handle" ELSE "body", h)

serve_body(w) ==
    /\ worker[w].pc = "body"
    /\ ServerCanRead(worker[w].conn)
    /\ LET h == worker[w].head
           whole == decode_frame(h, Head(up[worker[w].conn]))
       IN  Consume(w, IF whole THEN "handle" ELSE "leave", IF whole THEN h ELSE NoPiece)

\* A blocking read ends without the bytes: end of stream, a socket that was
\* shut down, or io_timeout.
serve_read_ends(w) ==
    /\ worker[w].pc \in {"read", "body"}
    /\ ServerReadFails(worker[w].conn) \/ up[worker[w].conn] = <<>>
    /\ worker' = [worker EXCEPT ![w].pc = "leave", ![w].head = NoPiece]
    /\ UNCHANGED <<stopping, listening, backlog, acceptor, queue, live, owner, starts, sockets>>

\* The handler returns.
serve_handled(w) ==
    /\ worker[w].pc = "handle"
    /\ worker' = [worker EXCEPT ![w].pc = "answer"]
    /\ UNCHANGED <<stopping, listening, backlog, acceptor, queue, live, owner, starts, sockets>>

\* The answer is sent (when the handler failed as an Error frame, which travels
\* the same way); after a Goodbye, or the Error frame with request id 0 for a
\* header that could not be decoded, the connection is left.
Send(w, kind, id, pc) ==
    LET c == worker[w].conn IN
    /\ ServerCanSend(c)
    /\ down' = [down EXCEPT ![c] = IF cli[c] = "open" THEN @ \o encode_frame(kind, id) ELSE @]
    /\ worker' = [worker EXCEPT ![w].pc = pc, ![w].head = NoPiece]
    /\ UNCHANGED <<stopping, listening, backlog, acceptor, queue, live, owner, starts,
                   srv, cli, up, killed>>

serve_answer(w) ==
    /\ worker[w].pc = "answer"
    /\ Send(w, "response", worker[w].head.id,
            IF worker[w].head.kind = "goodbye" THEN "leave" ELSE "read")

serve_reject(w) == worker[w].pc = "reject" /\ Send(w, "error", 0, "leave")

serve_send_fails(w) ==
    /\ worker[w].pc \in {"answer", "reject"}
    /\ ServerSendFails(worker[w].conn)
    /\ killed' = Posix
    /\ worker' = [worker EXCEPT ![w].pc = "leave", ![w].head = NoPiece]
    /\ UNCHANGED <<stopping, listening, backlog, acceptor, queue, live, owner, starts,
                   srv, cli, up, down>>

serve_leave_listed(w) ==
    /\ worker[w].pc = "leave"
    /\ Close({worker[w].conn})
    /\ worker' = [worker EXCEPT ![w] = Waiting]
    /\ UNCHANGED <<stopping, listening, backlog, acceptor, queue, live, owner, starts,
                   cli, down, killed>>
serve_leave(w) ==
    /\ worker[w].pc = "leave"
    /\ live' = live \ {worker[w].conn}
    /\ Close({worker[w].conn})
    /\ worker' = [worker EXCEPT ![w] = Waiting]
    /\ UNCHANGED <<stopping, listening, backlog, acceptor, queue, owner, starts,
                   cli, down, killed>>
-----------------------------------------------------------------------------
(* start and stop, called by the owning thread.                            *)

start ==
    /\ owner = "stopped" /\ starts < MaxStarts
    /\ listening' = TRUE /\ stopping' = FALSE
    /\ acceptor' = [pc |-> "check", conn |-> None]
    /\ worker' = [w \in Workers |-> Waiting]
    /\ owner' = "serving" /\ starts' = starts + 1
    /\ UNCHANGED <<backlog, queue, live, sockets>>

stop_mark ==
    /\ owner = "serving"
    /\ stopping' = TRUE
    /\ owner' = "unlisten"
    /\ UNCHANGED <<listening, backlog, acceptor, queue, worker, live, starts, sockets>>

\* Connections that were never accepted are reset.
stop_unlisten ==
    /\ owner = "unlisten"
    /\ listening' = FALSE
    /\ Close(Elements(backlog))
    /\ backlog' = <<>>
    /\ owner' = "cut"
    /\ UNCHANGED <<stopping, acceptor, queue, worker, live, starts, cli, down, killed>>

stop_cut ==
    /\ owner = "cut"
    /\ srv' = [c \in Conns |-> IF c \in live THEN "shut"
                               ELSE IF c \in Elements(queue) THEN "closed" ELSE srv[c]]
    /\ up' = [c \in Conns |-> IF c \in Elements(queue) THEN <<>> ELSE up[c]]
    /\ queue' = <<>>
    /\ owner' = "notify"
    /\ UNCHANGED <<stopping, listening, backlog, acceptor, worker, live, starts,
                   cli, down, killed>>

stop_notify ==
    /\ owner = "notify"
    /\ worker' = Woken
    /\ owner' = "join"
    /\ UNCHANGED <<stopping, listening, backlog, acceptor, queue, live, starts, sockets>>

\* All threads are joined, what is left is cleared.
stop_join_acceptor ==
    /\ owner = "join"
    /\ acceptor.pc = "off"
    /\ owner' = "stopped"
    /\ live' = {} /\ queue' = <<>>
    /\ UNCHANGED <<stopping, listening, backlog, acceptor, worker, starts, sockets>>
stop_join ==
    /\ owner = "join"
    /\ acceptor.pc = "off" /\ \A w \in Workers : worker[w].pc = "off"
    /\ owner' = "stopped"
    /\ live' = {} /\ queue' = <<>>
    /\ UNCHANGED <<stopping, listening, backlog, acceptor, worker, starts, sockets>>
-----------------------------------------------------------------------------
AcceptStep == accept_check \/ accept \/ accept_fails \/ admit \/ notify_one

WorkerStep(w) ==
    \/ worker_wait(w) \/ serve_enter(w) \/ serve_header(w) \/ serve_body(w)
    \/ serve_read_ends(w) \/ serve_handled(w) \/ serve_answer(w) \/ serve_reject(w)
    \/ serve_send_fails(w) \/ serve_leave(w)

StopStep == stop_unlisten \/ stop_cut \/ stop_notify \/ stop_join

ServerNext ==
    /\ ~killed
    /\ \/ AcceptStep \/ StopStep \/ start \/ stop_mark
       \/ \E w \in Workers : WorkerStep(w)
==============================================================================
