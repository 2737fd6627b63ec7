------------------------------ MODULE TcpClient ------------------------------
(***************************************************************************)
(* The blocking request/response client (src/transport/client.cpp) and the *)
(* two ways it is used.  RemoteDrainPort::call (src/drain/remote.cpp)      *)
(* drops the connection when a call fails and makes a new one for the      *)
(* next; RemoteApi::call (apps/common/remote_api.cpp) connects once and    *)
(* keeps its connection.  Request ids count per connection.                *)
(***************************************************************************)
EXTENDS Sockets, FiniteSetsExt

CONSTANTS
    Ports,      \* clients that are RemoteDrainPorts
    Apis,       \* clients that are RemoteApis
    MaxCalls,   \* bound: calls of all clients together
    MaxActive,  \* bound: clients that have a connection or made a call
    Cuts        \* TRUE: a send may be cut short by its timeout

ASSUME ClientAssumption == MaxCalls \in Nat /\ MaxActive \in Nat /\ Cuts \in BOOLEAN /\ Ports \cap Apis = {}

Clients == Ports \cup Apis

VARIABLES
    client,  \* [pc, conn, id, calls] of every client
    result   \* what a client's last call returned: [ok, asked, answer]

clients == <<client, result>>

NoConn == 0
NoResult == [ok |-> FALSE, asked |-> 0, answer |-> 0]

ClientInit ==
    /\ client = [k \in Clients |-> [pc |-> "idle", conn |-> NoConn, id |-> 0, calls |-> 0]]
    /\ result = [k \in Clients |-> NoResult]

Calls == MapThenSumSet(LAMBDA k : client[k].calls, Clients)

Active == {k \in Clients : client[k].conn # NoConn \/ client[k].calls > 0}

\* Connections are numbered as they are made.
Unused == {c \in Conns : cli[c] = "none"}
NextConn == CHOOSE c \in Unused : \A d \in Unused : c <= d

\* TcpClient::connect, to a listener that is open and has room.
connect(k) ==
    /\ client[k].pc = "idle" /\ client[k].conn = NoConn
    /\ Calls < MaxCalls
    /\ k \in Apis => client[k].calls = 0
    /\ Cardinality(Active \cup {k}) <= MaxActive
    /\ Unused # {}
    /\ client' = [client EXCEPT ![k].conn = NextConn, ![k].id = 0]
    /\ cli' = [cli EXCEPT ![NextConn] = "open"]
    /\ UNCHANGED <<srv, up, down, killed, result>>

\* The call of client k fails, when its record is r and rest is still unread on
\* its connection.  A RemoteDrainPort destroys the client of a failed call,
\* which closes the socket; a RemoteApi keeps it.
always_kept(k) == TRUE
kept_after_failure(k) == k \in Apis
fail(k, r, rest) ==
    LET c == r.conn
        keep == kept_after_failure(k)
    IN  /\ client' = [client EXCEPT ![k] = [r EXCEPT !.pc = "idle",
                                                     !.conn = IF keep THEN c ELSE NoConn]]
        /\ cli' = IF keep THEN cli ELSE [cli EXCEPT ![c] = "closed"]
        /\ down' = [down EXCEPT ![c] = IF keep THEN rest ELSE <<>>]
        /\ result' = [result EXCEPT ![k] = NoResult]

\* A call begins: the next id is taken and the request is sent.
call_send(k) ==
    /\ client[k].pc = "idle" /\ client[k].conn # NoConn
    /\ Calls < MaxCalls
    /\ ~ClientSendFails(client[k].conn)
    /\ LET c == client[k].conn
           n == client[k].id + 1
       IN  /\ up' = [up EXCEPT ![c] = @ \o encode_frame("request", n)]
           /\ client' = [client EXCEPT ![k].pc = "header", ![k].id = n, ![k].calls = @ + 1]
    /\ UNCHANGED <<srv, cli, down, killed, result>>

\* The send fails, at once or after a part of the frame was sent.
call_send_fails(k) ==
    /\ client[k].pc = "idle" /\ client[k].conn # NoConn
    /\ Calls < MaxCalls
    /\ LET c == client[k].conn
           n == client[k].id + 1
           ends == fail(k, [client[k] EXCEPT !.id = n, !.calls = @ + 1], down[c])
       IN  \/ ClientSendFails(c) /\ UNCHANGED up /\ ends
           \/ /\ Cuts /\ ~ClientSendFails(c) /\ ends
              /\ \E f \in CutFrames("request", n) : up' = [up EXCEPT ![c] = @ \o f]
    /\ UNCHANGED <<srv, killed>>

\* The header of the answer.  Unless it is a header with the id of the request
\* the call fails, and the body that follows the header stays unread.
any_id(k, h) == decode_frame_header(h)
own_id(k, h) == decode_frame_header(h) /\ h.id = client[k].id
call_header(k) ==
    /\ client[k].pc = "header" /\ ClientCanRead(client[k].conn)
    /\ LET c == client[k].conn
           h == Head(down[c])
       IN  \/ /\ own_id(k, h)
              /\ down' = [down EXCEPT ![c] = Tail(@)]
              /\ client' = [client EXCEPT ![k].pc = "body"]
              /\ UNCHANGED <<cli, result>>
           \/ ~own_id(k, h) /\ fail(k, client[k], Tail(down[c]))
    /\ UNCHANGED <<srv, up, killed>>

\* The body of the answer ends the call.
call_body(k) ==
    /\ client[k].pc = "body" /\ ClientCanRead(client[k].conn)
    /\ LET c == client[k].conn IN
        /\ down' = [down EXCEPT ![c] = Tail(@)]
        /\ client' = [client EXCEPT ![k].pc = "idle"]
        /\ result' = [result EXCEPT ![k] = [ok |-> TRUE, asked |-> client[k].id,
                                            answer |-> Head(down[c]).id]]
    /\ UNCHANGED <<srv, cli, up, killed>>

\* The deadline passes, or the stream ends, before the bytes are there.
call_read_fails(k) ==
    /\ client[k].pc \in {"header", "body"}
    /\ down[client[k].conn] = <<>>
    /\ fail(k, client[k], <<>>)
    /\ UNCHANGED <<srv, up, killed>>

\* TcpClient::close (RemoteDrainPort::disconnect): Goodbye, shutdown, close.
\* Neither user of the client connects without making a call.
close(k) ==
    /\ client[k].pc = "idle" /\ client[k].conn # NoConn
    /\ client[k].id > 0
    /\ LET c == client[k].conn IN
        /\ up' = [up EXCEPT ![c] = IF ClientSendFails(c) THEN @
                                   ELSE @ \o encode_frame("goodbye", client[k].id + 1)]
        /\ cli' = [cli EXCEPT ![c] = "closed"]
        /\ down' = [down EXCEPT ![c] = <<>>]
    /\ client' = [client EXCEPT ![k].conn = NoConn]
    /\ UNCHANGED <<srv, killed, result>>

CallStep(k) ==
    call_send(k) \/ call_send_fails(k) \/ call_header(k) \/ call_body(k)
    \/ call_read_fails(k) \/ close(k)
==============================================================================
