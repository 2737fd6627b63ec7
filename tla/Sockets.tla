------------------------------- MODULE Sockets -------------------------------
(***************************************************************************)
(* Stream sockets (src/transport/socket.cpp) carrying frames               *)
(* (src/transport/frame.cpp).                                              *)
(*                                                                         *)
(* A connection has a server end, a client end and one byte stream each    *)
(* way.  A stream is a sequence of pieces: a frame is its header piece     *)
(* followed, when it has a payload, by its body piece; a send that was cut *)
(* short leaves a proper part of a frame.  The checksums make a reader     *)
(* reject every piece it does not expect at that place.                    *)
(***************************************************************************)
EXTENDS Naturals, Sequences, FiniteSets

CONSTANTS
    Conns,   \* connections, made in the order 1, 2, ...
    Posix    \* TRUE: send() on a dead stream raises SIGPIPE; FALSE: it fails

ASSUME SocketsAssumption == Conns \subseteq Nat \ {0} /\ Posix \in BOOLEAN

VARIABLES
    srv,    \* the server end of a connection: "none", "open", "shut", "closed"
    cli,    \* the client end: "none", "open", "closed"
    up,     \* bytes on their way to the server
    down,   \* bytes on their way to the client
    killed  \* SIGPIPE has ended the server process

sockets == <<srv, cli, up, down, killed>>

SocketsInit ==
    /\ srv = [c \in Conns |-> "none"] /\ cli = [c \in Conns |-> "none"]
    /\ up = [c \in Conns |-> <<>>] /\ down = [c \in Conns |-> <<>>]
    /\ killed = FALSE
-----------------------------------------------------------------------------
(* Frames.                                                                 *)

Piece(part, kind, id) == [part |-> part, kind |-> kind, id |-> id]

\* encode_frame: only a Goodbye has no payload.
encode_frame(kind, id) ==
    IF kind = "goodbye" THEN <<Piece("header", kind, id)>>
    ELSE <<Piece("header", kind, id), Piece("body", kind, id)>>

\* What a send that fails part of the way may have put on the stream.
CutFrames(kind, id) == {<<Piece("scrap", "none", 0)>>, <<Piece("header", kind, id)>>}

\* decode_frame_header: magic, checksum, type, length and version hold for a
\* header piece and for nothing else.
decode_frame_header(p) == p.part = "header"

\* decode_frame: the payload has the length and checksum its header declared.
decode_frame(h, p) == p.part = "body" /\ p.id = h.id /\ p.kind = h.kind
-----------------------------------------------------------------------------
(* Sockets.                                                                *)

\* recv_exact at the server: buffered bytes can be read even after the socket
\* was shut down; otherwise end of stream, or an error, ends the read.
ServerCanRead(c) == up[c] # <<>>
ServerReadFails(c) == srv[c] = "shut" \/ (up[c] = <<>> /\ cli[c] # "open")

\* send_all at the server.  A socket that was shut down refuses; a peer that
\* has closed may be noticed or not.
ServerCanSend(c) == srv[c] = "open"
ServerSendFails(c) == srv[c] = "shut" \/ cli[c] # "open"

\* recv_exact and send_all at the client.
ClientCanRead(c) == down[c] # <<>>
ClientReadFails(c) == down[c] = <<>> /\ srv[c] \in {"shut", "closed"}
ClientSendFails(c) == srv[c] \in {"shut", "closed"}
==============================================================================
