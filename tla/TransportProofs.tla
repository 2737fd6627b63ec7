--------------------------- MODULE TransportProofs ---------------------------
(***************************************************************************)
(* Theorems about the transport: no socket is in two hands, and a call     *)
(* returns the answer to its own request.                                  *)
(*                                                                         *)
(* The argument follows one connection: the backlog, the accept thread,    *)
(* the queue and the workers pass it on, and it never has two holders.     *)
(***************************************************************************)
EXTENDS Transport, FiniteSetTheorems, WellFoundedInduction, TLAPS

Pieces == [part : {"header", "body", "scrap", "none"},
           kind : {"request", "response", "error", "goodbye", "none"}, id : Nat]
Places ==
    {"off", "wait", "asleep", "popped", "read", "body", "handle", "answer", "reject", "leave"}
WorkerRecord ==
    [pc : Places, conn : Conns \cup {None}, head : Pieces]
AcceptorRecord ==
    [pc : {"off", "check", "accept", "admit", "notify"}, conn : Conns \cup {None}]
ClientRecord ==
    [pc : {"idle", "header", "body"}, conn : Conns \cup {NoConn}, id : Nat, calls : Nat]

Types ==
    /\ srv \in [Conns -> {"none", "open", "shut", "closed"}]
    /\ cli \in [Conns -> {"none", "open", "closed"}]
    /\ up \in [Conns -> Seq(Pieces)] /\ down \in [Conns -> Seq(Pieces)]
    /\ backlog \in Seq(Conns) /\ queue \in Seq(Conns)
    /\ acceptor \in AcceptorRecord /\ worker \in [Workers -> WorkerRecord]
    /\ client \in [Clients -> ClientRecord]
    /\ result \in [Clients -> [ok : BOOLEAN, asked : Nat, answer : Nat]]
    /\ owner \in {"stopped", "serving", "unlisten", "cut", "notify", "join"}

\* No connection occurs twice in a sequence.
Distinct(s) == \A i, j \in 1 .. Len(s) : s[i] = s[j] => i = j

\* Whoever has a connection knows it, and nobody else has it.
Held(w) == worker[w].pc \notin {"off", "wait", "asleep"}
Holders ==
    /\ Distinct(queue) /\ Distinct(backlog)
    /\ Elements(queue) \cap Elements(backlog) = {}
    /\ acceptor.conn # None <=> acceptor.pc = "admit"
    /\ acceptor.conn \notin Elements(queue) \cup Elements(backlog)
    /\ \A w \in Workers :
          /\ worker[w].conn # None <=> Held(w)
          /\ worker[w].conn \notin Elements(queue) \cup Elements(backlog)
          /\ Held(w) => worker[w].conn # acceptor.conn
    /\ \A v, w \in Workers : Held(v) /\ worker[v].conn = worker[w].conn => v = w

\* The server end of a connection is open while it is queued or served; a
\* connection that is not made yet is nowhere.
Ends ==
    /\ \A c \in Elements(backlog) : srv[c] = "none" /\ cli[c] # "none"
    /\ \A c \in Elements(queue) : srv[c] = "open"
    /\ acceptor.pc = "admit" => srv[acceptor.conn] = "open"
    /\ \A w \in Workers : Held(w) => srv[worker[w].conn] \in {"open", "shut"}
    /\ \A c \in Conns : cli[c] = "none" => srv[c] = "none" /\ up[c] = <<>> /\ down[c] = <<>>

\* live_ has the connections that are being served.
Listed ==
    live = {worker[w].conn : w \in {v \in Workers : Held(v) /\ worker[v].pc # "popped"}}

\* stop returns only when the threads are gone.
Joined == owner = "stopped" => acceptor.pc = "off" /\ \A w \in Workers : worker[w].pc = "off"

ServerInv == Types /\ Holders /\ Ends /\ Listed /\ Joined
-----------------------------------------------------------------------------
\* A client has its connection for itself.
Owned ==
    /\ \A k \in Clients : client[k].conn # NoConn => cli[client[k].conn] = "open"
    /\ \A k \in Clients : client[k].pc # "idle" => client[k].conn # NoConn
    /\ \A k, l \in Clients : client[k].conn # NoConn /\ client[k].conn = client[l].conn => k = l

\* A header on its way to a client is followed by its body.
Paired(s) ==
    \A i \in 1 .. Len(s) :
        s[i].part = "header" => i < Len(s) /\ s[i + 1].part = "body" /\ s[i + 1].id = s[i].id

\* A client that has read the header of its answer has the body before it.
Answering ==
    /\ \A c \in Conns : Paired(down[c])
    /\ \A k \in Clients : client[k].pc = "body" =>
          LET s == down[client[k].conn] IN s # <<>> /\ s[1].id = client[k].id

ClientInv == Owned /\ Answering /\ OwnAnswer
-----------------------------------------------------------------------------
(* Sequences of connections.                                               *)

LEMMA ElementsAppend ==
    ASSUME NEW S, NEW s \in Seq(S), NEW x \in S
    PROVE  /\ Append(s, x) \in Seq(S) /\ Elements(Append(s, x)) = Elements(s) \cup {x}
           /\ Distinct(s) /\ x \notin Elements(s) => Distinct(Append(s, x))
<1> DEFINE a == Append(s, x)
<1>1. /\ a \in Seq(S) /\ Len(s) \in Nat /\ Len(a) = Len(s) + 1 /\ a[Len(s) + 1] = x
      /\ \A i \in 1 .. Len(s) : a[i] = s[i]
  OBVIOUS
<1> HIDE DEF a
<1>2. Elements(a) = Elements(s) \cup {x}
  <2>1. \A i \in 1 .. Len(a) : i \in 1 .. Len(s) \/ i = Len(s) + 1
    BY <1>1
  <2>2. \A i \in 1 .. Len(s) : i \in 1 .. Len(a)
    BY <1>1
  <2>3. Len(s) + 1 \in 1 .. Len(a)
    BY <1>1
  <2>4. QED
    BY <1>1, <2>1, <2>2, <2>3 DEF Elements
<1>3. Distinct(s) /\ x \notin Elements(s) => Distinct(a)
  BY <1>1 DEF Distinct, Elements
<1>4. QED
  BY <1>1, <1>2, <1>3 DEF a

LEMMA ElementsTail ==
    ASSUME NEW S, NEW s \in Seq(S), s # <<>>, Distinct(s)
    PROVE  /\ Tail(s) \in Seq(S) /\ Head(s) \in S /\ Head(s) \in Elements(s)
           /\ Elements(Tail(s)) = Elements(s) \ {Head(s)} /\ Distinct(Tail(s))
<1> DEFINE q == Tail(s)
<1>1. /\ q \in Seq(S) /\ Len(s) \in Nat \ {0} /\ Len(q) = Len(s) - 1 /\ Head(s) = s[1] /\ s[1] \in S
      /\ \A i \in 1 .. Len(q) : q[i] = s[i + 1]
  OBVIOUS
<1> HIDE DEF q
<1>2. Elements(q) = Elements(s) \ {Head(s)}
  <2>1. \A i \in 1 .. Len(q) : i + 1 \in 1 .. Len(s) /\ i + 1 # 1
    BY <1>1
  <2>2. 1 \in 1 .. Len(s)
    BY <1>1
  <2>3. \A i \in 1 .. Len(s) : i # 1 => i - 1 \in 1 .. Len(q) /\ (i - 1) + 1 = i
    BY <1>1
  <2>4. Elements(q) \subseteq Elements(s) \ {Head(s)}
    BY <1>1, <2>1, <2>2 DEF Elements, Distinct
  <2>5. ASSUME NEW c \in Elements(s), c # Head(s) PROVE c \in Elements(q)
    <3>1. PICK i \in 1 .. Len(s) : s[i] = c
      BY <2>5 DEF Elements
    <3>2. i - 1 \in 1 .. Len(q) /\ q[i - 1] = c
      BY <1>1, <2>3, <2>5, <3>1
    <3>3. QED
      BY <3>2 DEF Elements
  <2>6. QED
    BY <2>4, <2>5
<1>3. Distinct(q)
  <2>1. SUFFICES ASSUME NEW i \in 1 .. Len(q), NEW j \in 1 .. Len(q), q[i] = q[j] PROVE i = j
    BY DEF Distinct
  <2>2. i + 1 \in 1 .. Len(s) /\ j + 1 \in 1 .. Len(s) /\ s[i + 1] = s[j + 1]
    BY <1>1, <2>1
  <2>3. i + 1 = j + 1
    BY <2>2 DEF Distinct
  <2>4. QED
    BY <1>1, <2>3
<1>4. Head(s) \in Elements(s)
  BY <1>1 DEF Elements
<1>5. QED
  BY <1>1, <1>2, <1>3, <1>4 DEF q

LEMMA ElementsEmpty == Elements(<<>>) = {} /\ Distinct(<<>>)
BY DEF Elements, Distinct

LEMMA ElementsIn ==
    ASSUME NEW S, NEW s \in Seq(S)
    PROVE  Elements(s) \subseteq S
BY DEF Elements

\* A set of naturals that is not empty has a least element.
LEMMA LeastNat ==
    ASSUME NEW T, T \subseteq Nat, T # {}
    PROVE  \E x \in T : \A y \in T : x <= y
<1>1. PICK x \in T : \A y \in T : <<y, x>> \notin OpToRel(<, Nat)
  BY NatLessThanWellFounded, WFMin, Zenon
<1>2. x \in T /\ \A y \in T : ~(y < x)
  BY <1>1, Zenon DEF OpToRel
<1>3. QED
  BY <1>2
-----------------------------------------------------------------------------
(* The holders of a connection.                                            *)

LEMMA RecordTypes ==
    /\ NoPiece \in Pieces /\ Off \in WorkerRecord /\ Waiting \in WorkerRecord
    /\ Off.conn = None /\ Off.pc = "off" /\ Waiting.conn = None /\ Waiting.pc = "wait"
    /\ None \notin Conns
BY SocketsAssumption DEF NoPiece, Piece, Pieces, Off, Waiting, WorkerRecord, None, Places

LEMMA QueuedConns ==
    ASSUME ServerInv
    PROVE  /\ Elements(queue) \subseteq Conns /\ Elements(backlog) \subseteq Conns
           /\ None \notin Elements(queue) \cup Elements(backlog)
BY ElementsIn, RecordTypes DEF ServerInv, Types

LEMMA HeldConns ==
    ASSUME ServerInv
    PROVE  \A w \in Workers : Held(w) => worker[w].conn \in Conns
<1>1. \A w \in Workers : worker[w].conn \in Conns \cup {None}
  BY Zenon DEF ServerInv, Types, WorkerRecord
<1>2. \A w \in Workers : worker[w].conn # None <=> Held(w)
  BY Zenon DEF ServerInv, Holders
<1>3. QED
  BY <1>1, <1>2, Zenon

\* What serving does: worker w, at connection c, goes on with record r; only the
\* streams of c change.
Serves(w, r) ==
    /\ Held(w) /\ worker[w].pc # "popped"
    /\ r \in WorkerRecord /\ r.conn = worker[w].conn /\ worker' = [worker EXCEPT ![w] = r]
    /\ r.pc \in {"read", "body", "handle", "answer", "reject", "leave"}
    /\ UNCHANGED <<backlog, acceptor, queue, live, owner, srv, cli>>
    /\ up' \in [Conns -> Seq(Pieces)] /\ down' \in [Conns -> Seq(Pieces)]
    /\ \A d \in Conns \ {worker[w].conn} : up'[d] = up[d] /\ down'[d] = down[d]

\* A worker goes on with the connection it serves.
LEMMA ServeKeeps ==
    ASSUME ServerInv, NEW w \in Workers, NEW r, Serves(w, r), UNCHANGED <<client, result>>
    PROVE  ServerInv'
<1>1. worker \in [Workers -> WorkerRecord]
  BY DEF ServerInv, Types
<1>2. worker'[w] = r /\ (\A v \in Workers \ {w} : worker'[v] = worker[v]) /\ Types'
  BY <1>1 DEF ServerInv, Types, Serves
<1>3. \A v \in Workers : worker'[v].conn = worker[v].conn /\ (Held(v)' <=> Held(v))
  BY <1>2 DEF Held, Serves
<1>4. Holders'
  BY <1>3 DEF ServerInv, Holders, Serves
<1>5. Ends'
  <2>1. srv[worker[w].conn] # "none"
    BY Zenon DEF ServerInv, Ends, Serves
  <2>2. QED
    BY <1>3, <2>1, ZenonT(40) DEF ServerInv, Ends, Serves
<1>6. Listed'
  BY <1>2, <1>3 DEF ServerInv, Listed, Serves
<1>7. Joined'
  BY DEF ServerInv, Joined, Held, Serves
<1>8. QED
  BY <1>2, <1>4, <1>5, <1>6, <1>7 DEF ServerInv

\* The header or the body is taken from the stream.
LEMMA ReadServes ==
    ASSUME ServerInv, NEW w \in Workers, serve_header(w) \/ serve_body(w)
    PROVE  \E r : /\ Serves(w, r)
                  /\ up[worker[w].conn] # <<>> /\ up'[worker[w].conn] = Tail(up[worker[w].conn])
                  /\ UNCHANGED down
                  /\ \/ /\ worker[w].pc = "read" /\ r.head = Head(up[worker[w].conn])
                        /\ r.pc = IF r.head.part # "header" THEN "reject"
                                  ELSE IF r.head.kind = "goodbye" THEN "handle" ELSE "body"
                     \/ /\ worker[w].pc = "body"
                        /\ IF decode_frame(worker[w].head, Head(up[worker[w].conn]))
                           THEN r.pc = "handle" /\ r.head = worker[w].head
                           ELSE r.pc = "leave"
<1> DEFINE c == worker[w].conn
           h == Head(up[c])
<1>1. Held(w) /\ worker[w].pc # "popped" /\ c \in Conns /\ up[c] # <<>>
  <2>1. Held(w) /\ worker[w].pc # "popped" /\ up[c] # <<>>
    BY DEF serve_header, serve_body, Held, ServerCanRead
  <2>2. QED
    BY <2>1 DEF ServerInv, Holders, Types, WorkerRecord
<1>2. up \in [Conns -> Seq(Pieces)] /\ h \in Pieces /\ Tail(up[c]) \in Seq(Pieces) /\ down \in [Conns -> Seq(Pieces)]
  BY <1>1 DEF ServerInv, Types
<1>3. NoPiece \in Pieces /\ worker[w].head \in Pieces
  BY RecordTypes, ZenonT(40) DEF ServerInv, Types, WorkerRecord
<1>4. PICK pc \in {"reject", "handle", "body", "leave"}, g \in Pieces :
         /\ Consume(w, pc, g)
         /\ \/ /\ worker[w].pc = "read" /\ g = h
               /\ pc = IF g.part # "header" THEN "reject"
                       ELSE IF g.kind = "goodbye" THEN "handle" ELSE "body"
            \/ /\ worker[w].pc = "body"
               /\ IF decode_frame(worker[w].head, h)
                  THEN pc = "handle" /\ g = worker[w].head
                  ELSE pc = "leave"
  <2>1. CASE serve_header(w)
    <3> DEFINE p == IF h.part # "header" THEN "reject"
                    ELSE IF h.kind = "goodbye" THEN "handle" ELSE "body"
    <3>1. Consume(w, p, h) /\ worker[w].pc = "read"
      BY <2>1, Zenon DEF serve_header, decode_frame_header
    <3>2. p \in {"reject", "handle", "body", "leave"}
      BY Zenon
    <3>3. QED
      BY <1>2, <3>1, <3>2, Zenon
  <2>2. CASE serve_body(w)
    <3> DEFINE whole == decode_frame(worker[w].head, h)
               p == IF whole THEN "handle" ELSE "leave"
               g == IF whole THEN worker[w].head ELSE NoPiece
    <3>1. Consume(w, p, g) /\ worker[w].pc = "body"
      BY <2>2, Zenon DEF serve_body
    <3>2. /\ p \in {"reject", "handle", "body", "leave"} /\ g \in Pieces
          /\ IF whole THEN p = "handle" /\ g = worker[w].head ELSE p = "leave"
      BY <1>3, Zenon
    <3> HIDE DEF p, g
    <3>3. QED
      BY <3>1, <3>2, Zenon
  <2>3. QED
    BY <2>1, <2>2, Zenon
<1> DEFINE r == [worker[w] EXCEPT !.pc = pc, !.head = g]
<1>5. /\ r \in WorkerRecord /\ r.conn = c /\ r.pc = pc /\ r.head = g
      /\ worker' = [worker EXCEPT ![w] = r]
  <2>0. r = [worker[w] EXCEPT !.pc = pc, !.head = g]
    OBVIOUS
  <2> HIDE DEF r
  <2>1. worker' = [worker EXCEPT ![w].pc = pc, ![w].head = g] /\ Types
    BY <1>4 DEF Consume, ServerInv
  <2>2. g \in Pieces /\ pc \in Places
    BY DEF Places
  <2>3. worker \in [Workers -> WorkerRecord] /\ worker[w] \in WorkerRecord
    BY <2>1 DEF Types
  <2>4. worker' = [worker EXCEPT ![w] = r]
    BY <2>0, <2>1, <2>3, Zenon
  <2>5. r \in WorkerRecord /\ r.conn = c /\ r.pc = pc /\ r.head = g
    BY <2>0, <2>2, <2>3, Zenon DEF WorkerRecord
  <2>6. QED
    BY <2>4, <2>5
<1> HIDE DEF r
<1>6. /\ up' = [up EXCEPT ![c] = Tail(up[c])]
      /\ UNCHANGED <<backlog, acceptor, queue, live, owner, srv, cli, down>>
  BY <1>4 DEF Consume
<1>7. up' \in [Conns -> Seq(Pieces)] /\ up'[c] = Tail(up[c]) /\ \A d \in Conns \ {c} : up'[d] = up[d]
  BY <1>1, <1>2, <1>6
<1>8. Serves(w, r)
  BY <1>1, <1>2, <1>4, <1>5, <1>6, <1>7, Zenon DEF Serves
<1>9. QED
  BY <1>1, <1>4, <1>5, <1>6, <1>7, <1>8, SMTT(30)

\* A read ends early, the handler returns, or the answer is sent or fails.
LEMMA AnswerServes ==
    ASSUME ServerInv, NEW w \in Workers,
           \/ serve_read_ends(w) \/ serve_handled(w) \/ serve_answer(w) \/ serve_reject(w)
           \/ serve_send_fails(w)
    PROVE  LET c == worker[w].conn
           IN  \E r : /\ Serves(w, r) /\ UNCHANGED up
                      /\ \/ /\ worker[w].pc \in {"read", "body", "answer", "reject"}
                            /\ r.pc = "leave" /\ UNCHANGED down
                         \/ /\ worker[w].pc = "handle" /\ r.pc = "answer" /\ r.head = worker[w].head
                            /\ UNCHANGED down
                         \/ /\ down'[c] = IF cli[c] = "open"
                                          THEN down[c] \o encode_frame("response", worker[w].head.id)
                                          ELSE down[c]
                            /\ worker[w].pc = "answer"
                            /\ r.pc = IF worker[w].head.kind = "goodbye" THEN "leave" ELSE "read"
                         \/ /\ down'[c] = IF cli[c] = "open"
                                          THEN down[c] \o encode_frame("error", 0) ELSE down[c]
                            /\ worker[w].pc = "reject" /\ r.pc = "leave"
<1> DEFINE c == worker[w].conn
<1>1. Held(w) /\ worker[w].pc # "popped" /\ c \in Conns
  <2>1. Held(w) /\ worker[w].pc # "popped"
    BY DEF serve_read_ends, serve_handled, serve_answer, serve_reject, serve_send_fails, Held
  <2>2. QED
    BY <2>1 DEF ServerInv, Holders, Types, WorkerRecord
<1>2. /\ up \in [Conns -> Seq(Pieces)] /\ down \in [Conns -> Seq(Pieces)] /\ NoPiece \in Pieces
      /\ worker[w].head \in Pieces /\ worker[w].head.id \in Nat
  BY RecordTypes DEF ServerInv, Types, WorkerRecord, Pieces
<1>3. CASE serve_read_ends(w) \/ serve_send_fails(w)
  <2> DEFINE r == [worker[w] EXCEPT !.pc = "leave", !.head = NoPiece]
  <2>1. r \in WorkerRecord /\ r.conn = c /\ r.pc = "leave" /\ worker' = [worker EXCEPT ![w] = r]
    <3>0. r = [worker[w] EXCEPT !.pc = "leave", !.head = NoPiece]
      OBVIOUS
    <3> HIDE DEF r
    <3>1. worker' = [worker EXCEPT ![w].pc = "leave", ![w].head = NoPiece] /\ Types
      BY <1>3 DEF serve_read_ends, serve_send_fails, ServerInv
    <3>2. "leave" \in Places
      BY DEF Places
    <3>3. worker \in [Workers -> WorkerRecord] /\ worker[w] \in WorkerRecord
      BY <3>1 DEF Types
    <3>4. worker' = [worker EXCEPT ![w] = r]
      BY <3>0, <3>1, <3>3, Zenon
    <3>5. r \in WorkerRecord /\ r.conn = c /\ r.pc = "leave"
      BY <3>0, <3>2, <3>3, <1>2, Zenon DEF WorkerRecord
    <3>6. QED
      BY <3>4, <3>5
  <2> HIDE DEF r
  <2>2. /\ UNCHANGED <<backlog, acceptor, queue, live, owner, srv, cli, up, down>>
        /\ worker[w].pc \in {"read", "body", "answer", "reject"}
    BY <1>3 DEF serve_read_ends, serve_send_fails, sockets
  <2>3. Serves(w, r)
    BY <1>1, <1>2, <2>1, <2>2 DEF Serves
  <2>4. QED
    BY <2>1, <2>2, <2>3
<1>4. CASE serve_handled(w)
  <2> DEFINE r == [worker[w] EXCEPT !.pc = "answer"]
  <2>1. /\ r \in WorkerRecord /\ r.conn = c /\ r.pc = "answer" /\ r.head = worker[w].head
        /\ worker' = [worker EXCEPT ![w] = r]
    <3>0. r = [worker[w] EXCEPT !.pc = "answer"]
      OBVIOUS
    <3> HIDE DEF r
    <3>1. worker' = [worker EXCEPT ![w].pc = "answer"] /\ Types
      BY <1>4 DEF serve_handled, ServerInv
    <3>2. "answer" \in Places
      BY DEF Places
    <3>3. worker \in [Workers -> WorkerRecord] /\ worker[w] \in WorkerRecord
      BY <3>1 DEF Types
    <3>4. worker' = [worker EXCEPT ![w] = r]
      BY <3>0, <3>1, <3>3
    <3>5. r \in WorkerRecord /\ r.conn = c /\ r.pc = "answer" /\ r.head = worker[w].head
      BY <3>0, <3>2, <3>3 DEF WorkerRecord
    <3>6. QED
      BY <3>4, <3>5
  <2> HIDE DEF r
  <2>2. /\ UNCHANGED <<backlog, acceptor, queue, live, owner, srv, cli, up, down>>
        /\ worker[w].pc = "handle"
    BY <1>4 DEF serve_handled, sockets
  <2>3. Serves(w, r)
    BY <1>1, <1>2, <2>1, <2>2 DEF Serves
  <2>4. QED
    BY <2>1, <2>2, <2>3
<1>5. ASSUME NEW kind \in {"response", "error"}, NEW id \in Nat, NEW pc \in {"leave", "read"},
             Send(w, kind, id, pc)
      PROVE  \E r : /\ Serves(w, r) /\ UNCHANGED up /\ r.pc = pc
                    /\ down'[c] = IF cli[c] = "open" THEN down[c] \o encode_frame(kind, id) ELSE down[c]
  <2> DEFINE r == [worker[w] EXCEPT !.pc = pc, !.head = NoPiece]
             s == IF cli[c] = "open" THEN down[c] \o encode_frame(kind, id) ELSE down[c]
  <2>1. r \in WorkerRecord /\ r.conn = c /\ r.pc = pc /\ worker' = [worker EXCEPT ![w] = r]
    <3>0. r = [worker[w] EXCEPT !.pc = pc, !.head = NoPiece]
      OBVIOUS
    <3> HIDE DEF r
    <3>1. worker' = [worker EXCEPT ![w].pc = pc, ![w].head = NoPiece] /\ Types
      BY <1>5 DEF Send, ServerInv
    <3>2. pc \in Places
      BY DEF Places
    <3>3. worker \in [Workers -> WorkerRecord] /\ worker[w] \in WorkerRecord
      BY <3>1 DEF Types
    <3>4. worker' = [worker EXCEPT ![w] = r]
      BY <3>0, <3>1, <3>3, Zenon
    <3>5. r \in WorkerRecord /\ r.conn = c /\ r.pc = pc
      BY <3>0, <3>2, <3>3, <1>2, Zenon DEF WorkerRecord
    <3>6. QED
      BY <3>4, <3>5
  <2> HIDE DEF r
  <2>2. /\ UNCHANGED <<backlog, acceptor, queue, live, owner, srv, cli, up>>
        /\ down' = [down EXCEPT ![c] = s]
    BY <1>5 DEF Send
  <2>3. encode_frame(kind, id) \in Seq(Pieces)
    <3>1. kind # "goodbye" /\ Piece("header", kind, id) \in Pieces /\ Piece("body", kind, id) \in Pieces
      BY DEF Piece, Pieces
    <3>2. QED
      BY <3>1 DEF encode_frame
  <2>4. s \in Seq(Pieces)
    BY <1>1, <1>2, <2>3
  <2> HIDE DEF s
  <2>5. down' \in [Conns -> Seq(Pieces)] /\ down'[c] = s /\ \A d \in Conns \ {c} : down'[d] = down[d]
    BY <1>1, <1>2, <2>2, <2>4
  <2>6. Serves(w, r)
    BY <1>1, <1>2, <1>5, <2>1, <2>2, <2>5, Zenon DEF Serves
  <2>7. QED
    BY <2>1, <2>2, <2>5, <2>6, Zenon DEF s
<1>6. CASE serve_answer(w)
  <2> DEFINE pc == IF worker[w].head.kind = "goodbye" THEN "leave" ELSE "read"
  <2>1. worker[w].pc = "answer" /\ Send(w, "response", worker[w].head.id, pc) /\ pc \in {"leave", "read"}
    BY <1>6 DEF serve_answer
  <2> HIDE DEF pc
  <2>2. PICK r : /\ Serves(w, r) /\ UNCHANGED up /\ r.pc = pc
                 /\ down'[c] = IF cli[c] = "open"
                               THEN down[c] \o encode_frame("response", worker[w].head.id) ELSE down[c]
    BY <1>2, <1>5, <2>1, SMTT(30)
  <2>3. QED
    BY <2>1, <2>2 DEF pc
<1>7. CASE serve_reject(w)
  <2>1. worker[w].pc = "reject" /\ Send(w, "error", 0, "leave")
    BY <1>7 DEF serve_reject
  <2>2. PICK r : /\ Serves(w, r) /\ UNCHANGED up /\ r.pc = "leave"
                 /\ down'[c] = IF cli[c] = "open" THEN down[c] \o encode_frame("error", 0) ELSE down[c]
    BY <1>5, <2>1
  <2>3. QED
    BY <2>1, <2>2, Zenon
<1>8. QED
  BY <1>3, <1>4, <1>6, <1>7, Zenon

\* A worker takes a connection from the queue, goes to sleep or ends.
LEMMA WaitKeeps ==
    ASSUME ServerInv, NEW w \in Workers, worker_wait(w), UNCHANGED clients
    PROVE  ServerInv'
<1>1. /\ worker \in [Workers -> WorkerRecord] /\ worker[w] \in WorkerRecord /\ worker[w].pc = "wait"
      /\ ~Held(w) /\ worker[w].conn = None /\ queue \in Seq(Conns) /\ Distinct(queue)
      /\ UNCHANGED <<backlog, acceptor, live, owner, srv, cli, up, down, client, result>>
  BY DEF ServerInv, Types, Holders, Held, worker_wait, sockets, clients
<1>2. CASE queue # <<>>
  <2> DEFINE c == Head(queue)
             r == [pc |-> "popped", conn |-> c, head |-> NoPiece]
  <2>1. /\ queue' \in Seq(Conns) /\ c \in Conns /\ c \in Elements(queue)
        /\ Elements(queue') = Elements(queue) \ {c} /\ Distinct(queue')
    <3>1. queue' = Tail(queue)
      BY <1>2 DEF worker_wait
    <3>2. QED
      BY <1>1, <1>2, <3>1, ElementsTail
  <2>2. r \in WorkerRecord /\ r.pc = "popped" /\ r.conn = c /\ worker' = [worker EXCEPT ![w] = r]
    BY <1>2, <2>1, RecordTypes DEF worker_wait, WorkerRecord, Places
  <2> HIDE DEF r, c
  <2>3. /\ worker'[w] = r /\ (\A v \in Workers \ {w} : worker'[v] = worker[v])
        /\ worker' \in [Workers -> WorkerRecord]
    BY <1>1, <2>2
  <2>4. Held(w)' /\ \A v \in Workers \ {w} : Held(v)' <=> Held(v)
    BY <2>2, <2>3 DEF Held
  <2>5. Types'
    BY <1>1, <2>1, <2>3, Zenon DEF ServerInv, Types
  <2>6. Holders'
    <3>1. \A v \in Workers \ {w} : worker'[v].conn # c
      BY <2>1, <2>3 DEF ServerInv, Holders
    <3>2. c # None /\ c \notin Elements(backlog) /\ c # acceptor.conn
      BY <2>1, RecordTypes DEF ServerInv, Holders
    <3>3. QED
      <4>1. /\ Distinct(queue') /\ Distinct(backlog') /\ Elements(queue') \cap Elements(backlog') = {}
            /\ acceptor'.conn # None <=> acceptor'.pc = "admit"
            /\ acceptor'.conn \notin Elements(queue') \cup Elements(backlog')
        BY <1>1, <2>1, Zenon DEF ServerInv, Holders
      <4>2. \A v \in Workers :
               /\ worker'[v].conn # None <=> Held(v)'
               /\ worker'[v].conn \notin Elements(queue') \cup Elements(backlog')
               /\ Held(v)' => worker'[v].conn # acceptor'.conn
        BY <1>1, <2>1, <2>2, <2>3, <2>4, <3>2, ZenonT(40) DEF ServerInv, Holders
      <4>3. \A u, v \in Workers : Held(u)' /\ worker'[u].conn = worker'[v].conn => u = v
        BY <2>2, <2>3, <2>4, <3>1, ZenonT(40) DEF ServerInv, Holders
      <4>4. QED
        BY <4>1, <4>2, <4>3, Zenon DEF Holders
  <2>7. Ends'
    <3>1. srv[c] = "open"
      BY <2>1 DEF ServerInv, Ends
    <3>2. \A v \in Workers : Held(v)' => srv[worker'[v].conn] \in {"open", "shut"}
      BY <2>2, <2>3, <2>4, <3>1 DEF ServerInv, Ends
    <3>3. QED
      BY <1>1, <2>1, <3>2 DEF ServerInv, Ends
  <2>8. Listed'
    <3>1. \A v \in Workers : (Held(v)' /\ worker'[v].pc # "popped") <=> (Held(v) /\ worker[v].pc # "popped")
      BY <1>1, <2>2, <2>3, <2>4
    <3>2. \A v \in Workers : Held(v) => worker'[v].conn = worker[v].conn
      BY <1>1, <2>3
    <3>3. QED
      BY <1>1, <3>1, <3>2 DEF ServerInv, Listed
  <2>9. Joined'
    BY <1>1 DEF ServerInv, Joined
  <2>10. QED
    BY <2>5, <2>6, <2>7, <2>8, <2>9 DEF ServerInv
<1>3. CASE queue = <<>>
  <2> DEFINE pc == IF stopping THEN "off" ELSE "asleep"
             r == [worker[w] EXCEPT !.pc = pc]
  <2>1. r \in WorkerRecord /\ r.pc = pc /\ r.conn = None
    BY <1>1 DEF WorkerRecord, Places
  <2>2. worker' = [worker EXCEPT ![w] = r] /\ UNCHANGED queue
    BY <1>1, <1>3 DEF worker_wait
  <2>3. pc \in {"off", "asleep"}
    OBVIOUS
  <2> HIDE DEF r, pc
  <2>4. /\ worker'[w] = r /\ (\A v \in Workers \ {w} : worker'[v] = worker[v]) /\ Types'
    BY <1>1, <2>1, <2>2 DEF ServerInv, Types
  <2>5. \A v \in Workers : worker'[v].conn = worker[v].conn /\ (Held(v)' <=> Held(v))
    BY <1>1, <2>1, <2>3, <2>4, ZenonT(40) DEF Held
  <2>6. Holders' /\ Ends'
    BY <1>1, <2>2, <2>5, SMTT(30) DEF ServerInv, Holders, Ends
  <2>7. Listed'
    BY <1>1, <2>4, <2>5, ZenonT(40) DEF ServerInv, Listed
  <2>8. Joined'
    BY <1>1 DEF ServerInv, Joined
  <2>9. QED
    BY <2>4, <2>6, <2>7, <2>8 DEF ServerInv
<1>4. QED
  BY <1>2, <1>3

LEMMA EnterKeeps ==
    ASSUME ServerInv, NEW w \in Workers, serve_enter(w), UNCHANGED clients
    PROVE  ServerInv'
<1> DEFINE r == [worker[w] EXCEPT !.pc = "read"]
<1>1. /\ worker \in [Workers -> WorkerRecord] /\ worker[w] \in WorkerRecord /\ worker[w].pc = "popped"
      /\ Held(w) /\ live' = live \cup {worker[w].conn}
      /\ UNCHANGED <<backlog, acceptor, queue, owner, srv, cli, up, down, client, result>>
  BY DEF ServerInv, Types, Held, serve_enter, sockets, clients
<1>2. r \in WorkerRecord /\ r.pc = "read" /\ r.conn = worker[w].conn
  BY <1>1 DEF WorkerRecord, Places
<1>3. worker' = [worker EXCEPT ![w] = r]
  BY <1>1 DEF serve_enter
<1> HIDE DEF r
<1>4. worker'[w] = r /\ (\A v \in Workers \ {w} : worker'[v] = worker[v]) /\ Types'
  BY <1>1, <1>2, <1>3 DEF ServerInv, Types
<1>5. \A v \in Workers : worker'[v].conn = worker[v].conn /\ (Held(v)' <=> Held(v))
  <2>1. Held(w)' /\ worker'[w].conn = worker[w].conn
    BY <1>1, <1>2, <1>4, Zenon DEF Held
  <2>2. \A v \in Workers \ {w} : worker'[v].conn = worker[v].conn /\ (Held(v)' <=> Held(v))
    BY <1>4, Zenon DEF Held
  <2>3. QED
    BY <1>1, <2>1, <2>2, Zenon
<1>6. Holders' /\ Ends'
  <2>1. Holders'
    BY <1>1, <1>5, ZenonT(40) DEF ServerInv, Holders
  <2>2. Ends'
    BY <1>1, <1>5, ZenonT(40) DEF ServerInv, Ends
  <2>3. QED
    BY <2>1, <2>2, Zenon
<1>7. Listed'
  <2>1. /\ \A v \in Workers \ {w} : worker'[v] = worker[v]
        /\ worker'[w].pc # "popped" /\ Held(w)' /\ worker'[w].conn = worker[w].conn
    BY <1>1, <1>2, <1>4, <1>5, Zenon
  <2>2. live = {worker[v].conn : v \in {u \in Workers : Held(u) /\ worker[u].pc # "popped"}}
    BY Zenon DEF ServerInv, Listed
  <2>3. QED
    BY <1>1, <1>5, <2>1, <2>2 DEF Listed
<1>8. Joined'
  BY <1>1, Zenon DEF ServerInv, Joined
<1>9. QED
  BY <1>4, <1>6, <1>7, <1>8 DEF ServerInv

LEMMA LeaveKeeps ==
    ASSUME ServerInv, NEW w \in Workers, serve_leave(w), UNCHANGED clients
    PROVE  ServerInv'
<1> DEFINE c == worker[w].conn
<1>1. /\ worker \in [Workers -> WorkerRecord] /\ worker[w].pc = "leave" /\ Held(w) /\ c \in Conns
      /\ worker' = [worker EXCEPT ![w] = Waiting] /\ live' = live \ {c} /\ Close({c})
      /\ UNCHANGED <<backlog, acceptor, queue, owner, cli, down, client, result>>
  BY Zenon DEF ServerInv, Types, WorkerRecord, Holders, Held, serve_leave, clients
<1>2. /\ worker'[w] = Waiting /\ (\A v \in Workers \ {w} : worker'[v] = worker[v])
      /\ worker' \in [Workers -> WorkerRecord]
  BY <1>1, RecordTypes
<1>3. /\ srv' = [d \in Conns |-> IF d \in {c} THEN "closed" ELSE srv[d]]
      /\ up' = [d \in Conns |-> IF d \in {c} THEN <<>> ELSE up[d]]
  BY <1>1 DEF Close
<1>4. /\ srv'[c] = "closed" /\ up'[c] = <<>> /\ \A d \in Conns \ {c} : srv'[d] = srv[d] /\ up'[d] = up[d]
  BY <1>1, <1>3
<1>5. Types'
  BY <1>1, <1>2, <1>3 DEF ServerInv, Types
<1>6. ~Held(w)' /\ worker'[w].conn = None /\ \A v \in Workers \ {w} : Held(v)' <=> Held(v)
  BY <1>2, RecordTypes DEF Held
<1>7. /\ \A v \in Workers \ {w} : Held(v) => worker[v].conn # c
      /\ c \notin Elements(queue) \cup Elements(backlog) /\ c # acceptor.conn
      /\ None \notin Elements(queue) \cup Elements(backlog)
  BY <1>1, QueuedConns, Zenon DEF ServerInv, Holders
<1>8. Holders'
  BY <1>1, <1>2, <1>6, <1>7, ZenonT(40) DEF ServerInv, Holders
<1>9. Ends'
  <2>1. cli[c] # "none"
    BY <1>1, SMTT(30) DEF ServerInv, Ends
  <2>2. \A x \in Elements(queue) \cup Elements(backlog) : x \in Conns \ {c}
    BY <1>7, QueuedConns, Zenon
  <2>3. \A v \in Workers : Held(v)' => worker'[v] = worker[v] /\ Held(v) /\ worker[v].conn \in Conns \ {c}
    BY <1>2, <1>6, <1>7, HeldConns, Zenon
  <2>4. acceptor.pc = "admit" => acceptor.conn \in Conns \ {c}
    BY <1>7, SMTT(30) DEF ServerInv, Types, AcceptorRecord, Holders
  <2>5. QED
    <3>1. /\ \A x \in Elements(backlog') : srv'[x] = "none" /\ cli'[x] # "none"
          /\ \A x \in Elements(queue') : srv'[x] = "open"
      BY <1>1, <1>4, <2>2, ZenonT(40) DEF ServerInv, Ends
    <3>2. acceptor'.pc = "admit" => srv'[acceptor'.conn] = "open"
      BY <1>1, <1>4, <2>4, Zenon DEF ServerInv, Ends
    <3>3. \A v \in Workers : Held(v)' => srv'[worker'[v].conn] \in {"open", "shut"}
      <4>1. \A v \in Workers : Held(v) => srv[worker[v].conn] \in {"open", "shut"}
        BY Zenon DEF ServerInv, Ends
      <4>2. QED
        BY <1>4, <2>3, <4>1
    <3>4. \A d \in Conns : cli'[d] = "none" => srv'[d] = "none" /\ up'[d] = <<>> /\ down'[d] = <<>>
      BY <1>1, <1>4, <2>1, ZenonT(40) DEF ServerInv, Ends
    <3>5. QED
      BY <3>1, <3>2, <3>3, <3>4, Zenon DEF Ends
<1>10. Listed'
  BY <1>1, <1>2, <1>6, <1>7, ZenonT(40) DEF ServerInv, Listed
<1>11. Joined'
  BY <1>1 DEF ServerInv, Joined
<1>12. QED
  BY <1>5, <1>8, <1>9, <1>10, <1>11 DEF ServerInv
-----------------------------------------------------------------------------
(* The accept thread and the owner.                                        *)

\* The accept thread goes on without a connection, or takes one.
LEMMA AcceptorKeeps ==
    ASSUME ServerInv, UNCHANGED clients, accept_check \/ accept_fails \/ notify_one
    PROVE  ServerInv'
<1>1. /\ acceptor \in AcceptorRecord /\ acceptor.conn = None /\ worker \in [Workers -> WorkerRecord]
      /\ acceptor.pc \in {"check", "accept", "notify"}
      /\ UNCHANGED <<backlog, queue, live, owner, srv, cli, up, down, client, result>>
  BY DEF ServerInv, Types, Holders, accept_check, accept_fails, notify_one, sockets, clients
<1>2. acceptor' \in AcceptorRecord /\ acceptor'.conn = None /\ acceptor'.pc # "admit"
  BY <1>1 DEF AcceptorRecord, accept_check, accept_fails, notify_one
<1>3. \A w \in Workers : worker'[w] = worker[w] \/ (worker[w].pc = "asleep" /\ worker'[w] = Waiting)
  BY <1>1 DEF accept_check, accept_fails, notify_one
<1>4. worker' \in [Workers -> WorkerRecord]
  BY <1>1, RecordTypes, Zenon DEF accept_check, accept_fails, notify_one
<1>5. \A w \in Workers : worker'[w].conn = worker[w].conn /\ (Held(w)' <=> Held(w)) /\ (Held(w) => worker'[w] = worker[w])
  BY <1>3, RecordTypes, SMTT(30) DEF ServerInv, Holders, Held
<1>6. Types'
  BY <1>1, <1>2, <1>4, ZenonT(40) DEF ServerInv, Types
<1>7. Holders' /\ Ends'
  BY <1>1, <1>2, <1>5, RecordTypes, SMTT(30) DEF ServerInv, Holders, Ends
<1>8. Listed'
  BY <1>1, <1>5, Zenon DEF ServerInv, Listed
<1>9. owner # "stopped"
  BY <1>1 DEF ServerInv, Joined
<1>10. QED
  BY <1>1, <1>6, <1>7, <1>8, <1>9 DEF ServerInv, Joined

LEMMA AcceptKeeps ==
    ASSUME ServerInv, UNCHANGED clients, accept
    PROVE  ServerInv'
<1> DEFINE c == Head(backlog)
<1>1. /\ backlog \in Seq(Conns) /\ backlog # <<>> /\ Distinct(backlog) /\ srv \in [Conns -> {"none", "open", "shut", "closed"}]
      /\ UNCHANGED <<queue, worker, live, owner, cli, up, down, client, result>>
      /\ acceptor' = [pc |-> "admit", conn |-> c] /\ backlog' = Tail(backlog)
      /\ srv' = [srv EXCEPT ![c] = "open"] /\ acceptor.pc = "accept"
  BY Zenon DEF ServerInv, Types, Holders, accept, clients
<1>2. /\ backlog' \in Seq(Conns) /\ c \in Conns /\ c \in Elements(backlog)
      /\ Elements(backlog') = Elements(backlog) \ {c} /\ Distinct(backlog')
  BY <1>1, ElementsTail
<1> HIDE DEF c
<1>3. acceptor' \in AcceptorRecord /\ acceptor'.pc = "admit" /\ acceptor'.conn = c
  BY <1>1, <1>2 DEF AcceptorRecord
<1>4. /\ srv' \in [Conns -> {"none", "open", "shut", "closed"}] /\ srv'[c] = "open"
      /\ \A d \in Conns \ {c} : srv'[d] = srv[d]
  BY <1>1, <1>2, Zenon
<1>5. /\ \A w \in Workers : Held(w)' <=> Held(w)
      /\ \A w \in Workers : worker[w].conn # c
      /\ c \notin Elements(queue) /\ c # None
  <2>1. \A w \in Workers : Held(w)' <=> Held(w)
    BY <1>1, Zenon DEF Held
  <2>2. (\A w \in Workers : worker[w].conn # c) /\ c \notin Elements(queue)
    BY <1>2, Zenon DEF ServerInv, Holders
  <2>3. QED
    BY <1>2, <2>1, <2>2, RecordTypes, Zenon
<1>6. Types'
  BY <1>1, <1>2, <1>3, <1>4, ZenonT(40) DEF ServerInv, Types
<1>7. Holders'
  <2>1. /\ Distinct(queue') /\ Distinct(backlog') /\ Elements(queue') \cap Elements(backlog') = {}
        /\ acceptor'.conn # None <=> acceptor'.pc = "admit"
        /\ acceptor'.conn \notin Elements(queue') \cup Elements(backlog')
    <3>1. Distinct(queue) /\ Elements(queue) \cap Elements(backlog) = {}
      BY Zenon DEF ServerInv, Holders
    <3>2. UNCHANGED queue
      BY <1>1, Zenon
    <3>3. QED
      BY <1>2, <1>3, <1>5, <3>1, <3>2
  <2>2. \A w \in Workers :
           /\ worker'[w].conn # None <=> Held(w)'
           /\ worker'[w].conn \notin Elements(queue') \cup Elements(backlog')
           /\ Held(w)' => worker'[w].conn # acceptor'.conn
    <3>1. \A w \in Workers : /\ worker[w].conn # None <=> Held(w)
                             /\ worker[w].conn \notin Elements(queue) \cup Elements(backlog)
      BY Zenon DEF ServerInv, Holders
    <3>2. UNCHANGED <<worker, queue>>
      BY <1>1, Zenon
    <3>3. QED
      BY <1>2, <1>3, <1>5, <3>1, <3>2, Zenon
  <2>3. \A v, w \in Workers : Held(v)' /\ worker'[v].conn = worker'[w].conn => v = w
    BY <1>1, <1>5, Zenon DEF ServerInv, Holders
  <2>4. QED
    BY <2>1, <2>2, <2>3, Zenon DEF Holders
<1>8. Ends'
  <2>1. srv[c] = "none" /\ cli[c] # "none"
    BY <1>2, SMTT(30) DEF ServerInv, Ends
  <2>2. \A x \in Elements(queue) \cup Elements(backlog') : x \in Conns \ {c}
    BY <1>2, <1>5, QueuedConns
  <2>3. \A w \in Workers : Held(w) => worker[w].conn \in Conns \ {c}
    BY <1>5, HeldConns, Zenon
  <2>4. QED
    <3>1. /\ \A x \in Elements(backlog') : srv'[x] = "none" /\ cli'[x] # "none"
          /\ \A x \in Elements(queue') : srv'[x] = "open"
      BY <1>1, <1>2, <1>4, <2>2, Zenon DEF ServerInv, Ends
    <3>2. acceptor'.pc = "admit" => srv'[acceptor'.conn] = "open"
      BY <1>3, <1>4, Zenon
    <3>3. \A w \in Workers : Held(w)' => srv'[worker'[w].conn] \in {"open", "shut"}
      BY <1>1, <1>4, <1>5, <2>3, Zenon DEF ServerInv, Ends
    <3>4. \A d \in Conns : cli'[d] = "none" => srv'[d] = "none" /\ up'[d] = <<>> /\ down'[d] = <<>>
      BY <1>1, <1>4, <2>1, Zenon DEF ServerInv, Ends
    <3>5. QED
      BY <3>1, <3>2, <3>3, <3>4, Zenon DEF Ends
<1>9. Listed'
  BY <1>1, <1>5, SMTT(30) DEF ServerInv, Listed
<1>10. Joined'
  BY <1>1, Zenon DEF ServerInv, Joined
<1>11. QED
  BY <1>6, <1>7, <1>8, <1>9, <1>10 DEF ServerInv

LEMMA AdmitKeeps ==
    ASSUME ServerInv, UNCHANGED clients, admit
    PROVE  ServerInv'
<1> DEFINE c == acceptor.conn
<1>1. /\ acceptor.pc = "admit" /\ c \in Conns /\ c # None /\ queue \in Seq(Conns) /\ Distinct(queue)
      /\ c \notin Elements(queue) \cup Elements(backlog) /\ srv[c] = "open"
      /\ UNCHANGED <<backlog, worker, live, owner, cli, down, client, result>>
      /\ \A w \in Workers : (Held(w)' <=> Held(w)) /\ worker[w].conn # c
  BY RecordTypes, SMTT(30) DEF ServerInv, Types, AcceptorRecord, Holders, Ends, admit, clients, Held
<1>2. acceptor' \in AcceptorRecord /\ acceptor'.pc # "admit" /\ acceptor'.conn = None
  BY DEF admit, AcceptorRecord
<1>3. Listed' /\ Joined'
  BY <1>1 DEF ServerInv, Listed, Joined
<1>4. CASE queue' = Append(queue, c) /\ UNCHANGED <<srv, up>>
  <2>1. queue' \in Seq(Conns) /\ Elements(queue') = Elements(queue) \cup {c} /\ Distinct(queue')
    BY <1>1, <1>4, ElementsAppend
  <2>2. Types'
    BY <1>1, <1>2, <1>4, <2>1, Zenon DEF ServerInv, Types
  <2>3. Holders'
    <3>1. /\ Distinct(queue') /\ Distinct(backlog') /\ Elements(queue') \cap Elements(backlog') = {}
          /\ acceptor'.conn # None <=> acceptor'.pc = "admit"
          /\ acceptor'.conn \notin Elements(queue') \cup Elements(backlog')
      <4>1. Distinct(backlog) /\ Elements(queue) \cap Elements(backlog) = {}
        BY Zenon DEF ServerInv, Holders
      <4>2. UNCHANGED backlog
        BY <1>1, Zenon
      <4>3. QED
        BY <1>1, <1>2, <2>1, <4>1, <4>2, QueuedConns
    <3>2. \A w \in Workers :
             /\ worker'[w].conn # None <=> Held(w)'
             /\ worker'[w].conn \notin Elements(queue') \cup Elements(backlog')
             /\ Held(w)' => worker'[w].conn # acceptor'.conn
      <4>1. \A w \in Workers :
               /\ worker[w].conn # None <=> Held(w)
               /\ worker[w].conn \notin Elements(queue) \cup Elements(backlog)
        BY Zenon DEF ServerInv, Holders
      <4>2. QED
        BY <1>1, <1>2, <2>1, <4>1, Zenon
    <3>3. \A v, w \in Workers : Held(v)' /\ worker'[v].conn = worker'[w].conn => v = w
      BY <1>1, Zenon DEF ServerInv, Holders
    <3>4. QED
      BY <3>1, <3>2, <3>3, Zenon DEF Holders
  <2>4. Ends'
    BY <1>1, <1>2, <1>4, <2>1, Zenon DEF ServerInv, Ends
  <2>5. QED
    BY <1>3, <2>2, <2>3, <2>4, Zenon DEF ServerInv
<1>5. CASE Close({c}) /\ UNCHANGED queue
  <2>1. /\ srv' = [d \in Conns |-> IF d \in {c} THEN "closed" ELSE srv[d]]
        /\ up' = [d \in Conns |-> IF d \in {c} THEN <<>> ELSE up[d]]
    BY <1>5, SMTT(30) DEF Close
  <2>2. \A d \in Conns \ {c} : srv'[d] = srv[d] /\ up'[d] = up[d]
    BY <2>1, Zenon
  <2>3. Types'
    <3>1. srv' \in [Conns -> {"none", "open", "shut", "closed"}] /\ up' \in [Conns -> Seq(Pieces)]
      <4>1. srv \in [Conns -> {"none", "open", "shut", "closed"}] /\ up \in [Conns -> Seq(Pieces)]
        BY Zenon DEF ServerInv, Types
      <4>2. <<>> \in Seq(Pieces)
        OBVIOUS
      <4>3. QED
        BY <2>1, <4>1, <4>2, Zenon
    <3>2. QED
      BY <1>1, <1>2, <1>5, <3>1, Zenon DEF ServerInv, Types
  <2>4. Holders'
    BY <1>1, <1>2, <1>5, QueuedConns, Zenon DEF ServerInv, Holders
  <2>5. cli[c] # "none"
    BY <1>1, Zenon DEF ServerInv, Ends
  <2>6. \A x \in Elements(queue) \cup Elements(backlog) : x \in Conns \ {c}
    BY <1>1, QueuedConns, Zenon
  <2>7. \A w \in Workers : Held(w) => worker[w].conn \in Conns \ {c}
    BY <1>1, HeldConns, Zenon
  <2>8. Ends'
    BY <1>1, <1>2, <1>5, <2>2, <2>5, <2>6, <2>7, SMTT(30) DEF ServerInv, Ends
  <2>9. QED
    BY <1>3, <2>3, <2>4, <2>8 DEF ServerInv
<1>6. QED
  BY <1>4, <1>5, Zenon DEF admit

LEMMA StartKeeps ==
    ASSUME ServerInv, UNCHANGED clients, start
    PROVE  ServerInv'
<1>1. /\ owner = "stopped" /\ acceptor.pc = "off" /\ \A w \in Workers : worker[w].pc = "off"
      /\ worker' = [w \in Workers |-> Waiting] /\ owner' = "serving"
      /\ acceptor' = [pc |-> "check", conn |-> None]
      /\ UNCHANGED <<backlog, queue, live, srv, cli, up, down, client, result>>
  BY Zenon DEF ServerInv, Joined, start, sockets, clients
<1>2. \A w \in Workers : worker'[w] = Waiting /\ ~Held(w)' /\ ~Held(w) /\ worker'[w].conn = None
  BY <1>1, RecordTypes, Zenon DEF Held
<1>3. acceptor' \in AcceptorRecord /\ acceptor'.pc = "check" /\ acceptor'.conn = None
  BY <1>1, Zenon DEF AcceptorRecord
<1>4. Types'
  BY <1>1, <1>3, RecordTypes, Zenon DEF ServerInv, Types
<1>5. Holders'
  BY <1>1, <1>2, <1>3, QueuedConns, Zenon DEF ServerInv, Holders
<1>6. Ends'
  BY <1>1, <1>2, <1>3, Zenon DEF ServerInv, Ends
<1>7. Listed'
  BY <1>1, <1>2, Zenon DEF ServerInv, Listed
<1>8. QED
  BY <1>1, <1>4, <1>5, <1>6, <1>7, Zenon DEF ServerInv, Joined

\* stop marks the server, wakes the workers, and returns when the threads have ended.
LEMMA StopKeeps ==
    ASSUME ServerInv, UNCHANGED clients, stop_mark \/ stop_notify \/ stop_join
    PROVE  ServerInv'
<1>1. /\ worker \in [Workers -> WorkerRecord]
      /\ owner' \in {"unlisten", "join", "stopped"}
      /\ UNCHANGED <<backlog, acceptor, srv, cli, up, down, client, result>>
  BY Zenon DEF ServerInv, Types, stop_mark, stop_notify, stop_join, sockets, clients
<1>2. \A w \in Workers : worker'[w] = worker[w] \/ (worker[w].pc = "asleep" /\ worker'[w] = Waiting)
  BY <1>1, SMTT(30) DEF stop_mark, stop_notify, stop_join, Woken
<1>3. worker' \in [Workers -> WorkerRecord]
  BY <1>1, RecordTypes, SMTT(30) DEF stop_mark, stop_notify, stop_join, Woken
<1>4. \A w \in Workers : worker'[w].conn = worker[w].conn /\ (Held(w)' <=> Held(w)) /\ (Held(w) => worker'[w] = worker[w])
  BY <1>2, RecordTypes DEF ServerInv, Holders, Held
<1>5. (UNCHANGED queue \/ queue' = <<>>) /\ queue' \in Seq(Conns)
  <2>1. queue \in Seq(Conns) /\ <<>> \in Seq(Conns)
    BY DEF ServerInv, Types
  <2>2. UNCHANGED queue \/ queue' = <<>>
    BY Zenon DEF stop_mark, stop_notify, stop_join
  <2>3. QED
    BY <2>1, <2>2, Zenon
<1>6. Elements(queue') \subseteq Elements(queue) /\ Distinct(queue')
  BY <1>5, ElementsEmpty, SMTT(30) DEF ServerInv, Holders
<1>7. Types'
  BY <1>1, <1>3, <1>5, ZenonT(40) DEF ServerInv, Types
<1>8. Holders' /\ Ends'
  <2>1. /\ \A x \in Elements(queue') : x \in Elements(queue)
        /\ UNCHANGED <<backlog, acceptor, srv, cli, up, down>>
    BY <1>1, <1>6, Zenon
  <2>2. /\ Distinct(queue') /\ Distinct(backlog') /\ Elements(queue') \cap Elements(backlog') = {}
        /\ acceptor'.conn # None <=> acceptor'.pc = "admit"
        /\ acceptor'.conn \notin Elements(queue') \cup Elements(backlog')
    BY <1>6, <2>1, Zenon DEF ServerInv, Holders
  <2>3. /\ \A w \in Workers : /\ worker'[w].conn # None <=> Held(w)'
                              /\ worker'[w].conn \notin Elements(queue') \cup Elements(backlog')
                              /\ Held(w)' => worker'[w].conn # acceptor'.conn
        /\ \A v, w \in Workers : Held(v)' /\ worker'[v].conn = worker'[w].conn => v = w
    BY <1>4, <2>1, ZenonT(40) DEF ServerInv, Holders
  <2>4. Ends'
    BY <1>4, <2>1, ZenonT(40) DEF ServerInv, Ends
  <2>5. QED
    BY <2>2, <2>3, <2>4, Zenon DEF Holders
<1>9. CASE stop_mark \/ stop_notify
  <2>1. UNCHANGED live /\ owner' # "stopped"
    BY <1>9, ZenonT(40) DEF stop_mark, stop_notify
  <2>2. Listed'
    BY <1>4, <2>1, SMTT(30) DEF ServerInv, Listed
  <2>3. QED
    BY <1>7, <1>8, <2>1, <2>2, Zenon DEF ServerInv, Joined
<1>10. CASE stop_join
  <2>1. live' = {} /\ acceptor.pc = "off" /\ UNCHANGED worker /\ \A w \in Workers : worker[w].pc = "off" /\ ~Held(w)
    BY <1>10, Zenon DEF stop_join, Held
  <2>2. Listed' /\ Joined'
    BY <1>1, <1>4, <2>1, Zenon DEF Listed, Joined
  <2>3. QED
    BY <1>7, <1>8, <2>2 DEF ServerInv
<1>11. QED
  BY <1>9, <1>10

\* The listener is closed with what it had not accepted.
LEMMA UnlistenKeeps ==
    ASSUME ServerInv, UNCHANGED clients, stop_unlisten
    PROVE  ServerInv'
<1>1. /\ backlog' = <<>> /\ owner' = "cut" /\ UNCHANGED <<acceptor, queue, worker, live, cli, down, client, result>>
      /\ srv' = [c \in Conns |-> IF c \in Elements(backlog) THEN "closed" ELSE srv[c]]
      /\ up' = [c \in Conns |-> IF c \in Elements(backlog) THEN <<>> ELSE up[c]]
  BY Zenon DEF stop_unlisten, Close, clients
<1>2. /\ Elements(backlog') = {} /\ Distinct(backlog') /\ \A w \in Workers : Held(w)' <=> Held(w)
      /\ \A c \in Conns \ Elements(backlog) : srv'[c] = srv[c] /\ up'[c] = up[c]
  BY <1>1, ElementsEmpty, Zenon DEF Held
<1>3. Types'
  BY <1>1, SMTT(60) DEF ServerInv, Types
<1>4. Holders'
  BY <1>1, <1>2, Zenon DEF ServerInv, Holders
<1>5. Ends'
  <2>1. \A x \in Elements(queue) : x \in Conns \ Elements(backlog)
    BY QueuedConns, Zenon DEF ServerInv, Holders
  <2>2. acceptor.pc = "admit" => acceptor.conn \in Conns \ Elements(backlog)
    BY Zenon DEF ServerInv, Types, AcceptorRecord, Holders
  <2>3. \A w \in Workers : Held(w) => worker[w].conn \in Conns \ Elements(backlog)
    BY SMTT(30) DEF ServerInv, Types, WorkerRecord, Holders
  <2>4. \A c \in Conns : cli[c] = "none" => c \notin Elements(backlog)
    BY SMTT(30) DEF ServerInv, Ends
  <2>5. QED
    BY <1>1, <1>2, <2>1, <2>2, <2>3, <2>4, Zenon DEF ServerInv, Ends
<1>6. Listed'
  BY <1>1, <1>2, Zenon DEF ServerInv, Listed
<1>7. QED
  BY <1>1, <1>3, <1>4, <1>5, <1>6, Zenon DEF ServerInv, Joined

\* Connections that are served are shut down, those that wait are closed.
LEMMA CutKeeps ==
    ASSUME ServerInv, UNCHANGED clients, stop_cut
    PROVE  ServerInv'
<1>1. /\ queue' = <<>> /\ owner' = "notify" /\ UNCHANGED <<acceptor, backlog, worker, live, cli, down, client, result>>
      /\ srv' = [c \in Conns |-> IF c \in live THEN "shut"
                                 ELSE IF c \in Elements(queue) THEN "closed" ELSE srv[c]]
      /\ up' = [c \in Conns |-> IF c \in Elements(queue) THEN <<>> ELSE up[c]]
  BY Zenon DEF stop_cut, clients
<1>2. /\ Elements(queue') = {} /\ Distinct(queue') /\ \A w \in Workers : Held(w)' <=> Held(w)
      /\ \A c \in Conns \ (Elements(queue) \cup live) : srv'[c] = srv[c] /\ up'[c] = up[c]
      /\ \A c \in Conns \ Elements(queue) : srv'[c] \in {srv[c], "shut"}
  BY <1>1, ElementsEmpty, Zenon DEF Held
<1>3. Types'
  BY <1>1, SMTT(30) DEF ServerInv, Types
<1>4. Holders'
  BY <1>1, <1>2, Zenon DEF ServerInv, Holders
<1>5. \A c \in live : \E w \in Workers : Held(w) /\ worker[w].conn = c
  BY SMTT(30) DEF ServerInv, Listed
<1>6. Ends'
  <2>1. \A x \in Elements(backlog) : x \in Conns \ (Elements(queue) \cup live)
    BY <1>5, QueuedConns DEF ServerInv, Holders
  <2>2. acceptor.pc = "admit" => acceptor.conn \in Conns \ (Elements(queue) \cup live)
    BY <1>5, ZenonT(40) DEF ServerInv, Types, AcceptorRecord, Holders
  <2>3. \A w \in Workers : Held(w) => worker[w].conn \in Conns \ Elements(queue)
    BY Zenon DEF ServerInv, Types, WorkerRecord, Holders
  <2>4. \A c \in Conns : cli[c] = "none" => c \notin Elements(queue) \cup live
    BY <1>5, SMTT(60) DEF ServerInv, Ends
  <2>5. QED
    BY <1>1, <1>2, <2>1, <2>2, <2>3, <2>4, ZenonT(40) DEF ServerInv, Ends
<1>7. Listed'
  BY <1>1, <1>2 DEF ServerInv, Listed
<1>8. QED
  BY <1>1, <1>3, <1>4, <1>6, <1>7, Zenon DEF ServerInv, Joined

\* The steps of the server.
LEMMA ServeStepKeeps ==
    ASSUME ServerInv, Serve
    PROVE  ServerInv'
<1>1. UNCHANGED clients
  BY DEF Serve
<1>2. CASE AcceptStep
  BY <1>1, <1>2, AcceptorKeeps, AcceptKeeps, AdmitKeeps, SMTT(30) DEF AcceptStep
<1>3. CASE StopStep \/ start \/ stop_mark
  BY <1>1, <1>3, StartKeeps, StopKeeps, UnlistenKeeps, CutKeeps, Zenon DEF StopStep
<1>4. ASSUME NEW w \in Workers, NEW r, Serves(w, r) PROVE ServerInv'
  BY <1>1, <1>4, ServeKeeps, Zenon DEF clients
<1>5. ASSUME NEW w \in Workers, WorkerStep(w) PROVE ServerInv'
  <2>1. CASE worker_wait(w) \/ serve_enter(w) \/ serve_leave(w)
    BY <1>1, <2>1, WaitKeeps, EnterKeeps, LeaveKeeps, Zenon
  <2>2. CASE serve_header(w) \/ serve_body(w)
    <3>1. PICK r : Serves(w, r)
      BY <2>2, ReadServes, Zenon
    <3>2. QED
      BY <1>4, <3>1, Zenon
  <2>3. CASE \/ serve_read_ends(w) \/ serve_handled(w) \/ serve_answer(w) \/ serve_reject(w)
             \/ serve_send_fails(w)
    <3>1. PICK r : Serves(w, r)
      BY <2>3, AnswerServes, Zenon
    <3>2. QED
      BY <1>4, <3>1
  <2>4. QED
    BY <1>5, <2>1, <2>2, <2>3, Zenon DEF WorkerStep
<1>6. QED
  BY <1>2, <1>3, <1>5, SMTT(30) DEF Serve, ServerNext
-----------------------------------------------------------------------------
(* Streams to a client.                                                    *)

LEMMA PairedTail ==
    ASSUME NEW s \in Seq(Pieces), s # <<>>, Paired(s)
    PROVE  Paired(Tail(s)) /\ Tail(s) \in Seq(Pieces)
<1> DEFINE q == Tail(s)
<1>1. /\ q \in Seq(Pieces) /\ Len(s) \in Nat \ {0} /\ Len(q) = Len(s) - 1
      /\ \A i \in 1 .. Len(q) : q[i] = s[i + 1]
  BY SMTT(30)
<1> HIDE DEF q
<1>2. SUFFICES ASSUME NEW i \in 1 .. Len(q), q[i].part = "header"
               PROVE  i < Len(q) /\ q[i + 1].part = "body" /\ q[i + 1].id = q[i].id
  BY <1>1, Zenon DEF Paired, q
<1>3. i + 1 \in 1 .. Len(s) /\ s[i + 1].part = "header"
  BY <1>1, <1>2, SMTT(30)
<1>4. i + 1 < Len(s) /\ s[i + 1 + 1].part = "body" /\ s[i + 1 + 1].id = s[i + 1].id
  BY <1>3, Zenon DEF Paired
<1>5. i < Len(q) /\ i + 1 \in 1 .. Len(q)
  BY <1>1, <1>4, SMTT(30)
<1>6. QED
  BY <1>1, <1>4, <1>5, Zenon

\* The body follows the header that was read.
LEMMA BodyFollows ==
    ASSUME NEW s \in Seq(Pieces), s # <<>>, Paired(s), Head(s).part = "header"
    PROVE  Tail(s) # <<>> /\ Tail(s)[1].id = Head(s).id
<1> DEFINE q == Tail(s)
<1>1. /\ Len(s) \in Nat \ {0} /\ Head(s) = s[1] /\ 1 \in 1 .. Len(s)
      /\ q \in Seq(Pieces) /\ Len(q) = Len(s) - 1 /\ \A i \in 1 .. Len(q) : q[i] = s[i + 1]
  BY SMTT(30)
<1> HIDE DEF q
<1>2. 1 < Len(s) /\ s[1 + 1].id = s[1].id
  BY <1>1, Zenon DEF Paired
<1>3. 1 \in 1 .. Len(q) /\ q # <<>>
  BY <1>1, <1>2, SMTT(30)
<1>4. q[1].id = Head(s).id
  BY <1>1, <1>2, <1>3, Zenon
<1>5. QED
  BY <1>3, <1>4, SMTT(30) DEF q

LEMMA PairedFrame ==
    ASSUME NEW s \in Seq(Pieces), Paired(s), NEW kind \in {"response", "error"}, NEW id \in Nat
    PROVE  /\ Paired(s \o encode_frame(kind, id))
           /\ s # <<>> => /\ s \o encode_frame(kind, id) # <<>>
                         /\ (s \o encode_frame(kind, id))[1] = s[1]
<1> DEFINE h == Piece("header", kind, id)
           b == Piece("body", kind, id)
           q == s \o <<h, b>>
<1>1. h \in Pieces /\ b \in Pieces /\ h.part = "header" /\ b.part = "body" /\ b.id = h.id
  BY Zenon DEF Piece, Pieces
<1>2. encode_frame(kind, id) = <<h, b>>
  BY Zenon DEF encode_frame
<1> HIDE DEF h, b
<1>3. /\ q \in Seq(Pieces) /\ Len(s) \in Nat /\ Len(q) = Len(s) + 2
      /\ \A i \in 1 .. Len(s) : q[i] = s[i]
      /\ q[Len(s) + 1] = h /\ q[Len(s) + 2] = b
  BY <1>1, SMTT(30)
<1> HIDE DEF q
<1>4. Paired(q)
  <2>1. SUFFICES ASSUME NEW i \in 1 .. Len(q), q[i].part = "header"
                 PROVE  i < Len(q) /\ q[i + 1].part = "body" /\ q[i + 1].id = q[i].id
    BY Zenon DEF Paired
  <2>2. CASE i \in 1 .. Len(s)
    <3>1. i < Len(s) /\ s[i + 1].part = "body" /\ s[i + 1].id = s[i].id
      BY <1>3, <2>1, <2>2, Zenon DEF Paired
    <3>2. i + 1 \in 1 .. Len(s)
      BY <1>3, <2>2, <3>1, SMTT(60)
    <3>3. QED
      BY <1>3, <2>2, <3>1, <3>2, SMTT(60)
  <2>3. CASE i = Len(s) + 1
    BY <1>1, <1>3, <2>3, SMTT(60)
  <2>4. CASE i = Len(s) + 2
    BY <1>1, <1>3, <2>1, <2>4, Zenon
  <2>5. QED
    BY <1>3, <2>2, <2>3, <2>4, SMTT(60)
<1>5. s # <<>> => q # <<>> /\ q[1] = s[1]
  BY <1>3, SMTT(60)
<1>6. QED
  BY <1>2, <1>4, <1>5, Zenon DEF q

\* A step of the server leaves clients alone and adds whole frames at most.
LEMMA ServeClient ==
    ASSUME ServerInv, ClientInv, Serve
    PROVE  ClientInv'
<1>1. UNCHANGED <<client, result>>
  BY Zenon DEF Serve, clients
<1>2. ASSUME UNCHANGED <<cli, down>> PROVE ClientInv'
  BY <1>1, <1>2, ZenonT(40) DEF ClientInv, Owned, Answering, OwnAnswer
<1>3. ASSUME NEW w \in Workers, NEW r, Serves(w, r), NEW kind \in {"response", "error"}, NEW id \in Nat,
             down'[worker[w].conn] = IF cli[worker[w].conn] = "open"
                                     THEN down[worker[w].conn] \o encode_frame(kind, id)
                                     ELSE down[worker[w].conn]
      PROVE  ClientInv'
  <2> DEFINE c == worker[w].conn
  <2>1. /\ c \in Conns /\ UNCHANGED cli /\ (\A d \in Conns : down[d] \in Seq(Pieces))
        /\ \A d \in Conns \ {c} : down'[d] = down[d]
    BY <1>3, Zenon DEF ServerInv, Types, Holders, Serves, WorkerRecord
  <2>2. \A d \in Conns : Paired(down'[d]) /\ (down[d] # <<>> => down'[d] # <<>> /\ down'[d][1] = down[d][1])
    <3>1. SUFFICES ASSUME NEW d \in Conns
                   PROVE Paired(down'[d]) /\ (down[d] # <<>> => down'[d] # <<>> /\ down'[d][1] = down[d][1])
      BY Zenon
    <3>2. Paired(down[d]) /\ down[d] \in Seq(Pieces)
      BY <2>1, Zenon DEF ClientInv, Answering
    <3>3. down'[d] = down[d] \/ down'[d] = down[d] \o encode_frame(kind, id)
      BY <1>3, <2>1, Zenon
    <3>4. CASE down'[d] = down[d] \o encode_frame(kind, id)
      <4> DEFINE q == down[d] \o encode_frame(kind, id)
      <4>1. Paired(q) /\ (down[d] # <<>> => q # <<>> /\ q[1] = down[d][1])
        BY <3>2, PairedFrame, Zenon
      <4> HIDE DEF q
      <4>2. down'[d] = q
        BY <3>4, Zenon DEF q
      <4>3. QED
        BY <4>1, <4>2, Zenon
    <3>5. QED
      BY <3>2, <3>3, <3>4, Zenon
  <2>3. \A k \in Clients : client[k].pc = "body" => client[k].conn \in Conns
    BY Zenon DEF ServerInv, Types, ClientRecord, ClientInv, Owned
  <2>4. Answering'
    BY <1>1, <2>2, <2>3, Zenon DEF ClientInv, Answering
  <2>5. Owned' /\ OwnAnswer'
    BY <1>1, <2>1, Zenon DEF ClientInv, Owned, OwnAnswer
  <2>6. QED
    BY <2>4, <2>5, Zenon DEF ClientInv
<1>4. CASE AcceptStep \/ StopStep \/ start \/ stop_mark
  BY <1>2, <1>4, Zenon DEF AcceptStep, accept_check, accept, accept_fails, admit, notify_one, StopStep,
     stop_unlisten, stop_cut, stop_notify, stop_join, start, stop_mark, sockets
<1>5. ASSUME NEW w \in Workers, WorkerStep(w) PROVE ClientInv'
  <2>1. CASE worker_wait(w) \/ serve_enter(w) \/ serve_leave(w)
    BY <1>2, <2>1, Zenon DEF worker_wait, serve_enter, serve_leave, sockets
  <2>2. CASE serve_header(w) \/ serve_body(w)
    <3>1. PICK r : Serves(w, r) /\ UNCHANGED down
      BY <2>2, ReadServes, Zenon
    <3>2. QED
      BY <1>2, <3>1, Zenon DEF Serves
  <2>3. CASE \/ serve_read_ends(w) \/ serve_handled(w) \/ serve_answer(w) \/ serve_reject(w)
             \/ serve_send_fails(w)
    <3> DEFINE c == worker[w].conn
               n == worker[w].head.id
    <3>1. n \in Nat
      BY Zenon DEF ServerInv, Types, WorkerRecord, Pieces
    <3>2. PICK r : /\ Serves(w, r)
                   /\ \/ UNCHANGED down
                      \/ down'[c] = IF cli[c] = "open" THEN down[c] \o encode_frame("response", n)
                                                       ELSE down[c]
                      \/ down'[c] = IF cli[c] = "open" THEN down[c] \o encode_frame("error", 0)
                                                       ELSE down[c]
      BY <2>3, AnswerServes, Zenon
    <3>3. CASE UNCHANGED down
      BY <1>2, <3>2, <3>3, ZenonT(40) DEF Serves
    <3>4. CASE down'[c] = IF cli[c] = "open" THEN down[c] \o encode_frame("response", n) ELSE down[c]
      BY <1>3, <3>1, <3>2, <3>4, SMT
    <3>5. CASE down'[c] = IF cli[c] = "open" THEN down[c] \o encode_frame("error", 0) ELSE down[c]
      BY <1>3, <3>2, <3>5, Zenon
    <3>6. QED
      BY <3>2, <3>3, <3>4, <3>5, Zenon
  <2>4. QED
    BY <1>5, <2>1, <2>2, <2>3, Zenon DEF WorkerStep
<1>6. QED
  BY <1>4, <1>5, Zenon DEF Serve, ServerNext
-----------------------------------------------------------------------------
(* The steps of a client.                                                  *)

\* Client k goes on with record r, on its own connection only.
Acts(k, r) ==
    /\ client[k].conn \in Conns /\ r \in ClientRecord /\ r.conn \in {client[k].conn, NoConn}
    /\ client' = [client EXCEPT ![k] = r] /\ (r.pc # "idle" => r.conn # NoConn)
    /\ UNCHANGED <<server, srv>>
    /\ up' \in [Conns -> Seq(Pieces)] /\ down' \in [Conns -> Seq(Pieces)]
    /\ cli' \in [Conns -> {"none", "open", "closed"}]
    /\ \A d \in Conns \ {client[k].conn} : up'[d] = up[d] /\ down'[d] = down[d] /\ cli'[d] = cli[d]
    /\ cli'[client[k].conn] = IF r.conn = NoConn THEN "closed" ELSE cli[client[k].conn]
    /\ result' \in [Clients -> [ok : BOOLEAN, asked : Nat, answer : Nat]]
    /\ \A l \in Clients \ {k} : result'[l] = result[l]

\* A client that acts leaves its stream in order.
LEMMA ActsKeep ==
    ASSUME ServerInv, ClientInv, NEW k \in Clients, NEW r, Acts(k, r),
           Paired(down'[client[k].conn]),
           r.pc = "body" => /\ down'[client[k].conn] # <<>>
                            /\ down'[client[k].conn][1].id = r.id,
           result'[k].ok => result'[k].answer = result'[k].asked
    PROVE  ServerInv' /\ ClientInv'
<1> DEFINE c == client[k].conn
<1>1. /\ client \in [Clients -> ClientRecord] /\ client'[k] = r
      /\ client' \in [Clients -> ClientRecord] /\ \A l \in Clients \ {k} : client'[l] = client[l]
  BY Zenon DEF ServerInv, Types, Acts
<1>2. /\ c \in Conns /\ c # NoConn /\ cli[c] = "open" /\ UNCHANGED <<server, srv>>
      /\ cli'[c] \in {"open", "closed"}
      /\ \A l \in Clients \ {k} : client[l].conn # c
  <2>1. c \in Conns /\ UNCHANGED <<server, srv>>
    BY Zenon DEF Acts
  <2>2. c # NoConn
    BY <2>1, RecordTypes, Zenon DEF NoConn, None
  <2>3. cli[c] = "open" /\ \A l \in Clients \ {k} : client[l].conn # c
    BY <2>2, Zenon DEF ClientInv, Owned
  <2>4. cli'[c] \in {"open", "closed"}
    BY <2>3, Zenon DEF Acts
  <2>5. QED
    BY <2>1, <2>2, <2>3, <2>4, Zenon
<1>0. \A d \in Conns \ {c} : up'[d] = up[d] /\ down'[d] = down[d] /\ cli'[d] = cli[d]
  BY Zenon DEF Acts
<1>3. ServerInv'
  <2>1. Types'
    BY <1>1, <1>2, Zenon DEF ServerInv, Types, Acts, server
  <2>0. UNCHANGED <<backlog, acceptor, queue, worker, live, owner>>
    BY <1>2, Zenon DEF server
  <2>2. Holders' /\ Listed' /\ Joined'
    <3>1. Holders'
      BY <2>0, Zenon DEF ServerInv, Holders, Held
    <3>2. Listed'
      BY <2>0, Zenon DEF ServerInv, Listed, Held
    <3>3. Joined'
      BY <2>0, Zenon DEF ServerInv, Joined
    <3>4. QED
      BY <3>1, <3>2, <3>3, Zenon
  <2>3. \A d \in Conns : cli'[d] = "none" <=> cli[d] = "none"
    BY <1>0, <1>2, Zenon
  <2>4. \A d \in Conns : cli[d] = "none" => up'[d] = up[d] /\ down'[d] = down[d]
    BY <1>0, <1>2
  <2>5. Ends'
    <3>1. \A d \in Elements(backlog') : srv'[d] = "none" /\ cli'[d] # "none"
      BY <1>2, <2>0, <2>3, QueuedConns, Zenon DEF ServerInv, Ends
    <3>2. /\ \A d \in Elements(queue') : srv'[d] = "open"
          /\ acceptor'.pc = "admit" => srv'[acceptor'.conn] = "open"
          /\ \A w \in Workers : Held(w)' => srv'[worker'[w].conn] \in {"open", "shut"}
      BY <1>2, <2>0, Zenon DEF ServerInv, Ends, Held
    <3>3. \A d \in Conns : cli'[d] = "none" => srv'[d] = "none" /\ up'[d] = <<>> /\ down'[d] = <<>>
      BY <1>2, <2>3, <2>4, ZenonT(40) DEF ServerInv, Ends
    <3>4. QED
      BY <3>1, <3>2, <3>3, Zenon DEF Ends
  <2>6. QED
    BY <2>1, <2>2, <2>5, Zenon DEF ServerInv
<1>4. Owned'
  <2>1. \A l \in Clients : client'[l].conn \in {client[l].conn, NoConn}
    <3>1. r.conn \in {c, NoConn}
      BY Zenon DEF Acts
    <3>2. QED
      BY <1>1, <3>1, Zenon
  <2>2. \A l \in Clients \ {k} : client[l].conn # NoConn => client[l].conn \in Conns \ {c}
    <3>1. \A l \in Clients : client[l].conn \in Conns \cup {NoConn}
      BY <1>1, ZenonT(40) DEF ClientRecord
    <3>2. QED
      BY <1>2, <3>1, Zenon
  <2>3. \A l \in Clients : client'[l].conn # NoConn => cli'[client'[l].conn] = "open"
    <3>1. r.conn # NoConn => r.conn = c /\ cli'[c] = "open"
      BY <1>2, Zenon DEF Acts
    <3>2. \A l \in Clients \ {k} : client[l].conn # NoConn => cli'[client[l].conn] = "open"
      BY <2>2, Zenon DEF ClientInv, Owned, Acts
    <3>3. QED
      BY <1>1, <3>1, <3>2, SMTT(60)
  <2>4. \A l \in Clients : client'[l].pc # "idle" => client'[l].conn # NoConn
    BY <1>1, Zenon DEF ClientInv, Owned, Acts
  <2>5. QED
    <3>1. \A a, b \in Clients :
             client'[a].conn # NoConn /\ client'[a].conn = client'[b].conn => a = b
      BY <2>1, Zenon DEF ClientInv, Owned
    <3>2. QED
      BY <2>3, <2>4, <3>1, Zenon DEF Owned
<1>5. Answering'
  <2>1. \A d \in Conns : Paired(down'[d])
    BY Zenon DEF ClientInv, Answering, Acts
  <2>2. \A l \in Clients \ {k} : client[l].pc = "body" => client[l].conn \in Conns \ {c}
    BY <1>1, <1>2, Zenon DEF ClientRecord, ClientInv, Owned
  <2>3. r.pc = "body" => r.conn = c
    BY Zenon DEF Acts
  <2>4. SUFFICES ASSUME NEW l \in Clients, client'[l].pc = "body"
                 PROVE  down'[client'[l].conn] # <<>> /\ down'[client'[l].conn][1].id = client'[l].id
    BY <2>1, Zenon DEF Answering
  <2>5. CASE l = k
    BY <1>1, <2>3, <2>4, <2>5, Zenon
  <2>6. CASE l # k
    <3>1. client'[l] = client[l] /\ client[l].pc = "body" /\ down'[client[l].conn] = down[client[l].conn]
      <4>1. client'[l] = client[l] /\ client[l].pc = "body"
        BY <1>1, <2>4, <2>6, Zenon
      <4>2. QED
        BY <1>0, <2>2, <2>6, <4>1, Zenon
    <3>2. QED
      BY <3>1, Zenon DEF ClientInv, Answering
  <2>7. QED
    BY <2>5, <2>6, Zenon
<1>6. OwnAnswer'
  <2>1. \A l \in Clients : l = k \/ result'[l] = result[l]
    BY Zenon DEF Acts
  <2>2. QED
    BY <2>1, Zenon DEF ClientInv, OwnAnswer
<1>7. QED
  BY <1>3, <1>4, <1>5, <1>6, Zenon DEF ClientInv

\* A call that fails: the client of a drain port is gone, that of an API goes on.
LEMMA FailActs ==
    ASSUME ServerInv, ClientInv, NEW k \in Clients, NEW q \in ClientRecord, q.conn = client[k].conn,
           client[k].conn # NoConn, NEW rest \in Seq(Pieces), fail(k, q, rest),
           UNCHANGED <<server, srv>>, up' \in [Conns -> Seq(Pieces)],
           \A d \in Conns \ {client[k].conn} : up'[d] = up[d]
    PROVE  \E r : /\ Acts(k, r) /\ r.pc = "idle" /\ result'[k] = NoResult
                  /\ IF k \in Apis THEN down'[client[k].conn] = rest
                     ELSE r.conn = NoConn /\ down'[client[k].conn] = <<>>
<1> DEFINE c == client[k].conn
           n == IF k \in Apis THEN c ELSE NoConn
           r == [q EXCEPT !.pc = "idle", !.conn = n]
           s == IF k \in Apis THEN rest ELSE <<>>
<1>1. c \in Conns /\ down \in [Conns -> Seq(Pieces)] /\ cli \in [Conns -> {"none", "open", "closed"}]
  BY ZenonT(40) DEF ServerInv, Types, ClientRecord
<1>2. n \in Conns \cup {NoConn} /\ n \in {c, NoConn} /\ (k \notin Apis <=> n = NoConn)
  BY <1>1, RecordTypes, SMT DEF NoConn, None
<1> HIDE DEF n
<1>3. r \in ClientRecord /\ r.conn = n /\ r.pc = "idle"
  BY <1>2, Zenon DEF ClientRecord
<1>4. /\ client' = [client EXCEPT ![k] = r] /\ down' = [down EXCEPT ![c] = s]
      /\ cli' = IF k \in Apis THEN cli ELSE [cli EXCEPT ![c] = "closed"]
      /\ result' = [result EXCEPT ![k] = NoResult]
  BY ZenonT(40) DEF fail, kept_after_failure, n
<1>5. s \in Seq(Pieces) /\ NoResult \in [ok : BOOLEAN, asked : Nat, answer : Nat]
  BY SMTT(60) DEF NoResult
<1> HIDE DEF r, s
<1>6. /\ down' \in [Conns -> Seq(Pieces)] /\ down'[c] = s /\ \A d \in Conns \ {c} : down'[d] = down[d]
      /\ cli' \in [Conns -> {"none", "open", "closed"}] /\ \A d \in Conns \ {c} : cli'[d] = cli[d]
      /\ cli'[c] = IF k \in Apis THEN cli[c] ELSE "closed"
  BY <1>1, <1>4, <1>5, Zenon
<1>7. /\ result' \in [Clients -> [ok : BOOLEAN, asked : Nat, answer : Nat]] /\ result'[k] = NoResult
      /\ \A l \in Clients \ {k} : result'[l] = result[l]
  BY <1>4, <1>5, Zenon DEF ServerInv, Types
<1>8. Acts(k, r)
  BY <1>1, <1>2, <1>3, <1>4, <1>6, <1>7, ZenonT(40) DEF Acts
<1>9. QED
  BY <1>2, <1>3, <1>6, <1>7, <1>8, Zenon DEF s

\* A request is sent.
LEMMA SendActs ==
    ASSUME ServerInv, ClientInv, NEW k \in Clients, call_send(k), UNCHANGED server
    PROVE  LET c == client[k].conn
           IN  \E r : /\ Acts(k, r) /\ UNCHANGED <<down, result>> /\ r.conn = c
                      /\ client[k].pc = "idle" /\ r.pc = "header"
                      /\ up'[c] = up[c] \o encode_frame("request", r.id)
<1> DEFINE c == client[k].conn
           n == client[k].id + 1
           m == client[k].calls + 1
           r == [client[k] EXCEPT !.pc = "header", !.id = n, !.calls = m]
           f == encode_frame("request", n)
<1>1. /\ client \in [Clients -> ClientRecord] /\ client[k] \in ClientRecord /\ c \in Conns /\ c # NoConn
      /\ client[k].pc = "idle" /\ n \in Nat /\ m \in Nat
      /\ up \in [Conns -> Seq(Pieces)] /\ down \in [Conns -> Seq(Pieces)]
      /\ cli \in [Conns -> {"none", "open", "closed"}] /\ up[c] \in Seq(Pieces)
      /\ result \in [Clients -> [ok : BOOLEAN, asked : Nat, answer : Nat]]
  <2>1. /\ client \in [Clients -> ClientRecord] /\ client[k] \in ClientRecord /\ c # NoConn
        /\ client[k].pc = "idle" /\ up \in [Conns -> Seq(Pieces)] /\ down \in [Conns -> Seq(Pieces)]
        /\ cli \in [Conns -> {"none", "open", "closed"}]
        /\ result \in [Clients -> [ok : BOOLEAN, asked : Nat, answer : Nat]]
    BY Zenon DEF ServerInv, Types, call_send
  <2>2. c \in Conns /\ n \in Nat /\ m \in Nat
    BY <2>1 DEF ClientRecord
  <2>3. QED
    BY <2>1, <2>2, Zenon
<1>2. UNCHANGED <<server, srv, cli, down, result>> /\ up' = [up EXCEPT ![c] = up[c] \o f]
  BY Zenon DEF call_send
<1>3. client' = [client EXCEPT ![k] = r]
  BY <1>1, Zenon DEF call_send
<1> HIDE DEF n, m
<1>4. r \in ClientRecord /\ r.conn = c /\ r.pc = "header" /\ r.id = n
  BY <1>1, Zenon DEF ClientRecord
<1>5. f \in Seq(Pieces)
  <2>1. Piece("header", "request", n) \in Pieces /\ Piece("body", "request", n) \in Pieces
    BY <1>1, ZenonT(40) DEF Piece, Pieces
  <2>2. QED
    BY <2>1, SMTT(30) DEF encode_frame
<1> HIDE DEF r, f
<1>6. up' \in [Conns -> Seq(Pieces)] /\ up'[c] = up[c] \o f /\ \A d \in Conns \ {c} : up'[d] = up[d]
  <2>1. up[c] \o f \in Seq(Pieces)
    BY <1>1, <1>5
  <2>2. QED
    BY <1>1, <1>2, <2>1, Zenon
<1>7. Acts(k, r)
  BY <1>1, <1>2, <1>3, <1>4, <1>6, Zenon DEF Acts
<1>8. QED
  BY <1>1, <1>2, <1>4, <1>6, <1>7, Zenon DEF f

\* The header of the answer is read.
LEMMA HeaderActs ==
    ASSUME ServerInv, ClientInv, NEW k \in Clients, call_header(k), UNCHANGED server,
           own_id(k, Head(down[client[k].conn]))
    PROVE  LET c == client[k].conn
           IN  \E r : /\ Acts(k, r) /\ UNCHANGED <<up, result>> /\ r.conn = c /\ r.pc = "body"
                      /\ r.id = client[k].id /\ client[k].pc = "header"
                      /\ down[c] # <<>> /\ down'[c] = Tail(down[c])
<1> DEFINE c == client[k].conn
           r == [client[k] EXCEPT !.pc = "body"]
<1>1. /\ client \in [Clients -> ClientRecord] /\ client[k] \in ClientRecord /\ c \in Conns /\ c # NoConn
      /\ client[k].pc = "header"
      /\ up \in [Conns -> Seq(Pieces)] /\ down \in [Conns -> Seq(Pieces)]
      /\ cli \in [Conns -> {"none", "open", "closed"}] /\ down[c] \in Seq(Pieces) /\ down[c] # <<>>
      /\ result \in [Clients -> [ok : BOOLEAN, asked : Nat, answer : Nat]]
  BY Zenon DEF ServerInv, Types, ClientRecord, call_header, ClientInv, Owned, ClientCanRead
<1>2. UNCHANGED <<server, srv, cli, up, result>> /\ down' = [down EXCEPT ![c] = Tail(down[c])]
  BY Zenon DEF call_header
<1>3. client' = [client EXCEPT ![k] = r]
  BY <1>1, Zenon DEF call_header
<1>4. r \in ClientRecord /\ r.conn = c /\ r.pc = "body" /\ r.id = client[k].id
  BY <1>1, Zenon DEF ClientRecord
<1> HIDE DEF r
<1>5. Tail(down[c]) \in Seq(Pieces)
  BY <1>1, SMTT(60)
<1>6. /\ down' \in [Conns -> Seq(Pieces)] /\ down'[c] = Tail(down[c])
      /\ \A d \in Conns \ {c} : down'[d] = down[d]
  BY <1>1, <1>2, <1>5, Zenon
<1>7. Acts(k, r)
  BY <1>1, <1>2, <1>3, <1>4, <1>6, Zenon DEF Acts
<1>8. QED
  BY <1>1, <1>2, <1>4, <1>6, <1>7, Zenon

\* The body of the answer is read, and the call returns.
LEMMA BodyActs ==
    ASSUME ServerInv, ClientInv, NEW k \in Clients, call_body(k), UNCHANGED server
    PROVE  LET c == client[k].conn
           IN  \E r : /\ Acts(k, r) /\ UNCHANGED up /\ r.conn = c /\ r.pc = "idle"
                      /\ client[k].pc = "body" /\ down[c] # <<>> /\ down'[c] = Tail(down[c])
                      /\ result'[k].asked = client[k].id /\ result'[k].answer = Head(down[c]).id
<1> DEFINE c == client[k].conn
           r == [client[k] EXCEPT !.pc = "idle"]
           h == Head(down[c])
           q == [ok |-> TRUE, asked |-> client[k].id, answer |-> h.id]
<1>1. /\ client \in [Clients -> ClientRecord] /\ client[k] \in ClientRecord /\ c \in Conns /\ c # NoConn
      /\ client[k].pc = "body" /\ client[k].id \in Nat
      /\ up \in [Conns -> Seq(Pieces)] /\ down \in [Conns -> Seq(Pieces)]
      /\ cli \in [Conns -> {"none", "open", "closed"}] /\ down[c] \in Seq(Pieces) /\ down[c] # <<>>
      /\ result \in [Clients -> [ok : BOOLEAN, asked : Nat, answer : Nat]]
  BY Zenon DEF ServerInv, Types, ClientRecord, call_body, ClientInv, Owned, ClientCanRead
<1>2. /\ UNCHANGED <<server, srv, cli, up>> /\ down' = [down EXCEPT ![c] = Tail(down[c])]
      /\ result' = [result EXCEPT ![k] = q]
  BY Zenon DEF call_body
<1>3. client' = [client EXCEPT ![k] = r]
  BY <1>1, Zenon DEF call_body
<1>4. r \in ClientRecord /\ r.conn = c /\ r.pc = "idle"
  BY <1>1, Zenon DEF ClientRecord
<1> HIDE DEF r
<1>5. Tail(down[c]) \in Seq(Pieces) /\ h \in Pieces
  BY <1>1, SMTT(60)
<1> HIDE DEF h
<1>6. /\ q \in [ok : BOOLEAN, asked : Nat, answer : Nat] /\ q.asked = client[k].id /\ q.answer = h.id
  BY <1>1, <1>5, Zenon DEF Pieces
<1> HIDE DEF q
<1>7. /\ down' \in [Conns -> Seq(Pieces)] /\ down'[c] = Tail(down[c])
      /\ \A d \in Conns \ {c} : down'[d] = down[d]
  BY <1>1, <1>2, <1>5, Zenon
<1>8. /\ result' \in [Clients -> [ok : BOOLEAN, asked : Nat, answer : Nat]] /\ result'[k] = q
      /\ \A l \in Clients \ {k} : result'[l] = result[l]
  BY <1>1, <1>2, <1>6, Zenon
<1>9. Acts(k, r)
  BY <1>1, <1>2, <1>3, <1>4, <1>7, <1>8, Zenon DEF Acts
<1>10. QED
  BY <1>1, <1>2, <1>4, <1>6, <1>7, <1>8, <1>9, ZenonT(40) DEF h

\* A call fails, in sending, on the wrong header or on a stream that ends; or the
\* connection is closed.
LEMMA EndActs ==
    ASSUME ServerInv, ClientInv, NEW k \in Clients, UNCHANGED server,
           \/ call_send_fails(k) \/ call_read_fails(k) \/ close(k)
           \/ call_header(k) /\ ~own_id(k, Head(down[client[k].conn]))
    PROVE  LET c == client[k].conn
           IN  \E r : /\ Acts(k, r) /\ r.pc = "idle" /\ (k \in Ports => r.conn = NoConn)
                      /\ Paired(down'[c])
                      /\ result'[k].ok => result'[k] = result[k]
<1> DEFINE c == client[k].conn
<1>1. /\ client \in [Clients -> ClientRecord] /\ client[k] \in ClientRecord
      /\ up \in [Conns -> Seq(Pieces)] /\ down \in [Conns -> Seq(Pieces)]
      /\ cli \in [Conns -> {"none", "open", "closed"}]
      /\ client[k].id + 1 \in Nat /\ client[k].calls + 1 \in Nat
      /\ c # NoConn /\ c \in Conns /\ down[c] \in Seq(Pieces) /\ Paired(down[c])
  <2>1. /\ client \in [Clients -> ClientRecord] /\ client[k] \in ClientRecord
        /\ up \in [Conns -> Seq(Pieces)] /\ down \in [Conns -> Seq(Pieces)]
        /\ cli \in [Conns -> {"none", "open", "closed"}]
    BY Zenon DEF ServerInv, Types
  <2>2. client[k].pc # "idle" \/ c # NoConn
    BY Zenon DEF call_send_fails, call_read_fails, close, call_header
  <2>3. c # NoConn
    BY <2>2, Zenon DEF ClientInv, Owned
  <2>4. c \in Conns /\ client[k].id + 1 \in Nat /\ client[k].calls + 1 \in Nat
    BY <2>1, <2>3 DEF ClientRecord
  <2>5. down[c] \in Seq(Pieces) /\ Paired(down[c])
    BY <2>1, <2>4, Zenon DEF ClientInv, Answering
  <2>6. QED
    BY <2>1, <2>3, <2>4, <2>5, Zenon
<1>2. Paired(<<>>) /\ <<>> \in Seq(Pieces)
  BY SMTT(60) DEF Paired
<1>3. ASSUME NEW q \in ClientRecord, q.conn = c, NEW rest \in Seq(Pieces), Paired(rest),
             fail(k, q, rest), UNCHANGED srv,
             up' \in [Conns -> Seq(Pieces)], \A d \in Conns \ {c} : up'[d] = up[d]
      PROVE  \E r : /\ Acts(k, r) /\ r.pc = "idle" /\ (k \in Ports => r.conn = NoConn)
                    /\ Paired(down'[c]) /\ result'[k] = NoResult
  <2>1. PICK r : /\ Acts(k, r) /\ r.pc = "idle" /\ result'[k] = NoResult
                 /\ IF k \in Apis THEN down'[c] = rest ELSE r.conn = NoConn /\ down'[c] = <<>>
    BY <1>1, <1>3, FailActs, Zenon
  <2>2. k \in Ports => k \notin Apis
    BY ClientAssumption, Zenon
  <2>3. QED
    BY <1>2, <1>3, <2>1, <2>2, Zenon
<1>4. ~NoResult.ok
  BY Zenon DEF NoResult
<1>5. CASE call_send_fails(k)
  <2> DEFINE n == client[k].id + 1
             m == client[k].calls + 1
             q == [client[k] EXCEPT !.id = n, !.calls = m]
  <2>1. q \in ClientRecord /\ q.conn = c
    BY <1>1, ZenonT(40) DEF ClientRecord
  <2>2. fail(k, q, down[c]) /\ UNCHANGED srv
    BY <1>5, ZenonT(40) DEF call_send_fails
  <2>3. \A f \in CutFrames("request", n) : f \in Seq(Pieces)
    <3> DEFINE x == Piece("scrap", "none", 0)
               h == Piece("header", "request", n)
    <3>1. x \in Pieces /\ h \in Pieces
      BY <1>1, Zenon DEF Piece, Pieces
    <3>2. CutFrames("request", n) = {<<x>>, <<h>>}
      BY Zenon DEF CutFrames
    <3> HIDE DEF x, h
    <3>3. <<x>> \in Seq(Pieces) /\ <<h>> \in Seq(Pieces)
      BY <3>1, SMTT(60)
    <3>4. QED
      BY <3>2, <3>3, ZenonT(40)
  <2>4. up' = up \/ \E f \in CutFrames("request", n) : up' = [up EXCEPT ![c] = up[c] \o f]
    BY <1>5, ZenonT(40) DEF call_send_fails
  <2> HIDE DEF q, n
  <2>5. up' \in [Conns -> Seq(Pieces)] /\ \A d \in Conns \ {c} : up'[d] = up[d]
    <3>1. CASE up' = up
      BY <1>1, <3>1, Zenon
    <3>2. ASSUME NEW f \in CutFrames("request", n), up' = [up EXCEPT ![c] = up[c] \o f]
          PROVE  up' \in [Conns -> Seq(Pieces)] /\ \A d \in Conns \ {c} : up'[d] = up[d]
      <4>1. up[c] \o f \in Seq(Pieces)
        BY <1>1, <2>3, SMTT(60)
      <4>2. QED
        BY <1>1, <3>2, <4>1, ZenonT(40)
    <3>3. QED
      BY <2>4, <3>1, <3>2, Zenon
  <2>6. QED
    BY <1>1, <1>3, <1>4, <2>1, <2>2, <2>5, ZenonT(40)
<1>6. CASE call_read_fails(k)
  <2>1. fail(k, client[k], <<>>) /\ UNCHANGED <<srv, up>>
    BY <1>6, ZenonT(40) DEF call_read_fails
  <2>2. QED
    BY <1>1, <1>2, <1>3, <1>4, <2>1, ZenonT(40)
<1>7. CASE call_header(k) /\ ~own_id(k, Head(down[c]))
  <2>1. fail(k, client[k], Tail(down[c])) /\ UNCHANGED <<srv, up>> /\ down[c] # <<>>
    BY <1>7, Zenon DEF call_header, ClientCanRead
  <2>2. Tail(down[c]) \in Seq(Pieces) /\ Paired(Tail(down[c]))
    BY <1>1, <2>1, PairedTail, ZenonT(40)
  <2>3. QED
    BY <1>1, <1>3, <1>4, <2>1, <2>2, Zenon
<1>8. CASE close(k)
  <2> DEFINE r == [client[k] EXCEPT !.conn = NoConn]
             f == encode_frame("goodbye", client[k].id + 1)
  <2>1. r \in ClientRecord /\ r.conn = NoConn /\ r.pc = "idle"
    BY <1>1, <1>8, ZenonT(40) DEF ClientRecord, close
  <2>2. client' = [client EXCEPT ![k] = r]
    BY <1>1, <1>8, Zenon DEF close
  <2>3. /\ UNCHANGED <<srv, result>> /\ cli' = [cli EXCEPT ![c] = "closed"]
        /\ down' = [down EXCEPT ![c] = <<>>]
        /\ up' = [up EXCEPT ![c] = IF ClientSendFails(c) THEN @ ELSE @ \o f]
    BY <1>8, ZenonT(40) DEF close
  <2>4. f \in Seq(Pieces)
    <3>1. Piece("header", "goodbye", client[k].id + 1) \in Pieces
      BY <1>1, Zenon DEF Piece, Pieces
    <3>2. QED
      BY <3>1, SMTT(60) DEF encode_frame
  <2> HIDE DEF r, f
  <2>5. up[c] \in Seq(Pieces) /\ up[c] \o f \in Seq(Pieces)
    BY <1>1, <2>4, SMTT(60)
  <2>6. up' \in [Conns -> Seq(Pieces)] /\ \A d \in Conns \ {c} : up'[d] = up[d]
    BY <1>1, <2>3, <2>5, Zenon
  <2>7. /\ down' \in [Conns -> Seq(Pieces)] /\ down'[c] = <<>> /\ \A d \in Conns \ {c} : down'[d] = down[d]
        /\ cli' \in [Conns -> {"none", "open", "closed"}] /\ cli'[c] = "closed"
        /\ \A d \in Conns \ {c} : cli'[d] = cli[d]
    BY <1>1, <1>2, <2>3, Zenon
  <2>8. result \in [Clients -> [ok : BOOLEAN, asked : Nat, answer : Nat]]
    BY Zenon DEF ServerInv, Types
  <2>9. Acts(k, r)
    BY <1>1, <2>1, <2>2, <2>3, <2>6, <2>7, <2>8, ZenonT(40) DEF Acts
  <2>10. QED
    BY <1>2, <2>1, <2>3, <2>7, <2>9, ZenonT(40)
<1>9. QED
  BY <1>5, <1>6, <1>7, <1>8, Zenon

\* The steps of a client on its connection.
LEMMA CallKeeps ==
    ASSUME ServerInv, ClientInv, NEW k \in Clients, Call(k)
    PROVE  ServerInv' /\ ClientInv'
<1> DEFINE c == client[k].conn
<1>1. UNCHANGED server /\ \A d \in Conns : Paired(down[d]) /\ down[d] \in Seq(Pieces)
  BY SMTT(60) DEF Call, ClientInv, Answering, ServerInv, Types
<1>2. \A l \in Clients : result[l].ok => result[l].answer = result[l].asked
  BY Zenon DEF ClientInv, OwnAnswer
<1>3. CASE call_send(k)
  <2>1. PICK r : Acts(k, r) /\ UNCHANGED <<down, result>> /\ r.pc = "header"
    BY <1>1, <1>3, SendActs, Zenon
  <2>2. Paired(down'[c])
    BY <1>1, <2>1, Zenon DEF Acts
  <2>3. QED
    BY <1>2, <2>1, <2>2, ActsKeep, Zenon
<1>4. CASE call_header(k) /\ own_id(k, Head(down[c]))
  <2>1. PICK r : /\ Acts(k, r) /\ UNCHANGED <<up, result>> /\ r.conn = c /\ r.pc = "body"
                 /\ r.id = client[k].id /\ client[k].pc = "header"
                 /\ down[c] # <<>> /\ down'[c] = Tail(down[c])
    BY <1>1, <1>4, HeaderActs, Zenon
  <2>2. c \in Conns /\ Head(down[c]).part = "header" /\ Head(down[c]).id = client[k].id
    BY <1>4, <2>1, Zenon DEF own_id, decode_frame_header, Acts
  <2>3. /\ Paired(Tail(down[c])) /\ Tail(down[c]) # <<>> /\ Tail(down[c])[1].id = client[k].id
    BY <1>1, <2>1, <2>2, PairedTail, BodyFollows, Zenon
  <2>4. QED
    BY <1>2, <2>1, <2>3, ActsKeep, ZenonT(40)
<1>5. CASE call_body(k)
  <2>1. PICK r : /\ Acts(k, r) /\ r.pc = "idle"
                 /\ client[k].pc = "body" /\ down[c] # <<>> /\ down'[c] = Tail(down[c])
                 /\ result'[k].asked = client[k].id /\ result'[k].answer = Head(down[c]).id
    BY <1>1, <1>5, BodyActs, Zenon
  <2>2. c \in Conns
    BY <2>1, ZenonT(40) DEF Acts
  <2>3. Head(down[c]) = down[c][1] /\ down[c][1].id = client[k].id
    BY <1>1, <2>1, <2>2, SMTT(60) DEF ClientInv, Answering
  <2>4. Paired(down'[c])
    BY <1>1, <2>1, <2>2, PairedTail, Zenon
  <2>5. QED
    BY <2>1, <2>3, <2>4, ActsKeep, ZenonT(40)
<1>6. CASE \/ call_send_fails(k) \/ call_read_fails(k) \/ close(k)
           \/ call_header(k) /\ ~own_id(k, Head(down[c]))
  <2>1. PICK r : /\ Acts(k, r) /\ r.pc = "idle" /\ Paired(down'[c])
                 /\ result'[k].ok => result'[k] = result[k]
    BY <1>1, <1>6, EndActs, Zenon
  <2>2. QED
    BY <1>2, <2>1, ActsKeep, Zenon
<1>7. QED
  BY <1>3, <1>4, <1>5, <1>6, Zenon DEF Call, CallStep

\* The connection a client makes is new.
LEMMA NextConnUnused ==
    ASSUME Unused # {}
    PROVE  NextConn \in Unused
<1>1. Unused \subseteq Nat
  BY SocketsAssumption, Zenon DEF Unused
<1>2. \E c \in Unused : \A d \in Unused : c <= d
  BY <1>1, LeastNat, Zenon
<1>3. QED
  BY <1>2, Zenon DEF NextConn

\* Nobody at the server has a connection that is not made yet.
LEMMA UnusedFree ==
    ASSUME ServerInv, ClientInv, NEW c \in Conns, cli[c] = "none"
    PROVE  /\ c \notin Elements(queue) \cup Elements(backlog) /\ c # acceptor.conn
           /\ \A w \in Workers : worker[w].conn # c
           /\ \A k \in Clients : client[k].conn # c
           /\ srv[c] = "none" /\ up[c] = <<>> /\ down[c] = <<>>
<1>1. srv[c] = "none" /\ up[c] = <<>> /\ down[c] = <<>> /\ c # None
  BY RecordTypes, ZenonT(40) DEF ServerInv, Ends
<1>2. c \notin Elements(queue) \cup Elements(backlog) /\ c # acceptor.conn
  BY <1>1, ZenonT(40) DEF ServerInv, Ends, Holders
<1>3. \A w \in Workers : worker[w].conn # c
  BY <1>1, ZenonT(40) DEF ServerInv, Ends, Holders
<1>4. \A k \in Clients : client[k].conn # c
  BY <1>1, Zenon DEF ClientInv, Owned, NoConn, None
<1>5. QED
  BY <1>1, <1>2, <1>3, <1>4, Zenon

LEMMA ConnectKeeps ==
    ASSUME ServerInv, ClientInv, NEW k \in Clients, Connect(k)
    PROVE  /\ ServerInv' /\ ClientInv'
           /\ \E c \in Conns : /\ cli[c] = "none" /\ client'[k].conn = c /\ client'[k].pc = "idle"
                               /\ \A l \in Clients \ {k} : client'[l] = client[l]
                               /\ UNCHANGED <<srv, up, down, worker>>
<1> DEFINE c == NextConn
           r == [client[k] EXCEPT !.conn = c, !.id = 0]
<1>1. c \in Conns /\ cli[c] = "none"
  BY NextConnUnused, Zenon DEF Connect, connect, Unused
<1>2. /\ client \in [Clients -> ClientRecord] /\ client[k] \in ClientRecord
      /\ client[k].pc = "idle" /\ backlog \in Seq(Conns) /\ Distinct(backlog)
      /\ cli \in [Conns -> {"none", "open", "closed"}]
      /\ backlog' = Append(backlog, c) /\ cli' = [cli EXCEPT ![c] = "open"]
      /\ UNCHANGED <<acceptor, queue, worker, live, owner, srv, up, down, result>>
  BY Zenon DEF ServerInv, Types, Holders, Connect, connect
<1>3. client' = [client EXCEPT ![k] = r]
  BY <1>2, Zenon DEF Connect, connect
<1> HIDE DEF c
<1>4. r \in ClientRecord /\ r.conn = c /\ r.pc = "idle"
  BY <1>1, <1>2, Zenon DEF ClientRecord
<1> HIDE DEF r
<1>5. /\ client'[k] = r /\ (\A l \in Clients \ {k} : client'[l] = client[l])
      /\ client' \in [Clients -> ClientRecord]
  BY <1>2, <1>3, <1>4, Zenon
<1>6. /\ c \notin Elements(queue) \cup Elements(backlog) /\ c # acceptor.conn /\ c # None
      /\ \A w \in Workers : worker[w].conn # c
      /\ \A l \in Clients : client[l].conn # c
      /\ srv[c] = "none" /\ up[c] = <<>> /\ down[c] = <<>>
  BY <1>1, UnusedFree, RecordTypes, ZenonT(40)
<1>7. backlog' \in Seq(Conns) /\ Elements(backlog') = Elements(backlog) \cup {c} /\ Distinct(backlog')
  <2>1. backlog' = Append(backlog, c) /\ backlog \in Seq(Conns) /\ c \in Conns
    BY <1>1, <1>2, Zenon
  <2>2. Distinct(backlog) /\ c \notin Elements(backlog)
    BY <1>1, <1>6, Zenon DEF ServerInv, Holders
  <2>3. QED
    BY <2>1, <2>2, ElementsAppend, ZenonT(40)
<1>8. /\ cli' \in [Conns -> {"none", "open", "closed"}] /\ cli'[c] = "open"
      /\ \A d \in Conns \ {c} : cli'[d] = cli[d]
  BY <1>1, <1>2, Zenon
<1>9. ServerInv'
  <2>1. Types'
    BY <1>2, <1>5, <1>7, <1>8, Zenon DEF ServerInv, Types
  <2>2. Holders'
    <3>1. /\ Distinct(queue') /\ Distinct(backlog') /\ Elements(queue') \cap Elements(backlog') = {}
          /\ acceptor'.conn # None <=> acceptor'.pc = "admit"
          /\ acceptor'.conn \notin Elements(queue') \cup Elements(backlog')
      <4>1. /\ Distinct(queue) /\ Elements(queue) \cap Elements(backlog) = {}
            /\ acceptor.conn # None <=> acceptor.pc = "admit"
            /\ acceptor.conn \notin Elements(queue) \cup Elements(backlog)
        BY Zenon DEF ServerInv, Holders
      <4>2. UNCHANGED <<queue, acceptor>>
        BY <1>2, Zenon
      <4>3. QED
        BY <1>6, <1>7, <4>1, <4>2
    <3>2. \A w \in Workers :
             /\ worker'[w].conn # None <=> Held(w)'
             /\ worker'[w].conn \notin Elements(queue') \cup Elements(backlog')
             /\ Held(w)' => worker'[w].conn # acceptor'.conn
      <4>1. \A w \in Workers :
               /\ worker[w].conn # None <=> Held(w)
               /\ worker[w].conn \notin Elements(queue) \cup Elements(backlog)
               /\ Held(w) => worker[w].conn # acceptor.conn
        BY Zenon DEF ServerInv, Holders
      <4>2. \A w \in Workers : Held(w)' <=> Held(w)
        BY <1>2, Zenon DEF Held
      <4>3. QED
        BY <1>2, <1>6, <1>7, <4>1, <4>2, Zenon
    <3>3. \A v, w \in Workers : Held(v)' /\ worker'[v].conn = worker'[w].conn => v = w
      BY <1>2, Zenon DEF ServerInv, Holders, Held
    <3>4. QED
      BY <3>1, <3>2, <3>3, Zenon DEF Holders
  <2>3. Ends'
    BY <1>1, <1>2, <1>6, <1>7, <1>8, QueuedConns, Zenon DEF ServerInv, Ends, Held
  <2>4. Listed' /\ Joined'
    BY <1>2, ZenonT(40) DEF ServerInv, Listed, Joined, Held
  <2>5. QED
    BY <2>1, <2>2, <2>3, <2>4, Zenon DEF ServerInv
<1>10. ClientInv'
  <2>1. \A l \in Clients \ {k} : client[l].conn # NoConn => client[l].conn \in Conns \ {c}
    BY <1>2, <1>6, ZenonT(40) DEF ClientRecord
  <2>2. Owned'
    BY <1>4, <1>5, <1>6, <1>8, <2>1, SMTT(60) DEF ClientInv, Owned, NoConn, None
  <2>3. Answering' /\ OwnAnswer'
    BY <1>2, <1>4, <1>5, Zenon DEF ClientInv, Answering, OwnAnswer
  <2>4. QED
    BY <2>2, <2>3, Zenon DEF ClientInv
<1>11. QED
  BY <1>1, <1>2, <1>4, <1>5, <1>9, <1>10, Zenon

LEMMA InitKept == Init => ServerInv /\ ClientInv
<1> SUFFICES ASSUME Init PROVE ServerInv /\ ClientInv
  BY Zenon
<1>1. /\ \A w \in Workers : worker[w] = Off /\ ~Held(w) /\ worker[w].conn = None
      /\ queue = <<>> /\ backlog = <<>> /\ acceptor = [pc |-> "off", conn |-> None] /\ live = {}
      /\ owner = "stopped" /\ worker \in [Workers -> WorkerRecord]
  BY RecordTypes, Zenon DEF Init, ServerInit, Held
<1>2. /\ srv = [c \in Conns |-> "none"] /\ cli = [c \in Conns |-> "none"]
      /\ up = [c \in Conns |-> <<>>] /\ down = [c \in Conns |-> <<>>]
  BY Zenon DEF Init, SocketsInit
<1>3. /\ client = [k \in Clients |-> [pc |-> "idle", conn |-> NoConn, id |-> 0, calls |-> 0]]
      /\ result = [k \in Clients |-> NoResult]
  BY Zenon DEF Init, ClientInit
<1>4. /\ client \in [Clients -> ClientRecord]
      /\ \A k \in Clients : client[k].pc = "idle" /\ client[k].conn = NoConn
  BY <1>3, Zenon DEF ClientRecord
<1>5. /\ result \in [Clients -> [ok : BOOLEAN, asked : Nat, answer : Nat]]
      /\ \A k \in Clients : ~result[k].ok
  BY <1>3, Zenon DEF NoResult
<1>6. up \in [Conns -> Seq(Pieces)] /\ down \in [Conns -> Seq(Pieces)]
  <2>1. <<>> \in Seq(Pieces)
    OBVIOUS
  <2>2. QED
    BY <1>2, <2>1, Zenon
<1>7. Types
  <2>1. acceptor \in AcceptorRecord
    BY <1>1, Zenon DEF AcceptorRecord
  <2>2. <<>> \in Seq(Conns)
    OBVIOUS
  <2>3. QED
    BY <1>1, <1>2, <1>4, <1>5, <1>6, <2>1, <2>2, ZenonT(40) DEF Types
<1>8. Holders /\ Ends /\ Listed /\ Joined
  <2>1. Holders
    BY <1>1, ElementsEmpty, Zenon DEF Holders
  <2>2. Ends
    BY <1>1, <1>2, ElementsEmpty, Zenon DEF Ends
  <2>3. Listed /\ Joined
    BY <1>1, RecordTypes, Zenon DEF Listed, Joined
  <2>4. QED
    BY <2>1, <2>2, <2>3, Zenon
<1>9. ClientInv
  <2>1. Owned /\ OwnAnswer
    BY <1>4, <1>5, ZenonT(40) DEF Owned, OwnAnswer
  <2>2. Answering
    BY <1>2, <1>4, SMTT(60) DEF Answering, Paired
  <2>3. QED
    BY <2>1, <2>2, Zenon DEF ClientInv
<1>10. QED
  BY <1>7, <1>8, <1>9, Zenon DEF ServerInv

LEMMA NextKept == ServerInv /\ ClientInv /\ [Next]_vars => ServerInv' /\ ClientInv'
<1> SUFFICES ASSUME ServerInv, ClientInv, [Next]_vars PROVE ServerInv' /\ ClientInv'
  BY Zenon
<1>1. CASE Serve
  BY <1>1, ServeStepKeeps, ServeClient, Zenon
<1>2. ASSUME NEW k \in Clients, Connect(k) PROVE ServerInv' /\ ClientInv'
  BY <1>2, ConnectKeeps, Zenon
<1>3. ASSUME NEW k \in Clients, Call(k) PROVE ServerInv' /\ ClientInv'
  BY <1>3, CallKeeps, Zenon
<1>4. CASE UNCHANGED vars
  <2>1. ServerInv'
    <3>1. /\ UNCHANGED <<srv, cli, up, down, backlog, acceptor, queue, worker, live, owner>>
          /\ UNCHANGED <<client, result>>
      BY <1>4, Zenon DEF vars, sockets, server, clients
    <3>2. Types'
      BY <3>1, Zenon DEF ServerInv, Types
    <3>3. Holders'
      BY <3>1, Zenon DEF ServerInv, Holders, Held
    <3>4. Ends'
      BY <3>1, Zenon DEF ServerInv, Ends, Held
    <3>5. Listed' /\ Joined'
      BY <3>1, ZenonT(40) DEF ServerInv, Listed, Joined, Held
    <3>6. QED
      BY <3>2, <3>3, <3>4, <3>5, Zenon DEF ServerInv
  <2>2. ClientInv'
    BY <1>4, SMTT(30) DEF vars, sockets, clients, ClientInv, Owned, Answering, OwnAnswer
  <2>3. QED
    BY <2>1, <2>2, Zenon
<1>5. QED
  BY <1>1, <1>2, <1>3, <1>4, Zenon DEF Next

\* No socket is in two hands, and live_ names only sockets that a worker still has,
\* for any numbers of workers, clients and connections: accept_loop, worker_loop and
\* stop pass a connection on, they never share it.
THEOREM HeldOnce == Spec => []OneHolder
<1>1. ServerInv => OneHolder
  <2> SUFFICES ASSUME ServerInv PROVE OneHolder
    BY Zenon
  <2>1. \A c \in live : \E w \in Workers : Held(w) /\ worker[w].conn = c
    BY Zenon DEF ServerInv, Listed
  <2>2. live \subseteq Conns
    BY <2>1, SMTT(60) DEF ServerInv, Types, WorkerRecord, Holders
  <2>3. TypeOK
    BY <2>2, QueuedConns, Zenon DEF ServerInv, Types, TypeOK, WorkerRecord, ClientRecord
  <2>4. \A v, w \in Workers : v # w /\ worker[v].conn = worker[w].conn => worker[v].conn = None
    BY ZenonT(40) DEF ServerInv, Holders
  <2>5. \A w \in Workers : worker[w].conn \notin Elements(queue) \cup Elements(backlog)
    BY Zenon DEF ServerInv, Holders
  <2>6. \A c \in live : srv[c] \in {"open", "shut"} /\ \E w \in Workers : worker[w].conn = c
    BY <2>1, SMTT(60) DEF ServerInv, Ends
  <2>7. QED
    BY <2>3, <2>4, <2>5, <2>6, Zenon DEF OneHolder
<1>2. QED
  BY InitKept, NextKept, <1>1, PTL DEF Spec

\* A call that succeeds returns the answer to its own request, whatever earlier
\* requests of the connection are answered late (TcpClient::call compares the ids).
THEOREM AnswersOwn == Spec => []OwnAnswer
<1>1. ClientInv => OwnAnswer
  BY Zenon DEF ClientInv
<1>2. QED
  BY InitKept, NextKept, <1>1, PTL DEF Spec
-----------------------------------------------------------------------------
(* The transport in use: a drain call never begins on a used connection,   *)
(* and the server is, but for progress, an RpcService.  For a drain port   *)
(* the argument follows the request, which is in one place at a time until *)
(* the answer has been read.                                               *)

\* Nobody works on connection c.
Resting(c) ==
    \A w \in Workers : worker[w].conn = c => worker[w].pc \in {"popped", "read", "leave"}
\* A worker has connection c, with the header h, at one of the places pcs.
Working(c, pcs, h) ==
    \E w \in Workers : /\ worker[w].conn = c
                       /\ worker[w].pc \in pcs /\ (worker[w].pc # "leave" => worker[w].head = h)

\* Where request n of a drain port is, on connection c: there is none; it is sent;
\* its header is read; it is read, handled or dropped; it is lost with the server
\* end; its answer is sent; the header of the answer is read.
Request(n) == encode_frame("request", n)
Response(n) == encode_frame("response", n)
Quiet(c) == up[c] = <<>> /\ down[c] = <<>> /\ Resting(c)
Sent(c, n) == up[c] = Request(n) /\ down[c] = <<>> /\ Resting(c)
Half(c, n) ==
    up[c] = <<Request(n)[2]>> /\ down[c] = <<>> /\ Working(c, {"body", "leave"}, Request(n)[1])
Taken(c, n) ==
    up[c] = <<>> /\ down[c] = <<>> /\ Working(c, {"handle", "answer", "leave"}, Request(n)[1])
Lost(c) == up[c] = <<>> /\ down[c] = <<>> /\ srv[c] = "closed"
Answered(c, n) == up[c] = <<>> /\ down[c] = Response(n) /\ Resting(c)
Begun(c, n) == up[c] = <<>> /\ down[c] = <<Response(n)[2]>> /\ Resting(c)

\* The connection carries what a port at pc expects, and nothing else.
Carries(c, n, pc) ==
    \/ pc = "idle" /\ Quiet(c)
    \/ pc = "header" /\ (Sent(c, n) \/ Half(c, n) \/ Taken(c, n) \/ Lost(c) \/ Answered(c, n))
    \/ pc = "body" /\ Begun(c, n)
Outstanding(k) == Carries(client[k].conn, client[k].id, client[k].pc)

PortInv == \A k \in Ports : client[k].conn # NoConn => Outstanding(k)
-----------------------------------------------------------------------------
(* The request of a drain port.                                            *)

\* What another step may do to the connection of a drain port: a worker takes
\* it from the queue or begins to serve it, and a closed socket stays closed.
Frames(c) ==
    /\ up'[c] = up[c] /\ down'[c] = down[c]
    /\ srv[c] = "closed" => srv'[c] = "closed"
    /\ \A w \in Workers :
          \/ worker'[w] = worker[w]
          \/ /\ worker[w].conn = c => worker[w].pc = "popped"
             /\ worker'[w].conn = c => worker'[w].pc \in {"popped", "read"}

LEMMA FramesKeep ==
    ASSUME NEW c, NEW n, NEW pc, Frames(c), Carries(c, n, pc)
    PROVE  Carries(c, n, pc)'
<1>1. Resting(c) => Resting(c)'
  BY Zenon DEF Frames, Resting
<1>2. ASSUME NEW pcs, pcs \subseteq {"body", "handle", "answer", "leave"}, NEW h, Working(c, pcs, h)
      PROVE  Working(c, pcs, h)'
  <2>1. PICK w \in Workers : /\ worker[w].conn = c
                             /\ worker[w].pc \in pcs /\ (worker[w].pc # "leave" => worker[w].head = h)
    BY <1>2 DEF Working
  <2>2. worker'[w] = worker[w]
    BY <1>2, <2>1, Zenon DEF Frames
  <2>3. QED
    BY <2>1, <2>2, Zenon DEF Working
<1>3. Half(c, n) => Half(c, n)'
  BY <1>2, Zenon DEF Half, Frames
<1>4. Taken(c, n) => Taken(c, n)'
  BY <1>2, Zenon DEF Taken, Frames
<1>5. (Quiet(c) => Quiet(c)') /\ (Sent(c, n) => Sent(c, n)') /\ (Lost(c) => Lost(c)')
  BY <1>1, Zenon DEF Quiet, Sent, Lost, Frames
<1>6. (Answered(c, n) => Answered(c, n)') /\ (Begun(c, n) => Begun(c, n)')
  BY <1>1, Zenon DEF Answered, Begun, Frames
<1>7. QED
  BY <1>3, <1>4, <1>5, <1>6 DEF Carries

\* The server end of the connection is closed.
LEMMA ClosingKeeps ==
    ASSUME NEW c, NEW n, NEW pc, Carries(c, n, pc), up'[c] = <<>>, down'[c] = down[c],
           srv'[c] = "closed", \A w \in Workers : worker'[w].conn # c
    PROVE  Carries(c, n, pc)'
<1>1. Resting(c)'
  BY Zenon DEF Resting
<1>2. Quiet(c) => Quiet(c)'
  BY <1>1 DEF Quiet
<1>3. Sent(c, n) \/ Half(c, n) \/ Taken(c, n) \/ Lost(c) => Lost(c)'
  BY Zenon DEF Sent, Half, Taken, Lost
<1>4. (Answered(c, n) => Answered(c, n)') /\ (Begun(c, n) => Begun(c, n)')
  BY <1>1, Zenon DEF Answered, Begun
<1>5. QED
  BY <1>2, <1>3, <1>4, Zenon DEF Carries

LEMMA RequestPieces ==
    ASSUME NEW n \in Nat
    PROVE  /\ Request(n)[1].part = "header" /\ Request(n)[1].kind = "request"
           /\ Request(n)[1].id = n /\ decode_frame(Request(n)[1], Request(n)[2])
           /\ Request(n) # <<>> /\ Head(Request(n)) = Request(n)[1]
           /\ Tail(Request(n)) = <<Request(n)[2]>>
           /\ Head(<<Request(n)[2]>>) = Request(n)[2] /\ Tail(<<Request(n)[2]>>) = <<>>
           /\ <<>> \o Request(n) = Request(n)
BY DEF Request, encode_frame, Piece, decode_frame

LEMMA ResponsePieces ==
    ASSUME NEW n \in Nat
    PROVE  /\ Tail(Response(n)) = <<Response(n)[2]>> /\ Tail(<<Response(n)[2]>>) = <<>>
           /\ <<>> \o encode_frame("response", n) = Response(n)
BY DEF Response, encode_frame, Piece

\* What a worker that serves a connection leaves at it.
LEMMA ServesAlone ==
    ASSUME ServerInv, NEW w \in Workers, NEW r, Serves(w, r), NEW c, worker[w].conn = c
    PROVE  /\ c \in Conns /\ srv[c] # "closed" /\ UNCHANGED srv
           /\ \A v \in Workers : worker[v].conn = c => v = w
           /\ \A v \in Workers \ {w} : worker'[v] = worker[v]
           /\ worker'[w] = r /\ r.conn = c
           /\ r.pc \in {"read", "leave"} => Resting(c)'
           /\ \A pcs, h : r.pc \in pcs /\ (r.pc # "leave" => r.head = h) => Working(c, pcs, h)'
<1>1. c \in Conns /\ Held(w)
  BY Zenon DEF Serves, ServerInv, Holders, Types, WorkerRecord
<1>2. srv[c] # "closed" /\ UNCHANGED srv
  BY <1>1, Zenon DEF ServerInv, Ends, Serves
<1>3. \A v \in Workers : worker[v].conn = c => v = w
  BY <1>1, Zenon DEF ServerInv, Holders
<1>4. worker'[w] = r /\ r.conn = c /\ \A v \in Workers \ {w} : worker'[v] = worker[v]
  BY DEF Serves, ServerInv, Types
<1>5. r.pc \in {"read", "leave"} => Resting(c)'
  BY <1>3, <1>4, Zenon DEF Resting
<1>6. \A pcs, h : r.pc \in pcs /\ (r.pc # "leave" => r.head = h) => Working(c, pcs, h)'
  BY <1>4 DEF Working
<1>7. QED
  BY <1>1, <1>2, <1>3, <1>4, <1>5, <1>6, Zenon

\* A worker goes on with the request of the port whose connection it serves.
LEMMA PortServed ==
    ASSUME ServerInv, NEW c \in Conns, NEW n \in Nat, NEW pc, Carries(c, n, pc), cli[c] = "open",
           NEW w \in Workers, worker[w].conn = c,
           \/ serve_header(w) \/ serve_body(w)
           \/ serve_read_ends(w) \/ serve_handled(w) \/ serve_answer(w) \/ serve_reject(w)
           \/ serve_send_fails(w)
    PROVE  Carries(c, n, pc)'
<1> DEFINE req == Request(n)
           rsp == Response(n)
<1>1. PICK r : /\ Serves(w, r)
               /\ \/ /\ up[c] # <<>> /\ up'[c] = Tail(up[c]) /\ UNCHANGED down
                     /\ \/ /\ worker[w].pc = "read" /\ r.head = Head(up[c])
                           /\ r.pc = IF r.head.part # "header" THEN "reject"
                                     ELSE IF r.head.kind = "goodbye" THEN "handle" ELSE "body"
                        \/ /\ worker[w].pc = "body"
                           /\ IF decode_frame(worker[w].head, Head(up[c]))
                              THEN r.pc = "handle" /\ r.head = worker[w].head
                              ELSE r.pc = "leave"
                  \/ /\ UNCHANGED up
                     /\ \/ /\ worker[w].pc \in {"read", "body", "answer", "reject"}
                           /\ r.pc = "leave" /\ UNCHANGED down
                        \/ /\ worker[w].pc = "handle" /\ r.pc = "answer" /\ r.head = worker[w].head
                           /\ UNCHANGED down
                        \/ /\ down'[c] = down[c] \o encode_frame("response", worker[w].head.id)
                           /\ worker[w].pc = "answer"
                           /\ r.pc = IF worker[w].head.kind = "goodbye" THEN "leave" ELSE "read"
                        \/ worker[w].pc = "reject" /\ r.pc = "leave"
  <2>1. CASE serve_header(w) \/ serve_body(w)
    BY <2>1, ReadServes, Zenon
  <2>2. CASE \/ serve_read_ends(w) \/ serve_handled(w) \/ serve_answer(w) \/ serve_reject(w)
             \/ serve_send_fails(w)
    BY <2>2, AnswerServes, Zenon
  <2>3. QED
    BY <2>1, <2>2, Zenon
<1>2. /\ srv[c] # "closed" /\ UNCHANGED srv
      /\ \A v \in Workers : worker[v].conn = c => v = w
      /\ r.pc \in {"read", "leave"} => Resting(c)'
      /\ \A pcs, h : r.pc \in pcs /\ (r.pc # "leave" => r.head = h) => Working(c, pcs, h)'
  BY <1>1, ServesAlone, Zenon
<1>3. worker[w].pc # "popped"
  BY <1>1, Zenon DEF Serves
<1>4. ASSUME Resting(c), up[c] = <<>> PROVE up'[c] = up[c] /\ down'[c] = down[c] /\ Resting(c)'
  <2>1. worker[w].pc \in {"read", "leave"}
    BY <1>3, <1>4, Zenon DEF Resting
  <2>2. QED
    BY <1>1, <1>2, <1>4, <2>1, Zenon
<1>5. CASE Quiet(c) /\ pc = "idle"
  BY <1>4, <1>5, Zenon DEF Quiet, Carries
<1>6. CASE Answered(c, n) /\ pc = "header"
  BY <1>4, <1>6, Zenon DEF Answered, Carries
<1>7. CASE Begun(c, n) /\ pc = "body"
  BY <1>4, <1>7, Zenon DEF Begun, Carries
<1>8. CASE Sent(c, n) /\ pc = "header"
  <2>1. worker[w].pc \in {"read", "leave"}
    BY <1>3, <1>8, Zenon DEF Resting, Sent
  <2>2. up[c] = req /\ down[c] = <<>> /\ Head(req) = req[1] /\ Tail(req) = <<req[2]>>
        /\ req[1].part = "header" /\ req[1].kind = "request"
    BY <1>8, RequestPieces, Zenon DEF Sent
  <2> HIDE DEF req
  <2>3. \/ up'[c] = <<req[2]>> /\ down'[c] = <<>> /\ r.pc = "body" /\ r.head = req[1]
        \/ up'[c] = req /\ down'[c] = <<>> /\ r.pc = "leave"
    BY <1>1, <2>1, <2>2, Zenon
  <2>4. Half(c, n)' \/ Sent(c, n)'
    BY <1>2, <2>3, Zenon DEF Half, Sent, req
  <2>5. QED
    BY <1>8, <2>4, Zenon DEF Carries
<1>9. CASE Half(c, n) /\ pc = "header"
  <2>1. worker[w].pc \in {"body", "leave"} /\ (worker[w].pc = "body" => worker[w].head = req[1])
    BY <1>2, <1>9, Zenon DEF Half, Working
  <2>2. up[c] = <<req[2]>> /\ down[c] = <<>> /\ decode_frame(req[1], req[2])
        /\ Head(<<req[2]>>) = req[2] /\ Tail(<<req[2]>>) = <<>>
    BY <1>9, RequestPieces, Zenon DEF Half
  <2> HIDE DEF req
  <2>3. \/ up'[c] = <<>> /\ down'[c] = <<>> /\ r.pc = "handle" /\ r.head = req[1]
        \/ up'[c] = <<req[2]>> /\ down'[c] = <<>> /\ r.pc = "leave"
    BY <1>1, <2>1, <2>2, Zenon
  <2>4. Half(c, n)' \/ Taken(c, n)'
    BY <1>2, <2>3, Zenon DEF Half, Taken, req
  <2>5. QED
    BY <1>9, <2>4, Zenon DEF Carries
<1>10. CASE Taken(c, n) /\ pc = "header"
  <2>1. /\ worker[w].pc \in {"handle", "answer", "leave"}
        /\ worker[w].pc # "leave" => worker[w].head = req[1]
    BY <1>2, <1>10, Zenon DEF Taken, Working
  <2>2. up[c] = <<>> /\ down[c] = <<>> /\ req[1].kind = "request" /\ req[1].id = n
        /\ <<>> \o encode_frame("response", n) = rsp
    BY <1>10, RequestPieces, ResponsePieces, Zenon DEF Taken
  <2> HIDE DEF req, rsp
  <2>3. /\ up'[c] = <<>>
        /\ \/ down'[c] = <<>> /\ r.pc = "answer" /\ r.head = req[1]
           \/ down'[c] = <<>> /\ r.pc = "leave"
           \/ down'[c] = rsp /\ r.pc = "read"
    BY <1>1, <2>1, <2>2, Zenon
  <2>4. Taken(c, n)' \/ Answered(c, n)'
    BY <1>2, <2>3, Zenon DEF Taken, Answered, req, rsp
  <2>5. QED
    BY <1>10, <2>4, Zenon DEF Carries
<1>11. ~Lost(c)
  BY <1>2, Zenon DEF Lost
<1>12. QED
  BY <1>5, <1>6, <1>7, <1>8, <1>9, <1>10, <1>11, Zenon DEF Carries

\* A step of the server leaves the connection of a port as the port expects it.
LEMMA ServePort ==
    ASSUME ServerInv, NEW c \in Conns, NEW n \in Nat, NEW pc, Carries(c, n, pc), cli[c] = "open",
           ServerNext
    PROVE  Carries(c, n, pc)'
<1>1. worker \in [Workers -> WorkerRecord] /\ c # None
  BY RecordTypes, Zenon DEF ServerInv, Types
<1>2. \A w \in Workers : ~Held(w) => worker[w].conn = None
  BY DEF ServerInv, Holders
<1>3. CASE accept_check \/ accept_fails \/ stop_mark \/ stop_join
  BY <1>3, FramesKeep
  DEF Frames, accept_check, accept_fails, stop_mark, stop_join, sockets
<1>4. CASE notify_one \/ stop_notify
  <2>1. UNCHANGED sockets
    BY <1>4 DEF notify_one, stop_notify
  <2>2. \A w \in Workers : worker'[w] = worker[w] \/ (worker[w].pc = "asleep" /\ worker'[w] = Waiting)
    BY <1>1, <1>4 DEF notify_one, stop_notify, Woken
  <2>3. QED
    BY <1>1, <1>2, <2>1, <2>2, RecordTypes, FramesKeep, Zenon DEF Frames, sockets, Held
<1>5. CASE start
  <2>1. \A w \in Workers : worker[w].pc = "off" /\ worker'[w] = Waiting
    BY <1>5 DEF start, ServerInv, Joined
  <2>2. QED
    BY <1>1, <1>2, <1>5, <2>1, RecordTypes, FramesKeep, Zenon DEF start, Frames, sockets, Held
<1>6. CASE accept
  <2>1. Head(backlog) \in Elements(backlog)
    BY <1>6, ElementsTail, Zenon DEF accept, ServerInv, Types, Holders
  <2>2. srv[Head(backlog)] = "none"
    BY <2>1, Zenon DEF ServerInv, Ends
  <2>3. srv[c] = "closed" => srv'[c] = "closed"
    BY <1>6, <2>2, Zenon DEF accept, ServerInv, Types
  <2>4. QED
    BY <1>6, <2>3, FramesKeep, Zenon DEF accept, Frames
<1>7. CASE admit
  <2>1. CASE acceptor.conn = c /\ Close({acceptor.conn})
    <3>1. \A w \in Workers : worker[w].conn # c
      BY <1>1, <1>2, <2>1, Zenon DEF ServerInv, Holders
    <3>2. up'[c] = <<>> /\ srv'[c] = "closed" /\ UNCHANGED <<down, worker>>
      BY <1>7, <2>1, Zenon DEF admit, Close
    <3>3. QED
      BY <3>1, <3>2, ClosingKeeps, Zenon
  <2>2. CASE ~(acceptor.conn = c /\ Close({acceptor.conn}))
    <3>1. up'[c] = up[c] /\ srv'[c] = srv[c] /\ UNCHANGED <<down, worker>>
      BY <1>7, <2>2, Zenon DEF admit, Close
    <3>2. QED
      BY <3>1, FramesKeep, Zenon DEF Frames
  <2>3. QED
    BY <2>1, <2>2
<1>8. CASE stop_unlisten
  <2>1. CASE c \in Elements(backlog)
    <3>1. \A w \in Workers : worker[w].conn # c
      BY <2>1, Zenon DEF ServerInv, Holders
    <3>2. up'[c] = <<>> /\ srv'[c] = "closed" /\ UNCHANGED <<down, worker>>
      BY <1>8, <2>1 DEF stop_unlisten, Close
    <3>3. QED
      BY <3>1, <3>2, ClosingKeeps
  <2>2. CASE c \notin Elements(backlog)
    <3>1. up'[c] = up[c] /\ srv'[c] = srv[c] /\ UNCHANGED <<down, worker>>
      BY <1>8, <2>2, Zenon DEF stop_unlisten, Close
    <3>2. QED
      BY <3>1, FramesKeep DEF Frames
  <2>3. QED
    BY <2>1, <2>2, Zenon
<1>9. CASE stop_cut
  <2>1. CASE c \in Elements(queue)
    <3>1. \A w \in Workers : worker[w].conn # c
      BY <2>1, Zenon DEF ServerInv, Holders
    <3>2. c \notin live
      BY <3>1, ZenonT(40) DEF ServerInv, Listed
    <3>3. up'[c] = <<>> /\ srv'[c] = "closed" /\ UNCHANGED <<down, worker>>
      BY <1>9, <2>1, <3>2, Zenon DEF stop_cut
    <3>4. QED
      BY <3>1, <3>3, ClosingKeeps
  <2>2. CASE c \notin Elements(queue)
    <3>1. up'[c] = up[c] /\ UNCHANGED <<down, worker>> /\ (c \notin live => srv'[c] = srv[c])
      BY <1>9, <2>2, ZenonT(40) DEF stop_cut
    <3>2. c \in live => srv[c] # "closed"
      BY DEF ServerInv, Listed, Ends
    <3>3. QED
      BY <3>1, <3>2, FramesKeep, Zenon DEF Frames
  <2>3. QED
    BY <2>1, <2>2
<1>10. ASSUME NEW w \in Workers, WorkerStep(w) PROVE Carries(c, n, pc)'
  <2>1. CASE worker_wait(w)
    <3>1. worker[w].conn = None /\ \A v \in Workers \ {w} : worker'[v] = worker[v]
      BY <1>1, <1>2, <2>1 DEF worker_wait, Held
    <3>2. worker'[w].conn = None \/ worker'[w].pc = "popped"
      BY <1>1, <2>1, <3>1 DEF worker_wait, WorkerRecord
    <3>3. UNCHANGED sockets
      BY <2>1, ZenonT(40) DEF worker_wait
    <3>4. QED
      BY <1>1, <3>1, <3>2, <3>3, FramesKeep, ZenonT(40) DEF Frames, sockets
  <2>2. CASE serve_enter(w)
    <3>1. /\ worker[w].pc = "popped" /\ worker'[w].pc = "read"
          /\ \A v \in Workers \ {w} : worker'[v] = worker[v]
      BY <1>1, <2>2 DEF serve_enter, WorkerRecord
    <3>2. UNCHANGED sockets
      BY <2>2 DEF serve_enter
    <3>3. QED
      BY <3>1, <3>2, FramesKeep, Zenon DEF Frames, sockets
  <2>3. CASE serve_leave(w)
    <3>1. worker'[w] = Waiting /\ Waiting.conn # c /\ \A v \in Workers \ {w} : worker'[v] = worker[v]
      BY <1>1, <2>3, RecordTypes, Zenon DEF serve_leave
    <3>2. CASE worker[w].conn = c
      <4>1. \A v \in Workers \ {w} : worker[v].conn # c
        BY <2>3, <3>2, Zenon DEF ServerInv, Holders, serve_leave, Held
      <4>2. up'[c] = <<>> /\ srv'[c] = "closed" /\ UNCHANGED down
        BY <2>3, <3>2, Zenon DEF serve_leave, Close
      <4>3. QED
        BY <3>1, <4>1, <4>2, ClosingKeeps, Zenon
    <3>3. CASE worker[w].conn # c
      <4>1. up'[c] = up[c] /\ srv'[c] = srv[c] /\ UNCHANGED down
        BY <2>3, <3>3, Zenon DEF serve_leave, Close
      <4>2. QED
        BY <3>1, <3>3, <4>1, FramesKeep, Zenon DEF Frames
    <3>4. QED
      BY <3>2, <3>3
  <2>4. ASSUME NEW r, Serves(w, r), worker[w].conn # c PROVE Carries(c, n, pc)'
    <3>1. up'[c] = up[c] /\ down'[c] = down[c] /\ UNCHANGED srv
      BY <2>4, Zenon DEF Serves
    <3>2. worker'[w] = r /\ r.conn # c /\ \A v \in Workers \ {w} : worker'[v] = worker[v]
      BY <1>1, <2>4, Zenon DEF Serves
    <3>3. QED
      BY <2>4, <3>1, <3>2, FramesKeep, Zenon DEF Frames
  <2>5. CASE serve_header(w) \/ serve_body(w)
    BY <2>4, <2>5, ReadServes, PortServed, Zenon
  <2>6. CASE \/ serve_read_ends(w) \/ serve_handled(w) \/ serve_answer(w) \/ serve_reject(w)
             \/ serve_send_fails(w)
    BY <2>4, <2>6, AnswerServes, PortServed, ZenonT(40)
  <2>7. QED
    BY <1>10, <2>1, <2>2, <2>3, <2>5, <2>6, Zenon DEF WorkerStep
<1>11. QED
  BY <1>3, <1>4, <1>5, <1>6, <1>7, <1>8, <1>9, <1>10, Zenon DEF ServerNext, AcceptStep, StopStep

\* The steps of the clients: the port's own, and the others', which have other
\* connections.
LEMMA CallPort ==
    ASSUME ServerInv, ClientInv, PortInv, NEW l \in Clients, Call(l)
    PROVE  PortInv'
<1> SUFFICES ASSUME NEW k \in Ports, client'[k].conn # NoConn PROVE Outstanding(k)'
  BY Zenon DEF PortInv
<1>1. k \in Clients /\ UNCHANGED server
  BY DEF Clients, Call
<1>2. client \in [Clients -> ClientRecord]
  BY DEF ServerInv, Types
<1>3. ASSUME NEW r, Acts(l, r), l # k PROVE Outstanding(k)'
  <2>1. client'[k] = client[k] /\ client[k].conn # NoConn
    BY <1>1, <1>2, <1>3, Zenon DEF Acts
  <2>2. PICK c \in Conns, n \in Nat, pc \in {"idle", "header", "body"} :
           client[k].conn = c /\ client[k].id = n /\ client[k].pc = pc
    BY <1>1, <1>2, <2>1, ZenonT(40) DEF ClientRecord
  <2>3. client[l].conn # c
    BY <1>1, <1>3, <2>1, <2>2, Zenon DEF ClientInv, Owned
  <2>4. Frames(c)
    BY <1>3, <2>3, Zenon DEF Frames, Acts, server
  <2>5. Carries(c, n, pc)
    BY <2>1, <2>2, Zenon DEF PortInv, Outstanding
  <2>6. Carries(c, n, pc)'
    BY <2>4, <2>5, FramesKeep
  <2>7. QED
    BY <2>1, <2>2, <2>6 DEF Outstanding
<1>4. ASSUME NEW r, Acts(k, r), r.conn # NoConn, l = k,
             NEW c \in Conns, client[k].conn = c, Carries(c, r.id, r.pc)'
      PROVE  Outstanding(k)'
  <2>1. client'[k] = r /\ r.conn = c
    BY <1>1, <1>2, <1>4, ZenonT(40) DEF Acts
  <2>2. QED
    BY <1>4, <2>1, Zenon DEF Outstanding
<1>5. ASSUME NEW r, Acts(k, r), r.conn # NoConn, l = k
      PROVE  /\ client[k].conn \in Conns /\ r.id \in Nat /\ Outstanding(k)
             /\ \A c : Resting(c) => Resting(c)'
  <2>1. client[k].conn \in Conns /\ client[k].conn # NoConn /\ r.id \in Nat
    BY <1>5, RecordTypes, Zenon DEF Acts, ClientRecord, None, NoConn
  <2>2. UNCHANGED worker
    BY <1>1 DEF server
  <2>3. QED
    BY <2>1, <2>2 DEF PortInv, Resting
<1>6. CASE l = k /\ call_send(k)
  <2>1. PICK c : c = client[k].conn
    OBVIOUS
  <2>2. PICK r : /\ Acts(k, r) /\ UNCHANGED <<down, result>> /\ r.conn = c
                 /\ client[k].pc = "idle" /\ r.pc = "header"
                 /\ up'[c] = up[c] \o encode_frame("request", r.id)
    BY <1>1, <1>6, <2>1, SendActs, Zenon
  <2>3. r.conn # NoConn
    BY <2>2, Zenon DEF Acts
  <2>4. c \in Conns /\ r.id \in Nat /\ Quiet(c) /\ Resting(c)'
    BY <1>5, <1>6, <2>1, <2>2, <2>3, Zenon DEF Outstanding, Carries, Quiet
  <2>5. up'[c] = Request(r.id) /\ down'[c] = <<>>
    BY <2>2, <2>4, RequestPieces, Zenon DEF Quiet, Request
  <2>6. Carries(c, r.id, r.pc)'
    BY <2>2, <2>4, <2>5, Zenon DEF Carries, Sent
  <2>7. QED
    BY <1>4, <1>6, <2>1, <2>2, <2>3, <2>4, <2>6, Zenon
<1>7. CASE l = k /\ call_header(k) /\ own_id(k, Head(down[client[k].conn]))
  <2>1. PICK c : c = client[k].conn
    OBVIOUS
  <2>2. PICK r : /\ Acts(k, r) /\ UNCHANGED <<up, result>> /\ r.conn = c /\ r.pc = "body"
                 /\ r.id = client[k].id /\ client[k].pc = "header"
                 /\ down[c] # <<>> /\ down'[c] = Tail(down[c])
    BY <1>1, <1>7, <2>1, HeaderActs, Zenon
  <2>3. r.conn # NoConn
    BY <2>2, Zenon DEF Acts
  <2>4. c \in Conns /\ r.id \in Nat /\ Answered(c, r.id) /\ Resting(c)'
    BY <1>5, <1>7, <2>1, <2>2, <2>3, Zenon DEF Outstanding, Carries, Sent, Half, Taken, Lost, Answered
  <2>5. up'[c] = <<>> /\ down'[c] = <<Response(r.id)[2]>>
    BY <2>2, <2>4, ResponsePieces, Zenon DEF Answered
  <2>6. Carries(c, r.id, r.pc)'
    BY <2>2, <2>4, <2>5, Zenon DEF Carries, Begun
  <2>7. QED
    BY <1>4, <1>7, <2>1, <2>2, <2>3, <2>4, <2>6, Zenon
<1>8. CASE l = k /\ call_body(k)
  <2>1. PICK c : c = client[k].conn
    OBVIOUS
  <2>2. PICK r : /\ Acts(k, r) /\ UNCHANGED up /\ r.conn = c /\ r.pc = "idle"
                 /\ client[k].pc = "body" /\ down[c] # <<>> /\ down'[c] = Tail(down[c])
    BY <1>1, <1>8, <2>1, BodyActs, Zenon
  <2>3. client[k].id \in Nat /\ r.conn # NoConn
    BY <1>1, <1>2, <1>8, <2>1, <2>2, Zenon DEF ClientRecord, ClientInv, Owned
  <2>4. c \in Conns /\ Begun(c, client[k].id) /\ Resting(c)'
    BY <1>5, <1>8, <2>1, <2>2, <2>3, Zenon DEF Outstanding, Carries, Begun
  <2>5. up'[c] = <<>> /\ down'[c] = <<>>
    BY <2>2, <2>3, <2>4, ResponsePieces, Zenon DEF Begun
  <2>6. Carries(c, r.id, r.pc)'
    BY <2>2, <2>4, <2>5, Zenon DEF Carries, Quiet
  <2>7. QED
    BY <1>4, <1>8, <2>1, <2>2, <2>3, <2>4, <2>6, Zenon
<1>9. CASE l = k /\ (\/ call_send_fails(k) \/ call_read_fails(k) \/ close(k)
                     \/ call_header(k) /\ ~own_id(k, Head(down[client[k].conn])))
  <2>1. PICK r : Acts(k, r) /\ r.conn = NoConn
    BY <1>1, <1>9, EndActs, ZenonT(40)
  <2>2. client'[k].conn = NoConn
    BY <1>1, <1>2, <2>1 DEF Acts
  <2>3. QED
    BY <2>2
<1>10. \E r : Acts(l, r)
  BY <1>1, SendActs, HeaderActs, BodyActs, EndActs, Zenon DEF Call, CallStep
<1>11. QED
  BY <1>3, <1>6, <1>7, <1>8, <1>9, <1>10, Zenon DEF Call, CallStep

LEMMA NextPort == ServerInv /\ ClientInv /\ PortInv /\ [Next]_vars => PortInv'
<1> SUFFICES ASSUME ServerInv, ClientInv, PortInv, [Next]_vars PROVE PortInv'
  OBVIOUS
<1>1. Ports \subseteq Clients /\ client \in [Clients -> ClientRecord]
  BY DEF Clients, ServerInv, Types
<1>2. ASSUME NEW k \in Ports, client[k].conn # NoConn, client'[k] = client[k],
             Serve \/ UNCHANGED vars \/ UNCHANGED <<srv, up, down, worker>>
      PROVE  Outstanding(k)'
  <2>1. PICK c \in Conns, n \in Nat, pc \in {"idle", "header", "body"} :
           client[k].conn = c /\ client[k].id = n /\ client[k].pc = pc
    BY <1>1, <1>2 DEF ClientRecord
  <2>2. cli[c] = "open" /\ Carries(c, n, pc)
    BY <1>1, <1>2, <2>1, Zenon DEF PortInv, Outstanding, ClientInv, Owned
  <2>3. CASE Serve
    BY <2>2, <2>3, <1>2, <2>1, ServePort, Zenon DEF Serve, Outstanding
  <2>4. CASE UNCHANGED vars \/ UNCHANGED <<srv, up, down, worker>>
    <3>1. Frames(c)
      BY <2>4, Zenon DEF Frames, vars, sockets, server
    <3>2. Carries(c, n, pc)'
      BY <2>2, <3>1, FramesKeep
    <3>3. QED
      BY <1>2, <2>1, <3>2 DEF Outstanding
  <2>5. QED
    BY <1>2, <2>3, <2>4, ZenonT(40)
<1>3. CASE Serve \/ UNCHANGED vars
  <2>1. UNCHANGED client
    BY <1>3 DEF Serve, vars, clients
  <2>2. QED
    BY <1>2, <1>3, <2>1 DEF PortInv
<1>4. ASSUME NEW l \in Clients, Connect(l) PROVE PortInv'
  <2>1. PICK c \in Conns : /\ cli[c] = "none" /\ client'[l].conn = c /\ client'[l].pc = "idle"
                           /\ \A k \in Clients \ {l} : client'[k] = client[k]
                           /\ UNCHANGED <<srv, up, down, worker>>
    BY <1>4, ConnectKeeps, Zenon
  <2>2. Quiet(c)'
    BY <2>1, UnusedFree, Zenon DEF Quiet, Resting
  <2>3. l \in Ports => Outstanding(l)'
    BY <2>1, <2>2, Zenon DEF Outstanding, Carries
  <2>4. ASSUME NEW k \in Ports, k # l, client'[k].conn # NoConn PROVE Outstanding(k)'
    BY <1>1, <1>2, <2>1, <2>4, Zenon
  <2>5. QED
    BY <2>3, <2>4 DEF PortInv
<1>5. QED
  BY <1>3, <1>4, CallPort DEF Next

\* A drain call never begins on a connection that carries something of an earlier
\* call, whatever answers come late and wherever the server stops:
\* RemoteDrainPort::call replaces the connection of every call that fails.
THEOREM PortStreamClean == Spec => CleanStream
<1> DEFINE Clean ==
      \A k \in Ports : client[k].calls # client'[k].calls =>
          LET c == client[k].conn
          IN  up[c] = <<>> /\ down[c] = <<>>
              /\ \A w \in Workers : worker[w].conn = c => worker[w].pc \in {"popped", "read", "leave"}
<1>1. Init => PortInv
  BY DEF Init, ClientInit, PortInv, Clients
<1>2. ServerInv /\ ClientInv /\ PortInv /\ [Next]_vars => Clean
  <2> SUFFICES ASSUME ServerInv, ClientInv, PortInv, [Next]_vars,
                      NEW k \in Ports, client[k].calls # client'[k].calls
               PROVE  Quiet(client[k].conn)
    BY Zenon DEF Quiet, Resting
  <2>1. k \in Clients /\ client \in [Clients -> ClientRecord]
    BY DEF Clients, ServerInv, Types
  <2>2. PICK l \in Clients : Connect(l) \/ Call(l)
    BY DEF Next, Serve, vars, clients
  <2>3. ~Connect(l)
    <3>1. SUFFICES ASSUME connect(l) PROVE client'[k].calls = client[k].calls
      BY DEF Connect
    <3>2. client' = [client EXCEPT ![l].conn = NextConn, ![l].id = 0]
      BY <3>1, Zenon DEF connect
    <3>3. QED
      BY <2>1, <2>2, <3>2, Zenon DEF ClientRecord
  <2>4. ~(call_header(l) \/ call_body(l) \/ call_read_fails(l) \/ close(l))
    <3>1. ASSUME NEW rest, fail(l, client[l], rest) PROVE client'[k].calls = client[k].calls
      BY <2>1, <2>2, <3>1 DEF fail, ClientRecord
    <3>2. close(l) => client'[k].calls = client[k].calls
      BY <2>1, <2>2 DEF close, ClientRecord
    <3>3. call_header(l) => client'[k].calls = client[k].calls
      BY <2>1, <2>2, <3>1 DEF call_header, ClientRecord
    <3>4. call_body(l) => client'[k].calls = client[k].calls
      BY <2>1, <2>2 DEF call_body, ClientRecord
    <3>5. call_read_fails(l) => client'[k].calls = client[k].calls
      BY <2>1, <2>2, <3>1 DEF call_read_fails, ClientRecord
    <3>6. QED
      BY <3>2, <3>3, <3>4, <3>5
  <2>5. client[l].pc = "idle" /\ client[l].conn # NoConn /\ \E r : Acts(l, r)
    BY <2>2, <2>3, <2>4, SendActs, EndActs, Zenon DEF Call, CallStep, call_send, call_send_fails
  <2>6. l = k
    BY <2>1, <2>5, Zenon DEF Acts
  <2>7. QED
    BY <2>5, <2>6, Zenon DEF PortInv, Outstanding, Carries
<1>3. QED
  BY InitKept, NextKept, NextPort, <1>1, <1>2, PTL DEF Spec, CleanStream
-----------------------------------------------------------------------------
(* The server is an RpcService.                                            *)

\* A step of the service, in terms of the server.
ServiceStep ==
    \/ Phase = "down" /\ Phase' = "up" /\ Busy' = Busy
    \/ Phase = "up" /\ Phase' = "stopping" /\ Busy' = Busy
    \/ Phase = "stopping" /\ Busy = {} /\ Phase' = "down" /\ Busy' = Busy
    \/ \E c \in Conns : /\ Phase # "down" /\ c \notin Busy
                        /\ Cardinality(Busy) < Cardinality(Workers)
                        /\ Busy' = Busy \cup {c} /\ Phase' = Phase
    \/ \E c \in Conns : c \in Busy /\ Busy' = Busy \ {c} /\ Phase' = Phase
    \/ Phase' = Phase /\ Busy' = Busy

LEMMA SameBusy ==
    ASSUME \A w \in Workers : \/ worker'[w] = worker[w]
                              \/ worker[w].pc # "handle" /\ worker'[w].pc # "handle"
    PROVE  Busy' = Busy
<1>1. Handling' = Handling /\ \A w \in Handling : worker'[w].conn = worker[w].conn
  BY DEF Handling
<1>2. QED
  BY <1>1 DEF Busy

\* When a worker is not handling a request, fewer requests are handled than there
\* are workers.
LEMMA BusyBound ==
    ASSUME NEW w \in Workers, w \notin Handling
    PROVE  Cardinality(Busy) < Cardinality(Workers)
<1> DEFINE f == [v \in Handling |-> worker[v].conn]
<1>1. IsFiniteSet(Workers) /\ Handling \subseteq Workers \ {w}
  BY ServerAssumption DEF Handling
<1>2. IsFiniteSet(Workers \ {w}) /\ Cardinality(Workers \ {w}) = Cardinality(Workers) - 1
  BY <1>1, FS_RemoveElement, Zenon
<1>3. IsFiniteSet(Handling) /\ Cardinality(Handling) <= Cardinality(Workers \ {w})
  BY <1>1, <1>2, FS_Subset, Zenon
<1>4. f \in Surjection(Handling, Busy)
  BY DEF Surjection, Busy
<1>5. IsFiniteSet(Busy) /\ Cardinality(Busy) <= Cardinality(Handling)
  BY <1>3, <1>4, FS_Surjection
<1>6. Cardinality(Busy) \in Nat /\ Cardinality(Handling) \in Nat /\ Cardinality(Workers) \in Nat
  BY <1>1, <1>3, <1>5, FS_CardinalityType, Zenon
<1>7. QED
  BY <1>2, <1>3, <1>5, <1>6

\* A worker goes on with its request: its handler begins, ends, or does neither.
LEMMA ServesService ==
    ASSUME ServerInv, NEW w \in Workers, NEW r, Serves(w, r)
    PROVE  ServiceStep
<1> DEFINE c == worker[w].conn
<1>1. /\ worker'[w] = r /\ r.conn = c /\ \A v \in Workers \ {w} : worker'[v] = worker[v]
      /\ c \in Conns /\ Phase' = Phase
  BY SMTT(30) DEF ServerInv, Types, WorkerRecord, Holders, Serves, Phase
<1>2. \A v \in Workers \ {w} : worker[v].conn # c
  BY Zenon DEF ServerInv, Holders, Serves
<1>3. CASE worker[w].pc # "handle" /\ r.pc # "handle"
  BY <1>1, <1>3, SameBusy, Zenon DEF ServiceStep
<1>4. CASE worker[w].pc # "handle" /\ r.pc = "handle"
  <2>1. Handling' = Handling \cup {w} /\ w \notin Handling
    BY <1>1, <1>4, Zenon DEF Handling
  <2>2. Busy' = Busy \cup {c} /\ c \notin Busy
    BY <1>1, <1>2, <2>1 DEF Busy, Handling
  <2>3. Phase # "down"
    BY Zenon DEF ServerInv, Joined, Phase, Serves, Held
  <2>4. QED
    BY <1>1, <2>1, <2>2, <2>3, BusyBound, Zenon DEF ServiceStep
<1>5. CASE worker[w].pc = "handle" /\ r.pc # "handle"
  <2>1. Handling' = Handling \ {w} /\ w \in Handling
    BY <1>1, <1>5, ZenonT(40) DEF Handling
  <2>2. Busy' = Busy \ {c} /\ c \in Busy
    BY <1>1, <1>2, <2>1 DEF Busy, Handling
  <2>3. QED
    BY <1>1, <2>2 DEF ServiceStep
<1>6. CASE worker[w].pc = "handle" /\ r.pc = "handle"
  <2>1. Handling' = Handling /\ \A v \in Workers : worker'[v].conn = worker[v].conn
    BY <1>1, <1>6, Zenon DEF Handling
  <2>2. Busy' = Busy
    BY <2>1 DEF Busy, Handling
  <2>3. QED
    BY <1>1, <2>2, Zenon DEF ServiceStep
<1>7. QED
  BY <1>3, <1>4, <1>5, <1>6, ZenonT(40)

LEMMA NextService ==
    ASSUME ServerInv, ClientInv, [Next]_vars
    PROVE  ServiceStep
<1>1. worker \in [Workers -> WorkerRecord]
  BY DEF ServerInv, Types
<1>2. CASE UNCHANGED <<worker, owner>>
  <2>1. Busy' = Busy /\ Phase' = Phase
    BY <1>2, Zenon DEF Busy, Handling, Phase
  <2>2. QED
    BY <2>1 DEF ServiceStep
<1>3. CASE AcceptStep
  <2>1. UNCHANGED owner
    BY <1>3 DEF AcceptStep, accept_check, accept, accept_fails, admit, notify_one
  <2>2. \A w \in Workers : worker'[w] = worker[w] \/ (worker[w].pc # "handle" /\ worker'[w].pc # "handle")
    BY <1>1, <1>3, RecordTypes, Zenon DEF AcceptStep, accept_check, accept, accept_fails, admit, notify_one
  <2>3. QED
    BY <2>1, <2>2, SameBusy, Zenon DEF ServiceStep, Phase
<1>4. CASE start
  <2>1. Phase = "down" /\ Phase' = "up"
    BY <1>4, Zenon DEF start, Phase
  <2>2. \A w \in Workers : worker[w].pc # "handle" /\ worker'[w].pc # "handle"
    BY <1>4, RecordTypes, Zenon DEF start, ServerInv, Joined
  <2>3. QED
    BY <2>1, <2>2, SameBusy DEF ServiceStep
<1>5. CASE stop_mark
  <2>1. Phase = "up" /\ Phase' = "stopping" /\ UNCHANGED worker
    BY <1>5 DEF stop_mark, Phase
  <2>2. QED
    BY <2>1, SameBusy DEF ServiceStep
<1>6. CASE stop_unlisten \/ stop_cut \/ stop_notify
  <2>1. Phase' = Phase
    BY <1>6 DEF stop_unlisten, stop_cut, stop_notify, Phase
  <2>2. \A w \in Workers : worker'[w] = worker[w] \/ (worker[w].pc # "handle" /\ worker'[w].pc # "handle")
    BY <1>1, <1>6, RecordTypes, Zenon DEF stop_unlisten, stop_cut, stop_notify, Woken
  <2>3. QED
    BY <2>1, <2>2, SameBusy, ZenonT(40) DEF ServiceStep
<1>7. CASE stop_join
  <2>1. Phase = "stopping" /\ Phase' = "down" /\ UNCHANGED worker /\ Handling = {}
    BY <1>7 DEF stop_join, Phase, Handling
  <2>2. Busy = {} /\ Busy' = Busy
    BY <2>1, SameBusy, Zenon DEF Busy
  <2>3. QED
    BY <2>1, <2>2 DEF ServiceStep
<1>8. ASSUME NEW w \in Workers, WorkerStep(w) PROVE ServiceStep
  <2>1. CASE worker_wait(w) \/ serve_enter(w) \/ serve_leave(w)
    <3>1. Phase' = Phase
      BY <2>1 DEF worker_wait, serve_enter, serve_leave, Phase
    <3>2. \A v \in Workers : worker'[v] = worker[v] \/ (worker[v].pc # "handle" /\ worker'[v].pc # "handle")
      BY <1>1, <2>1, RecordTypes DEF worker_wait, serve_enter, serve_leave, WorkerRecord
    <3>3. QED
      BY <3>1, <3>2, SameBusy DEF ServiceStep
  <2>2. CASE serve_header(w) \/ serve_body(w)
    <3>1. PICK r : Serves(w, r)
      BY <2>2, ReadServes, Zenon
    <3>2. QED
      BY <3>1, ServesService
  <2>3. CASE \/ serve_read_ends(w) \/ serve_handled(w) \/ serve_answer(w) \/ serve_reject(w)
             \/ serve_send_fails(w)
    <3>1. PICK r : Serves(w, r)
      BY <2>3, AnswerServes, Zenon
    <3>2. QED
      BY <3>1, ServesService
  <2>4. QED
    BY <1>8, <2>1, <2>2, <2>3, Zenon DEF WorkerStep
<1>9. CASE Serve
  BY <1>3, <1>4, <1>5, <1>6, <1>7, <1>8, <1>9, ZenonT(40) DEF Serve, ServerNext, StopStep
<1>10. ASSUME NEW k \in Clients, Connect(k) \/ Call(k) PROVE UNCHANGED <<worker, owner>>
  BY <1>10 DEF Connect, Call, server
<1>11. CASE UNCHANGED vars
  BY <1>2, <1>11 DEF vars, server
<1>12. QED
  BY <1>2, <1>9, <1>10, <1>11, ZenonT(40) DEF Next

\* Every step of the server, its clients and its owner is a step of RpcService or
\* leaves it alone: handlers run only between start and the return of stop, one for
\* a connection, and never more than there are workers.
THEOREM ServiceSafe == Spec => Service!Safe
<1>1. Init => Service!Init
  BY RecordTypes, Zenon DEF Init, ServerInit, Service!Init, Phase, Busy, Handling
<1>2. ServerInv /\ ClientInv /\ [Next]_vars => [Service!Next]_<<Phase, Busy>>
  <2>1. ServerInv /\ ClientInv /\ [Next]_vars => ServiceStep
    BY NextService
  <2>0. Service!Cardinality(Busy) = Cardinality(Busy)
    BY DEF Service!Cardinality, Cardinality
  <2>2. ServiceStep => Service!Next \/ UNCHANGED <<Phase, Busy>>
    BY <2>0 DEF ServiceStep, Service!Next, Service!Start, Service!Stop, Service!Stopped,
       Service!Begin, Service!End
  <2>3. QED
    BY <2>1, <2>2
<1>3. QED
  BY InitKept, NextKept, <1>1, <1>2, PTL DEF Spec, Service!Safe
=============================================================================
