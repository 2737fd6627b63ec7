------------------------------ MODULE ApiProofs ------------------------------
(***************************************************************************)
(* What module Api promises of every command line, whatever the bounds of  *)
(* the protocol and the answers of the controller: a command that fits the *)
(* protocol does the same in both modes, and one that exits with 0 has     *)
(* been performed as asked.                                                *)
(***************************************************************************)
EXTENDS Api, TLAPS

\* The numbers among the constants.
LEMMA Bounds ==
    /\ NameLength \in Nat /\ TitleLength \in Nat /\ ReasonLength \in Nat /\ DetailLength \in Nat
    /\ MaxTargets \in Nat /\ MaxDeps \in Nat /\ MaxText \in Nat /\ MaxBody \in Nat /\ MaxListed \in Nat
    /\ Sizes \subseteq Nat /\ MaxListed <= MaxBody /\ 0 < NameLength /\ NameLength <= ReasonLength
<1>1. {NameLength, TitleLength, ReasonLength, DetailLength, MaxTargets, MaxDeps, MaxText, MaxBody, MaxListed}
            \cup Sizes \subseteq Nat
  BY ApiAssumption
<1>2. QED
  BY <1>1, ApiAssumption, Zenon

\* The operations a command may call for.
Ops(c) ==
    CASE c.name = "arm" -> {"rearm"}
      [] c.name = "start" -> {"tick", "status", "explain"}
      [] c.name = "status" -> {"list", "status", "explain"}
      [] c.name = "complete" -> {"report_completion"}
      [] c.name = "restore" -> {"report_restoration"}
      [] c.name = "clear-quarantine" -> {"clear_quarantine"}
      [] OTHER -> {c.name}

\* The request as the handler of mfd has decoded it.
Arrived(r) == handler(r.op, body(r))

\* What the protocol never changes of a request.
SameSubject(q, r) ==
    /\ q.op = r.op /\ q.job = r.job /\ q.attempt = r.attempt /\ q.target = r.target
    /\ q.ok = r.ok /\ q.targets = r.targets /\ q.deps = r.deps
-----------------------------------------------------------------------------
(* The bodies, operation by operation.  A string within its bound is        *)
(* written as it is.                                                        *)

\* A string within its bound is written as it is (ByteWriter::str).
LEMMA StrKeeps == ASSUME NEW s \in Nat, NEW max \in Nat, s <= max PROVE str(s, max) = s
  BY DEF str

\* The last name given to a proposal counts.
LEMMA Overwrite ==
    ASSUME NEW f, NEW x, NEW y
    PROVE  [[f EXCEPT !.actor = x] EXCEPT !.actor = y] = [f EXCEPT !.actor = y]
  BY Zenon

\* decode_request_body refuses lists over their bounds; any other proposal
\* arrives with the daemon's name (handler of mfd, the case of propose).
LEMMA ArrivesPropose ==
    ASSUME NEW c
    PROVE  LET r == request(c, "propose")
               d == Arrived(r)
           IN  /\ r.op = "propose" /\ r.targets = c.targets /\ r.deps = c.deps
               /\ Len(c.targets) > MaxTargets \/ Len(c.deps) > MaxDeps => d.error = "LimitExceeded"
               /\ ~(Len(c.targets) > MaxTargets \/ Len(c.deps) > MaxDeps) =>
                    /\ d.error = "Ok" /\ SameSubject(d.request, r)
                    /\ str(c.title, TitleLength) = c.title /\ str(c.text, ReasonLength) = c.text =>
                         d.request = [r EXCEPT !.actor = RemoteActor]
<1> DEFINE r == request(c, "propose")
           b == body(r)
<1>1. r = [Request("propose") EXCEPT !.title = c.title, !.text = c.text, !.targets = c.targets,
                                     !.deps = c.deps, !.actor = c.actor]
  BY Zenon DEF request
<1> HIDE DEF r
<1>2. /\ r.op = "propose" /\ r.title = c.title /\ r.text = c.text /\ r.targets = c.targets /\ r.deps = c.deps
      /\ r.job = 0 /\ r.attempt = 0 /\ r.target = 0 /\ r.ok = TRUE
  BY <1>1 DEF Request
<1>3. b = <<str(c.title, TitleLength), str(c.text, ReasonLength), c.targets, c.deps>>
  BY <1>2 DEF body, encode_request_body
<1> HIDE DEF b
<1>4. b[1] = str(c.title, TitleLength) /\ b[2] = str(c.text, ReasonLength) /\ b[3] = c.targets /\ b[4] = c.deps
  BY <1>3
<1>5. Arrived(r) = [decode_request_body(b) EXCEPT !.request.actor = RemoteActor]
  BY <1>2 DEF Arrived, handler, b
<1> DEFINE q == [Request("propose") EXCEPT !.title = b[1], !.text = b[2], !.targets = b[3], !.deps = b[4]]
<1>6. ASSUME Len(c.targets) > MaxTargets \/ Len(c.deps) > MaxDeps
      PROVE  Arrived(r).error = "LimitExceeded"
  <2>1. decode_request_body(b) = [error |-> "LimitExceeded", request |-> Request("none")]
    BY <1>4, <1>6, Zenon DEF decode_request_body, Refused
  <2>2. QED
    BY <2>1, <1>5
<1>7. ASSUME ~(Len(c.targets) > MaxTargets \/ Len(c.deps) > MaxDeps)
      PROVE  Arrived(r).error = "Ok" /\ Arrived(r).request = [q EXCEPT !.actor = RemoteActor]
  <2>1. decode_request_body(b) = [error |-> "Ok", request |-> q]
    BY <1>4, <1>7, Zenon DEF decode_request_body, Decoded
  <2> HIDE DEF q
  <2>2. QED
    BY <2>1, <1>5
<1>8. SameSubject([q EXCEPT !.actor = RemoteActor], r)
  <2> DEFINE p == [q EXCEPT !.actor = RemoteActor]
  <2>1. /\ p.op = "propose" /\ p.targets = c.targets /\ p.deps = c.deps
        /\ p.job = 0 /\ p.attempt = 0 /\ p.target = 0 /\ p.ok = TRUE
    BY <1>4 DEF Request
  <2> HIDE DEF p
  <2>2. SameSubject(p, r)
    BY <1>2, <2>1, Zenon DEF SameSubject
  <2>3. QED
    BY <2>2 DEF p
<1>9. ASSUME str(c.title, TitleLength) = c.title, str(c.text, ReasonLength) = c.text
      PROVE  [q EXCEPT !.actor = RemoteActor] = [r EXCEPT !.actor = RemoteActor]
  <2>1. r = [q EXCEPT !.actor = c.actor]
    BY <1>1, <1>4, <1>9
  <2> HIDE DEF q
  <2>2. QED
    BY <2>1, Overwrite, Zenon
<1>10. QED
  BY <1>2, <1>6, <1>7, <1>8, <1>9, Zenon DEF r

\* An approval or a rearming arrives with its job, and with its actor if that
\* is within the bound of a job reference's text (encode_job_ref).
LEMMA ArrivesApproval ==
    ASSUME NEW c, NEW op \in {"approve", "rearm"}
    PROVE  LET r == request(c, op)
               d == Arrived(r)
           IN  /\ r.op = op
               /\ d.error = "Ok" /\ SameSubject(d.request, r)
               /\ str(c.actor, ReasonLength) = c.actor => d.request = r
<1> DEFINE r == request(c, op)
           b == body(r)
           q == [Request(op) EXCEPT !.job = b[1], !.actor = b[2]]
<1>1. r = [Request(op) EXCEPT !.job = c.job, !.actor = c.actor]
  BY Zenon DEF request
<1> HIDE DEF r
<1>2. /\ r.op = op /\ r.job = c.job /\ r.attempt = 0 /\ r.target = 0
      /\ r.ok = TRUE /\ r.targets = <<>> /\ r.deps = <<>> /\ r.actor = c.actor
  BY <1>1 DEF Request
<1>3. b = <<c.job, str(c.actor, ReasonLength)>>
  BY <1>2 DEF body, encode_job_ref
<1> HIDE DEF b
<1>4. b[1] = c.job /\ b[2] = str(c.actor, ReasonLength)
  BY <1>3
<1>5. Arrived(r) = [error |-> "Ok", request |-> q]
  BY <1>2 DEF Arrived, handler, decode_job_ref, Decoded, b
<1>6. SameSubject(q, r)
  <2>1. /\ q.op = op /\ q.job = c.job /\ q.attempt = 0 /\ q.target = 0
        /\ q.ok = TRUE /\ q.targets = <<>> /\ q.deps = <<>>
    BY <1>4 DEF Request
  <2> HIDE DEF q
  <2>2. QED
    BY <1>2, <2>1, Zenon DEF SameSubject
<1>7. str(c.actor, ReasonLength) = c.actor => q = r
  BY <1>1, <1>4
<1>8. QED
  <2> HIDE DEF q
  <2>1. QED
    BY <1>2, <1>5, <1>6, <1>7 DEF r

\* decode_job_actor refuses a null job; any other cancellation arrives.
LEMMA ArrivesCancel ==
    ASSUME NEW c
    PROVE  LET r == request(c, "cancel")
               d == Arrived(r)
           IN  /\ r.op = "cancel"
               /\ (c.job = 0) => d.error = "CorruptState"
               /\ ~(c.job = 0) =>
                    /\ d.error = "Ok" /\ SameSubject(d.request, r)
                    /\ str(c.actor, NameLength) = c.actor /\ str(c.text, ReasonLength) = c.text => d.request = r
<1> DEFINE r == request(c, "cancel")
           b == body(r)
           q == [Request("cancel") EXCEPT !.job = b[1], !.actor = b[2], !.text = b[3]]
<1>1. r = [Request("cancel") EXCEPT !.job = c.job, !.actor = c.actor, !.text = c.text]
  BY Zenon DEF request
<1> HIDE DEF r
<1>2. /\ r.op = "cancel" /\ r.job = c.job /\ r.attempt = 0 /\ r.target = 0
      /\ r.ok = TRUE /\ r.targets = <<>> /\ r.deps = <<>> /\ r.actor = c.actor /\ r.text = c.text
  BY <1>1 DEF Request
<1>3. b = <<c.job, str(c.actor, NameLength), str(c.text, ReasonLength)>>
  BY <1>2 DEF body, encode_job_actor
<1> HIDE DEF b
<1>4. b[1] = c.job /\ b[2] = str(c.actor, NameLength) /\ b[3] = str(c.text, ReasonLength)
  BY <1>3
<1>5. Arrived(r) = IF c.job = 0 THEN [error |-> "CorruptState", request |-> Request("none")]
                   ELSE [error |-> "Ok", request |-> q]
  BY <1>2, <1>4 DEF Arrived, handler, decode_job_actor, Decoded, Refused, b
<1>6. SameSubject(q, r)
  <2>1. /\ q.op = "cancel" /\ q.job = c.job /\ q.attempt = 0 /\ q.target = 0
        /\ q.ok = TRUE /\ q.targets = <<>> /\ q.deps = <<>>
    BY <1>4 DEF Request
  <2> HIDE DEF q
  <2>2. QED
    BY <1>2, <2>1, Zenon DEF SameSubject
<1>7. str(c.actor, NameLength) = c.actor /\ str(c.text, ReasonLength) = c.text => q = r
  BY <1>1, <1>4
<1>8. QED
  <2> HIDE DEF q
  <2>1. QED
    BY <1>2, <1>5, <1>6, <1>7 DEF r

\* decode_quarantine_clear refuses a null id; any other clearing arrives.
LEMMA ArrivesClearing ==
    ASSUME NEW c
    PROVE  LET r == request(c, "clear_quarantine")
               d == Arrived(r)
           IN  /\ r.op = "clear_quarantine"
               /\ (c.job = 0) => d.error = "CorruptState"
               /\ ~(c.job = 0) =>
                    /\ d.error = "Ok" /\ SameSubject(d.request, r)
                    /\ str(c.actor, NameLength) = c.actor /\ str(c.text, ReasonLength) = c.text => d.request = r
<1> DEFINE r == request(c, "clear_quarantine")
           b == body(r)
           q == [Request("clear_quarantine") EXCEPT !.job = b[1], !.actor = b[2], !.text = b[3]]
<1>1. r = [Request("clear_quarantine") EXCEPT !.job = c.job, !.actor = c.actor, !.text = c.text]
  BY Zenon DEF request
<1> HIDE DEF r
<1>2. /\ r.op = "clear_quarantine" /\ r.job = c.job /\ r.attempt = 0 /\ r.target = 0
      /\ r.ok = TRUE /\ r.targets = <<>> /\ r.deps = <<>> /\ r.actor = c.actor /\ r.text = c.text
  BY <1>1 DEF Request
<1>3. b = <<c.job, str(c.actor, NameLength), str(c.text, ReasonLength)>>
  BY <1>2 DEF body, encode_quarantine_clear
<1> HIDE DEF b
<1>4. b[1] = c.job /\ b[2] = str(c.actor, NameLength) /\ b[3] = str(c.text, ReasonLength)
  BY <1>3
<1>5. Arrived(r) = IF c.job = 0 THEN [error |-> "CorruptState", request |-> Request("none")]
                   ELSE [error |-> "Ok", request |-> q]
  BY <1>2, <1>4 DEF Arrived, handler, decode_quarantine_clear, decode_job_actor, Decoded, Refused, b
<1>6. SameSubject(q, r)
  <2>1. /\ q.op = "clear_quarantine" /\ q.job = c.job /\ q.attempt = 0 /\ q.target = 0
        /\ q.ok = TRUE /\ q.targets = <<>> /\ q.deps = <<>>
    BY <1>4 DEF Request
  <2> HIDE DEF q
  <2>2. QED
    BY <1>2, <2>1, Zenon DEF SameSubject
<1>7. str(c.actor, NameLength) = c.actor /\ str(c.text, ReasonLength) = c.text => q = r
  BY <1>1, <1>4
<1>8. QED
  <2> HIDE DEF q
  <2>1. QED
    BY <1>2, <1>5, <1>6, <1>7 DEF r

\* decode_completion_report refuses a null job or attempt; any other report arrives.
LEMMA ArrivesCompletion ==
    ASSUME NEW c
    PROVE  LET r == request(c, "report_completion")
               d == Arrived(r)
           IN  /\ r.op = "report_completion"
               /\ (c.job = 0 \/ c.attempt = 0) => d.error = "CorruptState"
               /\ ~(c.job = 0 \/ c.attempt = 0) =>
                    /\ d.error = "Ok" /\ SameSubject(d.request, r)
                    /\ str(c.text, DetailLength) = c.text => d.request = r
<1> DEFINE r == request(c, "report_completion")
           b == body(r)
           q == [Request("report_completion") EXCEPT !.job = b[1], !.attempt = b[2], !.ok = b[3], !.text = b[4]]
<1>1. r = [Request("report_completion") EXCEPT !.job = c.job, !.attempt = c.attempt, !.ok = c.ok, !.text = c.text]
  BY Zenon DEF request
<1> HIDE DEF r
<1>2. /\ r.op = "report_completion" /\ r.job = c.job /\ r.attempt = c.attempt /\ r.target = 0
      /\ r.ok = c.ok /\ r.targets = <<>> /\ r.deps = <<>> /\ r.text = c.text
  BY <1>1 DEF Request
<1>3. b = <<c.job, c.attempt, c.ok, str(c.text, DetailLength)>>
  BY <1>2 DEF body, encode_completion_report
<1> HIDE DEF b
<1>4. b[1] = c.job /\ b[2] = c.attempt /\ b[3] = c.ok /\ b[4] = str(c.text, DetailLength)
  BY <1>3
<1>5. Arrived(r) = IF c.job = 0 \/ c.attempt = 0 THEN [error |-> "CorruptState", request |-> Request("none")]
                   ELSE [error |-> "Ok", request |-> q]
  BY <1>2, <1>4 DEF Arrived, handler, decode_completion_report, Decoded, Refused, b
<1>6. SameSubject(q, r)
  <2>1. /\ q.op = "report_completion" /\ q.job = c.job /\ q.attempt = c.attempt /\ q.target = 0
        /\ q.ok = c.ok /\ q.targets = <<>> /\ q.deps = <<>>
    BY <1>4 DEF Request
  <2> HIDE DEF q
  <2>2. QED
    BY <1>2, <2>1 DEF SameSubject
<1>7. str(c.text, DetailLength) = c.text => q = r
  BY <1>1, <1>4
<1>8. QED
  <2> HIDE DEF q
  <2>1. QED
    BY <1>2, <1>5, <1>6, <1>7 DEF r

\* decode_restoration_report refuses a null job, attempt or target; any other
\* report arrives.
LEMMA ArrivesRestoration ==
    ASSUME NEW c
    PROVE  LET r == request(c, "report_restoration")
               d == Arrived(r)
           IN  /\ r.op = "report_restoration"
               /\ (c.job = 0 \/ c.attempt = 0 \/ c.targets[1] = 0) => d.error = "CorruptState"
               /\ ~(c.job = 0 \/ c.attempt = 0 \/ c.targets[1] = 0) =>
                    /\ d.error = "Ok" /\ SameSubject(d.request, r)
                    /\ str(c.text, DetailLength) = c.text => d.request = r
<1> DEFINE r == request(c, "report_restoration")
           b == body(r)
           q == [Request("report_restoration") EXCEPT !.job = b[1], !.attempt = b[2], !.target = b[3], !.ok = b[4], !.text = b[5]]
<1>1. r = [Request("report_restoration") EXCEPT !.job = c.job, !.attempt = c.attempt, !.target = c.targets[1], !.ok = c.ok, !.text = c.text]
  BY Zenon DEF request
<1> HIDE DEF r
<1>2. /\ r.op = "report_restoration" /\ r.job = c.job /\ r.attempt = c.attempt /\ r.target = c.targets[1]
      /\ r.ok = c.ok /\ r.targets = <<>> /\ r.deps = <<>> /\ r.text = c.text
  BY <1>1 DEF Request
<1>3. b = <<c.job, c.attempt, c.targets[1], c.ok, str(c.text, DetailLength)>>
  BY <1>2 DEF body, encode_restoration_report
<1> HIDE DEF b
<1>4. b[1] = c.job /\ b[2] = c.attempt /\ b[3] = c.targets[1] /\ b[4] = c.ok /\ b[5] = str(c.text, DetailLength)
  BY <1>3
<1>5. Arrived(r) = IF c.job = 0 \/ c.attempt = 0 \/ c.targets[1] = 0 THEN [error |-> "CorruptState", request |-> Request("none")]
                   ELSE [error |-> "Ok", request |-> q]
  BY <1>2, <1>4 DEF Arrived, handler, decode_restoration_report, Decoded, Refused, b
<1>6. SameSubject(q, r)
  <2>1. /\ q.op = "report_restoration" /\ q.job = c.job /\ q.attempt = c.attempt /\ q.target = c.targets[1]
        /\ q.ok = c.ok /\ q.targets = <<>> /\ q.deps = <<>>
    BY <1>4 DEF Request
  <2> HIDE DEF q
  <2>2. QED
    BY <1>2, <2>1 DEF SameSubject
<1>7. str(c.text, DetailLength) = c.text => q = r
  BY <1>1, <1>4
<1>8. QED
  <2> HIDE DEF q
  <2>1. QED
    BY <1>2, <1>5, <1>6, <1>7 DEF r

\* An observation arrives as it was sent (decode_evidence_body).
LEMMA ArrivesEvidence ==
    ASSUME NEW c
    PROVE  LET r == request(c, "observe")
               d == Arrived(r)
           IN  /\ r.op = "observe"
               /\ d.error = "Ok" /\ SameSubject(d.request, r)
               /\ d.request = r
<1> DEFINE r == request(c, "observe")
           b == body(r)
           q == [Request("observe") EXCEPT !.target = b[1]]
<1>1. r = [Request("observe") EXCEPT !.target = c.targets[1]]
  BY Zenon DEF request
<1> HIDE DEF r
<1>2. /\ r.op = "observe" /\ r.job = 0 /\ r.attempt = 0 /\ r.target = c.targets[1]
      /\ r.ok = TRUE /\ r.targets = <<>> /\ r.deps = <<>>
  BY <1>1 DEF Request
<1>3. b = <<c.targets[1]>>
  BY <1>2 DEF body, encode_evidence_body
<1> HIDE DEF b
<1>4. b[1] = c.targets[1]
  BY <1>3
<1>5. Arrived(r) = [error |-> "Ok", request |-> q]
  BY <1>2 DEF Arrived, handler, decode_evidence_body, Decoded, b
<1>6. SameSubject(q, r)
  <2>1. /\ q.op = "observe" /\ q.job = 0 /\ q.attempt = 0 /\ q.target = c.targets[1]
        /\ q.ok = TRUE /\ q.targets = <<>> /\ q.deps = <<>>
    BY <1>4 DEF Request
  <2> HIDE DEF q
  <2>2. QED
    BY <1>2, <2>1, Zenon DEF SameSubject
<1>7. q = r
  BY <1>1, <1>4
<1>8. QED
  <2> HIDE DEF q
  <2>1. QED
    BY <1>2, <1>5, <1>6, <1>7 DEF r

\* A query for a job arrives as it was sent (decode_job_ref).
LEMMA ArrivesStatus ==
    ASSUME NEW c
    PROVE  LET r == request(c, "status")
               d == Arrived(r)
           IN  r.op = "status" /\ d.error = "Ok" /\ d.request = r
<1> DEFINE r == request(c, "status")
<1>1. r = [Request("status") EXCEPT !.job = c.job]
  BY Zenon DEF request
<1> HIDE DEF r
<1>2. r.op = "status" /\ r.job = c.job
  BY <1>1 DEF Request
<1>3. body(r)[1] = c.job
  BY <1>2 DEF body, encode_job_ref
<1>4. Arrived(r) = [error |-> "Ok", request |-> [Request("status") EXCEPT !.job = c.job]]
  BY <1>2, <1>3 DEF Arrived, handler, decode_job_ref, Decoded
<1>5. QED
  BY <1>1, <1>2, <1>4 DEF r

\* A query for an explanation arrives, with its text if that is within its bound.
LEMMA ArrivesExplain ==
    ASSUME NEW c
    PROVE  LET r == request(c, "explain")
               d == Arrived(r)
               t == IF c.name = "explain" THEN c.text ELSE 1
           IN  r.op = "explain" /\ d.error = "Ok" /\ SameSubject(d.request, r) /\ (str(t, ReasonLength) = t => d.request = r)
<1> DEFINE r == request(c, "explain")
           t == IF c.name = "explain" THEN c.text ELSE 1
           q == [Request("explain") EXCEPT !.job = c.job, !.text = str(t, ReasonLength)]
<1>1. r = [Request("explain") EXCEPT !.job = c.job, !.text = t]
  BY Zenon DEF request
<1> HIDE DEF r, t
<1>2. /\ r.op = "explain" /\ r.job = c.job /\ r.attempt = 0 /\ r.target = 0
      /\ r.ok = TRUE /\ r.targets = <<>> /\ r.deps = <<>> /\ r.text = t
  BY <1>1 DEF Request
<1>3. body(r)[1] = c.job /\ body(r)[2] = str(t, ReasonLength)
  BY <1>2 DEF body, encode_job_ref
<1>4. Arrived(r) = [error |-> "Ok", request |-> q]
  BY <1>2, <1>3 DEF Arrived, handler, decode_job_ref, Decoded
<1>5. SameSubject(q, r)
  <2>1. /\ q.op = "explain" /\ q.job = c.job /\ q.attempt = 0 /\ q.target = 0
        /\ q.ok = TRUE /\ q.targets = <<>> /\ q.deps = <<>>
    BY DEF Request
  <2> HIDE DEF q
  <2>2. QED
    BY <1>2, <2>1, Zenon DEF SameSubject
<1>6. str(t, ReasonLength) = t => q = r
  BY <1>1
<1>7. QED
  <2> HIDE DEF q
  <2>1. QED
    BY <1>2, <1>4, <1>5, <1>6 DEF r, t

\* A request without arguments arrives.
LEMMA ArrivesPlain ==
    ASSUME NEW c, NEW op \in {"tick", "list", "conflicts", "arbitration", "quarantines"}
    PROVE  LET r == request(c, op)
               d == Arrived(r)
           IN  r.op = op /\ d.error = "Ok" /\ d.request = r
<1>1. request(c, op) = Request(op)
  BY DEF request
<1>2. Request(op).op = op
  BY DEF Request
<1>3. Arrived(Request(op)) = [error |-> "Ok", request |-> Request(op)]
  BY <1>2 DEF Arrived, handler, Decoded
<1>4. QED
  BY <1>1, <1>2, <1>3

\* The two requests for a file of the configuration, which mfd does not serve.
LEMMA FilesAsked ==
    ASSUME NEW c, NEW op \in Files
    PROVE  request(c, op).op = op
  BY DEF request, Request, Files

\* Of every request of a command the daemon either refuses it, which a command
\* that fits meets only with lists that the controller refuses too, or asks the
\* controller for the same operation on the same subject, and for exactly the
\* same if the command fits.
Delivers(c, r, d) ==
    \/ /\ d.error \in {"LimitExceeded", "CorruptState"}
       /\ Fits(c) => r.op = "propose" /\ (Len(r.targets) > MaxTargets \/ Len(r.deps) > MaxDeps)
    \/ /\ d.error = "Ok" /\ SameSubject(d.request, r)
       /\ Fits(c) => d.request = IF r.op = "propose" THEN [r EXCEPT !.actor = RemoteActor] ELSE r

\* What handler makes of a request, operation by operation.
LEMMA Delivered ==
    ASSUME NEW c \in Commands, ~usage_error(c), NEW op \in Ops(c), op \notin Files
    PROVE  request(c, op).op = op /\ Delivers(c, request(c, op), Arrived(request(c, op)))
<1> DEFINE r == request(c, op)
           d == Arrived(r)
<1>0. c \in CommandLine /\ ("attempt" \in c.given => c.attempt # 0) /\ ("target" \in c.given => c.targets # <<>>)
  BY ApiAssumption, Zenon
<1>1. c.name \in Names /\ c.actor \in Nat /\ c.title \in Nat /\ c.text \in Nat /\ c.targets \in Seq(Nat \ {0})
  BY <1>0 DEF CommandLine
<1>2. ASSUME Fits(c)
      PROVE  /\ str(c.actor, NameLength) = c.actor /\ str(c.actor, ReasonLength) = c.actor /\ str(c.title, TitleLength) = c.title
             /\ c.name \notin {"complete", "restore"} => str(c.text, ReasonLength) = c.text
             /\ c.name \in {"complete", "restore"} => str(c.text, DetailLength) = c.text
             /\ c.job # 0
  <2>1. c.actor <= NameLength /\ c.actor <= ReasonLength /\ c.title <= TitleLength
    BY <1>1, <1>2, Bounds DEF Fits
  <2>2. /\ c.name \notin {"complete", "restore"} => c.text <= ReasonLength
        /\ c.name \in {"complete", "restore"} => c.text <= DetailLength
    BY <1>2 DEF Fits
  <2>3. c.job # 0
    BY <1>2, <1>0 DEF Fits, CommandLine
  <2>4. QED
    BY <2>1, <2>2, <2>3, <1>1, Bounds, StrKeeps
<1>3. str(1, ReasonLength) = 1
  BY Bounds DEF str
<1>4. CASE op = "propose"
  BY <1>4, <1>1, <1>2, ArrivesPropose DEF Delivers, Ops
<1>5. CASE op \in {"approve", "rearm"}
  BY <1>5, <1>2, ArrivesApproval, Zenon DEF Delivers
<1>6. CASE op = "cancel"
  <2>1. c.name = "cancel"
    BY <1>6, <1>1 DEF Ops, Names
  <2>2. QED
    BY <2>1, <1>6, <1>2, ArrivesCancel DEF Delivers
<1>7. CASE op = "clear_quarantine"
  <2>1. c.name = "clear-quarantine"
    BY <1>7, <1>1 DEF Ops, Names
  <2>2. QED
    BY <2>1, <1>7, <1>2, ArrivesClearing DEF Delivers
<1>8. CASE op = "report_completion"
  <2>1. c.name = "complete"
    BY <1>8, <1>1 DEF Ops, Names
  <2>2. c.attempt # 0
    BY <2>1, <1>0 DEF usage_error, Required
  <2>3. QED
    BY <2>1, <2>2, <1>8, <1>2, ArrivesCompletion DEF Delivers
<1>9. CASE op = "report_restoration"
  <2>1. c.name = "restore"
    BY <1>9, <1>1 DEF Ops, Names
  <2>2. c.attempt # 0 /\ c.targets # <<>>
    BY <2>1, <1>0 DEF usage_error, Required
  <2>3. c.targets[1] # 0
    BY <2>2, <1>1
  <2>4. QED
    BY <2>1, <2>2, <2>3, <1>9, <1>2, ArrivesRestoration DEF Delivers
<1>10. CASE op = "observe"
  BY <1>10, ArrivesEvidence DEF Delivers
<1>11. CASE op = "status"
  BY <1>11, ArrivesStatus DEF Delivers, SameSubject
<1>12. CASE op = "explain"
  BY <1>12, <1>1, <1>2, <1>3, ArrivesExplain, Zenon DEF Delivers
<1>13. CASE op \in {"tick", "list", "conflicts", "arbitration", "quarantines"}
  BY <1>13, ArrivesPlain DEF Delivers, SameSubject
<1>14. op \in {"propose", "approve", "rearm", "cancel", "clear_quarantine", "report_completion", "report_restoration",
               "observe", "status", "explain", "tick", "list", "conflicts", "arbitration", "quarantines"}
  BY <1>1 DEF Ops, Names, Files
<1>15. QED
  BY <1>4, <1>5, <1>6, <1>7, <1>8, <1>9, <1>10, <1>11, <1>12, <1>13, <1>14
-----------------------------------------------------------------------------
(* Calls.                                                                  *)

Good == {"Ok", "ShuttingDown"}
Done(q, code) == [request |-> q, code |-> code]

\* The code with which the controller answers an operation that it performs.
Coded(op, o) == IF o.code \in Codes(op) THEN o.code ELSE "Ok"

\* The controller's answer: a proposal of a bad shape is refused, any other
\* operation is performed.
LEMMA Performed ==
    ASSUME NEW r, NEW o \in Answers
    PROVE  LET a == perform(r, o)
           IN  /\ r.op = "propose" /\ validate_request_shape(r) # "Ok" =>
                    a.code \notin Good /\ a = [code |-> a.code, size |-> 0, done |-> <<>>]
               /\ ~(r.op = "propose" /\ validate_request_shape(r) # "Ok") =>
                    a = [code |-> Coded(r.op, o), size |-> IF Coded(r.op, o) = "Ok" THEN o.size ELSE 0,
                         done |-> <<Done(r, Coded(r.op, o))>>]
<1>1. validate_request_shape(r) \in {"Ok", "InvalidArgument", "LimitExceeded"}
  BY DEF validate_request_shape
<1>2. CASE r.op = "propose" /\ validate_request_shape(r) # "Ok"
  <2>1. perform(r, o) = [code |-> validate_request_shape(r), size |-> 0, done |-> <<>>]
    BY <1>2, Zenon DEF perform, Answer
  <2>2. QED
    BY <1>1, <1>2, <2>1 DEF Good
<1>3. CASE ~(r.op = "propose" /\ validate_request_shape(r) # "Ok")
  BY <1>3, Zenon DEF perform, Done, Coded, Answer
<1>4. QED
  BY <1>2, <1>3

\* What an operation is answered is one of its codes.
LEMMA CodedIn == ASSUME NEW op, NEW o PROVE Coded(op, o) \in Codes(op)
  BY DEF Coded, Codes

\* A code, a size and what was performed.
IsReply(a) == a = [code |-> a.code, size |-> a.size, done |-> a.done] /\ a.size \in Nat

\* Only the shape of a list or a text is changed by the reply.
LEMMA Unwrapped ==
    ASSUME NEW op, NEW a, IsReply(a)
    PROVE  /\ unwrap(op, a).done = a.done /\ unwrap(op, a).size \in Nat
           /\ unwrap(op, a).code = a.code \/ (unwrap(op, a).code = "CorruptState" /\ op = "list")
           /\ a.code # "Ok" => unwrap(op, a) = a
           /\ a.size <= MaxText /\ a.size <= MaxListed => unwrap(op, a).code = a.code /\ unwrap(op, a).size = a.size
<1> DEFINE code == a.code
           size == a.size
           done == a.done
<1>0. a.code = code /\ a.size = size /\ a.done = done
  OBVIOUS
<1>z. a = [code |-> code, size |-> size, done |-> done]
  BY DEF IsReply
<1>n. size \in Nat
  BY DEF IsReply
<1> HIDE DEF code, size, done
<1>1. CASE code = "Ok" /\ op = "list" /\ size > MaxBody
  <2>1. unwrap(op, a) = [a EXCEPT !.code = "CorruptState", !.size = 0]
    <3>1. ~(size <= MaxBody) /\ op \notin Texts
      BY <1>1, <1>n, Bounds DEF Texts
    <3>2. QED
      BY <3>1, <1>0, <1>1, Zenon DEF unwrap
  <2>2. ~(size <= MaxListed)
    BY <1>1, <1>n, Bounds
  <2>3. unwrap(op, a).code = "CorruptState" /\ unwrap(op, a).size = 0 /\ unwrap(op, a).done = done
    BY <2>1, <1>z
  <2>4. QED
    BY <1>0, <1>1, <2>2, <2>3
<1>2. CASE code = "Ok" /\ op = "list" /\ size <= MaxBody
  <2>1. unwrap(op, a) = [a EXCEPT !.size = snapshot_list(size)]
    <3>1. ~(size > MaxBody) /\ op \notin Texts
      BY <1>2, <1>n, Bounds DEF Texts
    <3>2. QED
      BY <3>1, <1>0, <1>2, Zenon DEF unwrap
  <2>2. snapshot_list(size) \in Nat /\ (size <= MaxListed => snapshot_list(size) = size)
    BY <1>n, Bounds DEF snapshot_list
  <2>3. unwrap(op, a).code = code /\ unwrap(op, a).size = snapshot_list(size) /\ unwrap(op, a).done = done
    BY <2>1, <1>z
  <2>4. QED
    BY <1>0, <1>2, <2>2, <2>3
<1>3. CASE code = "Ok" /\ op \in Texts
  <2>1. unwrap(op, a) = [a EXCEPT !.size = text_body(size)]
    <3>1. op # "list"
      BY <1>3 DEF Texts
    <3>2. QED
      BY <3>1, <1>0, <1>3, Zenon DEF unwrap
  <2>2. text_body(size) \in Nat /\ (size <= MaxText => text_body(size) = size)
    BY <1>n, Bounds DEF text_body, str
  <2>3. unwrap(op, a).code = code /\ unwrap(op, a).size = text_body(size) /\ unwrap(op, a).done = done
    BY <2>1, <1>z
  <2>4. QED
    BY <1>0, <1>3, <2>2, <2>3
<1>4. CASE ~(code = "Ok" /\ (op = "list" \/ op \in Texts))
  <2>1. unwrap(op, a) = a
    BY <1>0, <1>4, Zenon DEF unwrap
  <2>2. QED
    BY <1>0, <1>n, <2>1
<1>5. size > MaxBody \/ size <= MaxBody
  BY <1>n, Bounds
<1>6. QED
  BY <1>1, <1>2, <1>3, <1>4, <1>5, <1>0, Zenon

\* What a call can have performed for a command.
Entry(c) == {Done(q, code) : q \in {request(c, op) : op \in Ops(c)} \cup {Arrived(request(c, op)).request : op \in Ops(c)},
                             code \in {"Ok", "NotFound", "ShuttingDown"}}

\* A call performs the operation asked for, on the subject asked for, and
\* answers with its code; or it performs nothing and fails.
Serves(c, op, a) ==
    /\ a.size \in Nat
    /\ \/ a.done = <<>> /\ a.code \notin Good
       \/ \E e \in Entry(c) : /\ a.done = <<e>> /\ e.code \in Codes(op) /\ SameSubject(e.request, request(c, op))
                              /\ a.code = e.code \/ a.code = "CorruptState"

\* The answer of the controller to a request on the subject of the command's.
LEMMA Served ==
    ASSUME NEW c, NEW op \in Ops(c), NEW o \in Answers, NEW q, SameSubject(q, request(c, op)), request(c, op).op = op,
           q \in {request(c, op), Arrived(request(c, op)).request}
    PROVE  Serves(c, op, perform(q, o)) /\ Serves(c, op, unwrap(op, perform(q, o)))
<1> DEFINE code == Coded(op, o)
<1>1. q.op = op
  BY DEF SameSubject
<1>2. o.size \in Nat
  BY Bounds, Zenon DEF Answers
<1>3. code \in Codes(op)
  BY CodedIn
<1> HIDE DEF code
<1>4. Codes(op) \subseteq {"Ok", "NotFound", "ShuttingDown"}
  BY DEF Codes
<1>5. CASE q.op = "propose" /\ validate_request_shape(q) # "Ok"
  <2> DEFINE x == perform(q, o).code
  <2>1. x \notin Good /\ perform(q, o) = [code |-> x, size |-> 0, done |-> <<>>]
    BY <1>5, Performed, Zenon
  <2> HIDE DEF x
  <2>2. unwrap(op, perform(q, o)) = perform(q, o)
    <3>1. IsReply(perform(q, o)) /\ perform(q, o).code # "Ok"
      BY <2>1 DEF Good, IsReply
    <3>2. QED
      BY <3>1, Unwrapped, Zenon
  <2>3. QED
    BY <2>1, <2>2 DEF Serves
<1>6. CASE ~(q.op = "propose" /\ validate_request_shape(q) # "Ok")
  <2> DEFINE size == IF code = "Ok" THEN o.size ELSE 0
             e == Done(q, code)
  <2>1. perform(q, o) = [code |-> code, size |-> size, done |-> <<e>>]
    BY <1>1, <1>6, Performed, Zenon DEF code
  <2>2. size \in Nat
    BY <1>2
  <2>3. e.code = code /\ e.request = q
    BY DEF Done
  <2>4. e \in Entry(c)
    <3>1. q \in {request(c, p) : p \in Ops(c)} \cup {Arrived(request(c, p)).request : p \in Ops(c)}
      BY Zenon
    <3>2. code \in {"Ok", "NotFound", "ShuttingDown"}
      BY <1>3, <1>4, Zenon
    <3>3. QED
      BY <3>1, <3>2 DEF Entry
  <2> HIDE DEF size, e
  <2>5. Serves(c, op, perform(q, o))
    BY <2>1, <2>2, <2>3, <2>4, <1>3 DEF Serves
  <2> DEFINE b == unwrap(op, perform(q, o))
  <2>6. b.done = <<e>> /\ b.size \in Nat /\ (b.code = code \/ b.code = "CorruptState")
    <3>1. IsReply(perform(q, o)) /\ perform(q, o).code = code /\ perform(q, o).done = <<e>>
      BY <2>1, <2>2 DEF IsReply
    <3>2. QED
      BY <3>1, Unwrapped
  <2> HIDE DEF b
  <2>7. Serves(c, op, b)
    BY <2>3, <2>4, <2>6, <1>3, Zenon DEF Serves
  <2>8. QED
    BY <2>5, <2>7 DEF b
<1>7. QED
  BY <1>5, <1>6

\* The same in both modes (local_call, remote_call).
LEMMA Called ==
    ASSUME NEW c \in Commands, ~usage_error(c), NEW op \in Ops(c), NEW o \in Answers, NEW m \in Modes
    PROVE  Serves(c, op, call(m, request(c, op), o))
<1> DEFINE r == request(c, op)
           d == Arrived(r)
<1>1. r.op = op
  BY Delivered, FilesAsked, Zenon
<1> HIDE DEF r
<1>2. SameSubject(r, r)
  BY DEF SameSubject
<1>3. CASE m = "local"
  <2>1. call(m, r, o) = perform(r, o)
    BY <1>3 DEF call, local_call
  <2>2. QED
    BY <1>1, <1>2, <2>1, Served DEF r
<1>4. CASE m = "remote"
  <2>1. call(m, r, o) = remote_call(r, o)
    BY <1>4 DEF call
  <2>2. CASE op \in Files
    <3>1. remote_call(r, o) = [code |-> "Unsupported", size |-> 0, done |-> <<>>]
      BY <2>2, <1>1, Zenon DEF remote_call, Answer
    <3>2. QED
      BY <2>1, <3>1 DEF Serves, Good, r
  <2>3. CASE op \notin Files /\ d.error # "Ok"
    <3>1. Delivers(c, r, d)
      BY <2>3, Delivered, Zenon DEF r
    <3>2. d.error \notin Good
      BY <3>1, <2>3 DEF Delivers, Good
    <3> HIDE DEF d
    <3>3. Answer(d.error, 0, <<>>) = [code |-> d.error, size |-> 0, done |-> <<>>]
      BY Zenon DEF Answer
    <3>4. remote_call(r, o) = unwrap(op, [code |-> d.error, size |-> 0, done |-> <<>>])
      BY <2>3, <3>3, <1>1, Zenon DEF remote_call, d, Arrived
    <3>5. unwrap(op, [code |-> d.error, size |-> 0, done |-> <<>>]) = [code |-> d.error, size |-> 0, done |-> <<>>]
      <4> DEFINE a == [code |-> d.error, size |-> 0, done |-> <<>>]
      <4>1. IsReply(a) /\ a.code # "Ok"
        BY <2>3 DEF IsReply
      <4> HIDE DEF a
      <4>2. unwrap(op, a) = a
        BY <4>1, Unwrapped
      <4>3. QED
        BY <4>2 DEF a
    <3>6. QED
      BY <2>1, <3>2, <3>4, <3>5 DEF Serves, r
  <2>4. CASE op \notin Files /\ d.error = "Ok"
    <3>1. Delivers(c, r, d)
      BY <2>4, Delivered, Zenon DEF r
    <3>2. SameSubject(d.request, r)
      BY <3>1, <2>4 DEF Delivers
    <3>3. remote_call(r, o) = unwrap(op, perform(d.request, o))
      BY <2>4, <1>1, Zenon DEF remote_call, Arrived
    <3>4. Serves(c, op, unwrap(op, perform(d.request, o)))
      BY <3>2, <1>1, Served, Zenon DEF r
    <3>5. QED
      BY <2>1, <3>3, <3>4 DEF r
  <2>5. QED
    BY <2>2, <2>3, <2>4
<1>5. QED
  BY <1>3, <1>4 DEF Modes, r

\* Two requests that differ in the actor of a proposal leave the same trail.
LEMMA TrailOfOne ==
    ASSUME NEW q, NEW code
    PROVE  /\ q.op # "propose" => Trail(<<Done(q, code)>>) = <<Done(q, code)>>
           /\ q.op = "propose" => Trail(<<Done(q, code)>>) = <<Done([q EXCEPT !.actor = 0], code)>>
<1> DEFINE e == Done(q, code)
<1>1. e.request = q /\ e.code = code
  BY DEF Done
<1>2. [e EXCEPT !.request.actor = 0] = Done([q EXCEPT !.actor = 0], code)
  BY DEF Done
<1> HIDE DEF e
<1>3. DOMAIN <<e>> = {1} /\ <<e>>[1] = e
  OBVIOUS
<1>4. CASE q.op # "propose"
  <2>1. Trail(<<e>>) = [i \in {1} |-> e]
    BY <1>1, <1>3, <1>4 DEF Trail
  <2>2. QED
    BY <2>1, <1>4 DEF e
<1>5. CASE q.op = "propose"
  <2> DEFINE f == Done([q EXCEPT !.actor = 0], code)
  <2>1. Trail(<<e>>) = [i \in {1} |-> f]
    BY <1>1, <1>2, <1>3, <1>5 DEF Trail
  <2> HIDE DEF f
  <2>2. [i \in {1} |-> f] = <<f>>
    OBVIOUS
  <2>3. QED
    BY <2>1, <2>2, <1>5 DEF e, f
<1>6. QED
  BY <1>4, <1>5

\* A proposal has the same shape under another name.
LEMMA SameShape ==
    ASSUME NEW c, NEW x
    PROVE  LET r == request(c, "propose")
           IN  /\ validate_request_shape([r EXCEPT !.actor = x]) = validate_request_shape(r)
               /\ [r EXCEPT !.actor = x].op = "propose" /\ r.op = "propose"
<1> DEFINE r == request(c, "propose")
           q == [r EXCEPT !.actor = x]
<1>1. r = [Request("propose") EXCEPT !.title = c.title, !.text = c.text, !.targets = c.targets,
                                     !.deps = c.deps, !.actor = c.actor]
  BY Zenon DEF request
<1> HIDE DEF r
<1>2. r.op = "propose" /\ q.op = "propose" /\ q.title = r.title /\ q.text = r.text /\ q.targets = r.targets /\ q.deps = r.deps
  BY <1>1 DEF Request
<1> HIDE DEF q
<1>3. validate_request_shape(q) = validate_request_shape(r)
  BY <1>2, Zenon DEF validate_request_shape
<1>4. QED
  BY <1>2, <1>3, Zenon DEF r, q

\* What differs between the answers of the two modes to a command that fits is
\* at most how a proposal with too long lists is refused.
Alike(a, b) ==
    /\ a.size = b.size
    /\ Trail(a.done) = Trail(b.done)
    /\ a.code = b.code \/ (a.code \notin Good /\ b.code \notin Good)

\* The two implementations of a call answer a command that fits alike.
LEMMA CalledAlike ==
    ASSUME NEW c \in Commands, ~usage_error(c), NEW op \in Ops(c), Fits(c),
           NEW o \in Answers, o.size <= MaxText, o.size <= MaxListed
    PROVE  Alike(call("local", request(c, op), o), call("remote", request(c, op), o))
<1> DEFINE r == request(c, op)
           d == Arrived(r)
           p == perform(r, o)
           code == Coded(op, o)
           size == IF code = "Ok" THEN o.size ELSE 0
<1>1. op \notin Files
  BY DEF Ops, Fits, Files
<1>2. r.op = op /\ Delivers(c, r, d)
  BY <1>1, Delivered, Zenon
<1>3. size \in Nat /\ size <= MaxText /\ size <= MaxListed
  <2>1. o.size \in Nat
    BY Bounds, Zenon DEF Answers
  <2>2. 0 <= MaxText /\ 0 <= MaxListed
    BY Bounds
  <2>3. QED
    BY <2>1, <2>2
<1>4. /\ call("local", r, o) = perform(r, o)
      /\ call("remote", r, o) = unwrap(op, IF d.error = "Ok" THEN perform(d.request, o) ELSE Answer(d.error, 0, <<>>))
  <2>1. r.op \notin Files
    BY <1>1, <1>2
  <2> HIDE DEF r
  <2>2. remote_call(r, o) = unwrap(op, IF d.error = "Ok" THEN perform(d.request, o) ELSE Answer(d.error, 0, <<>>))
    BY <1>2, <2>1, Zenon DEF remote_call, Arrived
  <2>3. QED
    BY <2>2 DEF call, local_call
<1>5. ASSUME NEW q, q.op = op, ~(op = "propose" /\ validate_request_shape(q) # "Ok")
      PROVE  /\ perform(q, o) = [code |-> code, size |-> size, done |-> <<Done(q, code)>>]
             /\ unwrap(op, perform(q, o)).code = code /\ unwrap(op, perform(q, o)).size = size
             /\ unwrap(op, perform(q, o)).done = <<Done(q, code)>>
  <2>1. perform(q, o) = [code |-> code, size |-> size, done |-> <<Done(q, code)>>]
    BY <1>5, Performed, Zenon
  <2> HIDE DEF code, size
  <2>2. /\ IsReply(perform(q, o)) /\ perform(q, o).code = code /\ perform(q, o).done = <<Done(q, code)>>
        /\ perform(q, o).size = size
    BY <2>1, <1>3 DEF IsReply
  <2>3. QED
    BY <2>1, <2>2, <1>3, Unwrapped
<1>6. ASSUME NEW q, q.op = op, op = "propose" /\ validate_request_shape(q) # "Ok"
      PROVE  LET x == perform(q, o).code
             IN  /\ x \notin Good /\ perform(q, o) = [code |-> x, size |-> 0, done |-> <<>>]
                 /\ unwrap(op, perform(q, o)) = perform(q, o)
  <2> DEFINE x == perform(q, o).code
  <2>1. x \notin Good /\ perform(q, o) = [code |-> x, size |-> 0, done |-> <<>>]
    BY <1>6, Performed, Zenon
  <2> HIDE DEF x
  <2>2. IsReply(perform(q, o)) /\ perform(q, o).code # "Ok"
    BY <2>1 DEF Good, IsReply
  <2>3. unwrap(op, perform(q, o)) = perform(q, o)
    BY <2>2, Unwrapped
  <2>4. QED
    BY <2>1, <2>3, Zenon DEF x
<1> HIDE DEF code, size, r, d
<1>7. CASE d.error = "Ok" /\ op # "propose"
  <2>1. d.request = r
    BY <1>2, <1>7 DEF Delivers
  <2>2. QED
    BY <1>2, <1>4, <1>5, <1>7, <2>1 DEF Alike, r
<1>8. CASE d.error = "Ok" /\ op = "propose"
  <2> DEFINE q == [r EXCEPT !.actor = RemoteActor]
  <2>1. d.request = q
    BY <1>2, <1>8 DEF Delivers
  <2>2. q.op = "propose" /\ validate_request_shape(q) = validate_request_shape(r)
    BY <1>8, SameShape, Zenon DEF r
  <2>3. [q EXCEPT !.actor = 0] = [r EXCEPT !.actor = 0]
    BY Overwrite, Zenon
  <2> HIDE DEF q
  <2>4. Trail(<<Done(q, code)>>) = Trail(<<Done(r, code)>>)
    <3>1. r.op = "propose"
      BY <1>2, <1>8
    <3>2. Trail(<<Done(q, code)>>) = <<Done([q EXCEPT !.actor = 0], code)>>
      BY <2>2, TrailOfOne, Zenon
    <3>3. Trail(<<Done(r, code)>>) = <<Done([r EXCEPT !.actor = 0], code)>>
      BY <3>1, TrailOfOne, Zenon
    <3>4. QED
      BY <2>3, <3>2, <3>3, Zenon
  <2>5. CASE validate_request_shape(r) = "Ok"
    BY <1>2, <1>4, <1>5, <1>8, <2>1, <2>2, <2>4, <2>5 DEF Alike, r
  <2>6. CASE validate_request_shape(r) # "Ok"
    BY <1>2, <1>4, <1>6, <1>8, <2>1, <2>2, <2>6 DEF Alike, r
  <2>7. QED
    BY <2>5, <2>6
<1>9. CASE d.error # "Ok"
  <2>1. /\ d.error \in {"LimitExceeded", "CorruptState"} /\ op = "propose"
        /\ Len(r.targets) > MaxTargets \/ Len(r.deps) > MaxDeps
    BY <1>2, <1>9 DEF Delivers
  <2>2. validate_request_shape(r) # "Ok"
    BY <2>1 DEF validate_request_shape
  <2> DEFINE a == [code |-> d.error, size |-> 0, done |-> <<>>]
  <2>3. Answer(d.error, 0, <<>>) = a
    BY <1>9, Zenon DEF Answer
  <2>4. IsReply(a) /\ a.code = d.error /\ a.size = 0 /\ a.done = <<>>
    BY DEF IsReply
  <2> HIDE DEF a
  <2>5. unwrap(op, a) = a
    BY <2>4, <1>9, Unwrapped
  <2>6. call("remote", r, o) = a
    BY <1>4, <1>9, <2>3, <2>5
  <2>7. a.code \notin Good
    BY <2>1, <2>4 DEF Good
  <2> DEFINE x == perform(r, o).code
  <2>8. x \notin Good /\ perform(r, o) = [code |-> x, size |-> 0, done |-> <<>>]
    BY <1>2, <1>6, <2>1, <2>2, Zenon
  <2>9. perform(r, o).code \notin Good /\ perform(r, o).size = 0 /\ perform(r, o).done = <<>>
    <3> HIDE DEF x
    <3>1. QED
      BY <2>8
  <2>10. Alike(perform(r, o), a)
    BY <2>4, <2>7, <2>9 DEF Alike
  <2>11. QED
    BY <1>4, <2>6, <2>10 DEF r
<1>10. QED
  BY <1>7, <1>8, <1>9
-----------------------------------------------------------------------------
(* A command.                                                              *)

\* What advance makes of the progress of a command, field by field.
StepAfter(c, step, ticks, code, arrived) ==
    CASE step = "tick" /\ code \in Good /\ c.name = "start" -> "poll"
      [] step = "poll" /\ code = "Ok" -> IF arrived \/ ticks = c.count THEN "status" ELSE "tick"
      [] step = "status" /\ code = "Ok" -> "explain"
      [] OTHER -> step
TicksAfter(step, ticks, code) == IF step = "tick" /\ code \in Good THEN ticks + 1 ELSE ticks
ExitAfter(c, step, ticks, code) ==
    CASE step = "tick" /\ code \notin Good -> 1
      [] step = "tick" /\ code \in Good -> IF c.name = "tick" /\ ticks + 1 = c.count THEN 0 ELSE Running
      [] step \in {"poll", "status"} -> IF code = "Ok" THEN Running ELSE 1
      [] step = "explain" /\ c.name # "explain" -> 0
      [] OTHER -> IF code = "Ok" THEN 0 ELSE 1

IsRun(x) == {"step", "ticks", "done", "shown", "exit"} \subseteq DOMAIN x

AdvancesTo(c, x, a, y) ==
    /\ IsRun(y) /\ y.done = x.done \o a.done /\ y.shown = a.size
    /\ y.step = StepAfter(c, x.step, x.ticks, a.code, a.arrived)
    /\ y.ticks = TicksAfter(x.step, x.ticks, a.code)
    /\ y.exit = ExitAfter(c, x.step, x.ticks, a.code)

\* run_command after a call.
LEMMA Advanced ==
    ASSUME NEW c, NEW x, IsRun(x), x.exit = Running, NEW a
    PROVE  AdvancesTo(c, x, a, advance(c, x, a))
<1> DEFINE z == [x EXCEPT !.done = @ \o a.done, !.shown = a.size]
           y == advance(c, x, a)
<1>1. /\ IsRun(z) /\ z.done = x.done \o a.done /\ z.shown = a.size
      /\ z.step = x.step /\ z.ticks = x.ticks /\ z.exit = Running
  BY DEF IsRun
<1> HIDE DEF z
<1>2. CASE x.step = "tick" /\ a.code \notin Good
  <2>1. y = [z EXCEPT !.exit = 1]
    BY <1>2 DEF advance, z, Good
  <2>2. /\ IsRun(y) /\ y.done = z.done /\ y.shown = z.shown /\ y.ticks = z.ticks
        /\ y.step = z.step /\ y.exit = 1
    BY <1>1, <2>1 DEF IsRun
  <2>3. QED
    BY <1>1, <1>2, <2>2 DEF AdvancesTo, StepAfter, TicksAfter, ExitAfter, Good
<1>3. CASE x.step = "tick" /\ a.code \in Good
  <2> DEFINE step == IF c.name = "start" THEN "poll" ELSE z.step
             exit == IF c.name = "tick" /\ x.ticks + 1 = c.count THEN 0 ELSE z.exit
  <2>1. y = [z EXCEPT !.ticks = z.ticks + 1, !.step = step, !.exit = exit]
    BY <1>3 DEF advance, z, Good
  <2> HIDE DEF step, exit
  <2>2. /\ IsRun(y) /\ y.done = z.done /\ y.shown = z.shown /\ y.step = step /\ y.ticks = z.ticks + 1 /\ y.exit = exit
    BY <1>1, <2>1 DEF IsRun
  <2>3. QED
    BY <1>1, <1>3, <2>2 DEF AdvancesTo, step, exit, StepAfter, TicksAfter, ExitAfter
<1>4. CASE x.step \in {"poll", "status"} /\ a.code # "Ok"
  <2>1. y = [z EXCEPT !.exit = 1]
    BY <1>4 DEF advance, z
  <2>2. /\ IsRun(y) /\ y.done = z.done /\ y.shown = z.shown /\ y.ticks = z.ticks
        /\ y.step = z.step /\ y.exit = 1
    BY <1>1, <2>1 DEF IsRun
  <2>3. QED
    BY <1>1, <1>4, <2>2 DEF AdvancesTo, StepAfter, TicksAfter, ExitAfter, Good
<1>5. CASE x.step = "poll" /\ a.code = "Ok"
  <2>1. y = [z EXCEPT !.step = IF a.arrived \/ x.ticks = c.count THEN "status" ELSE "tick"]
    BY <1>5 DEF advance, z
  <2>2. /\ IsRun(y) /\ y.done = z.done /\ y.shown = z.shown /\ y.ticks = z.ticks
        /\ y.step = (IF a.arrived \/ x.ticks = c.count THEN "status" ELSE "tick") /\ y.exit = Running
    BY <1>1, <2>1 DEF IsRun
  <2>3. QED
    BY <1>1, <1>5, <2>2 DEF AdvancesTo, StepAfter, TicksAfter, ExitAfter, Good
<1>6. CASE x.step = "status" /\ a.code = "Ok"
  <2>1. y = [z EXCEPT !.step = "explain"]
    BY <1>6 DEF advance, z
  <2>2. /\ IsRun(y) /\ y.done = z.done /\ y.shown = z.shown /\ y.ticks = z.ticks
        /\ y.step = "explain" /\ y.exit = Running
    BY <1>1, <2>1 DEF IsRun
  <2>3. QED
    BY <1>1, <1>6, <2>2 DEF AdvancesTo, StepAfter, TicksAfter, ExitAfter, Good
<1>7. CASE x.step = "explain" /\ c.name # "explain"
  <2>1. y = [z EXCEPT !.exit = 0]
    BY <1>7 DEF advance, z
  <2>2. /\ IsRun(y) /\ y.done = z.done /\ y.shown = z.shown /\ y.ticks = z.ticks
        /\ y.step = z.step /\ y.exit = 0
    BY <1>1, <2>1 DEF IsRun
  <2>3. QED
    BY <1>1, <1>7, <2>2 DEF AdvancesTo, StepAfter, TicksAfter, ExitAfter, Good
<1>8. CASE x.step \notin {"tick", "poll", "status"} /\ ~(x.step = "explain" /\ c.name # "explain")
  <2>1. y = [z EXCEPT !.exit = IF a.code = "Ok" THEN 0 ELSE 1]
    BY <1>8 DEF advance, z
  <2>2. /\ IsRun(y) /\ y.done = z.done /\ y.shown = z.shown /\ y.ticks = z.ticks
        /\ y.step = z.step /\ y.exit = (IF a.code = "Ok" THEN 0 ELSE 1)
    BY <1>1, <2>1 DEF IsRun
  <2>3. QED
    BY <1>1, <1>8, <2>2 DEF AdvancesTo, StepAfter, TicksAfter, ExitAfter, Good
<1>9. QED
  BY <1>2, <1>3, <1>4, <1>5, <1>6, <1>7, <1>8

\* An operation performed as asked for, as OkMeansDone has it.
DoneAs(c, d) ==
    LET asked == request(c, d.request.op)
    IN  /\ \A f \in {"op", "job", "attempt", "target", "ok", "targets", "deps"} : d.request[f] = asked[f]
        /\ \/ d.code = "Ok"
           \/ d.request.op = "explain" /\ c.name # "explain"
           \/ d.request.op = "tick" /\ d.code = "ShuttingDown"

\* The progress of a command in a mode.  One that has not failed has performed
\* what it asked for; only a final explanation may have been refused to it.
RunOK(c, x) ==
    /\ IsRun(x) /\ x.ticks \in Nat /\ x.done \in Seq(Entry(c))
    /\ x.exit = Running =>
        /\ ~usage_error(c)
        /\ x.step \in Ops(c) \/ (x.step = "poll" /\ c.name = "start")
        /\ x.step = "explain" /\ c.name # "explain" => x.done # <<>>
    /\ x.exit = 0 /\ x.done = <<>> => c.name = "tick" /\ c.count = 0
    /\ x.exit \in {0, Running} => \A i \in DOMAIN x.done : DoneAs(c, x.done[i])

\* The inductive invariant of both theorems.
AInv ==
    /\ command \in Commands
    /\ \A m \in Modes : RunOK(command, run[m])
    /\ SameCommand

\* The operation of a step, and the steps after it.
LEMMA StepsOf ==
    ASSUME NEW c \in Commands
    PROVE  /\ c.name \in Names /\ first_step(c) \in Ops(c)
           /\ "explain" \in Ops(c) /\ "status" \notin Ops(c) => c.name = "explain"
           /\ first_step(c) = "explain" => c.name = "explain"
           /\ "status" \in Ops(c) => "explain" \in Ops(c)
           /\ "tick" \in Ops(c) => c.name \in {"start", "tick"}
           /\ "poll" \notin Ops(c)
           /\ c.name = "start" => "tick" \in Ops(c) /\ "status" \in Ops(c)
<1>1. c.name \in Names
  <2>1. c \in CommandLine
    BY ApiAssumption, Zenon
  <2>2. QED
    BY <2>1 DEF CommandLine
<1>2. QED
  BY <1>1 DEF Ops, Names, first_step

\* A call that performed an operation with success performed it as asked.
LEMMA ServedDone ==
    ASSUME NEW c, NEW op, request(c, op).op = op, NEW e, SameSubject(e.request, request(c, op)),
           \/ e.code = "Ok"
           \/ op = "explain" /\ c.name # "explain"
           \/ op = "tick" /\ e.code = "ShuttingDown"
    PROVE  DoneAs(c, e)
<1>1. e.request.op = op
  BY DEF SameSubject
<1>2. \A f \in {"op", "job", "attempt", "target", "ok", "targets", "deps"} : e.request[f] = request(c, op)[f]
  BY DEF SameSubject
<1>3. QED
  BY <1>1, <1>2, Zenon DEF DoneAs

\* run_command after a call, in one mode.
LEMMA RunKeeps ==
    ASSUME NEW c \in Commands, NEW x, RunOK(c, x), x.exit = Running, NEW m \in Modes, NEW o \in Answers
    PROVE  LET r == request(c, IF x.step = "poll" THEN "status" ELSE x.step)
               a == call(m, r, o)
           IN  RunOK(c, advance(c, x, [code |-> a.code, size |-> a.size, done |-> a.done, arrived |-> o.arrived]))
<1> DEFINE op == IF x.step = "poll" THEN "status" ELSE x.step
           a == call(m, request(c, op), o)
           b == [code |-> a.code, size |-> a.size, done |-> a.done, arrived |-> o.arrived]
           y == advance(c, x, b)
<1>1. ~usage_error(c) /\ op \in Ops(c) /\ (x.step = "poll" => c.name = "start")
  BY StepsOf DEF RunOK
<1>2. request(c, op).op = op
  BY <1>1, Delivered, FilesAsked, Zenon
<1>3. Serves(c, op, a)
  BY <1>1, Called, Zenon
<1>4. b.code = a.code /\ b.size = a.size /\ b.done = a.done /\ b.arrived = o.arrived
  OBVIOUS
<1> HIDE DEF a, b
<1>5. IsRun(x)
  BY DEF RunOK
<1>6. /\ IsRun(y) /\ y.done = x.done \o a.done /\ y.shown = a.size
      /\ y.step = StepAfter(c, x.step, x.ticks, a.code, o.arrived)
      /\ y.ticks = TicksAfter(x.step, x.ticks, a.code)
      /\ y.exit = ExitAfter(c, x.step, x.ticks, a.code)
  <2>1. AdvancesTo(c, x, b, y)
    BY <1>5, Advanced, Zenon
  <2> HIDE DEF y
  <2>2. QED
    BY <1>4, <2>1 DEF AdvancesTo
<1> HIDE DEF y
<1>7. y.ticks \in Nat
  <2>1. x.ticks \in Nat
    BY DEF RunOK
  <2>2. QED
    BY <1>6, <2>1 DEF TicksAfter
<1>8. a.done \in Seq(Entry(c)) /\ (a.code \in Good => a.done # <<>>)
  <2>1. CASE a.done = <<>> /\ a.code \notin Good
    BY <2>1
  <2>2. CASE \E e \in Entry(c) : a.done = <<e>>
    BY <2>2
  <2>3. QED
    BY <1>3, <2>1, <2>2, Zenon DEF Serves
<1>9. x.done \in Seq(Entry(c)) /\ \A i \in DOMAIN x.done : DoneAs(c, x.done[i])
  BY DEF RunOK
<1>10. y.done \in Seq(Entry(c)) /\ (y.done = <<>> => x.done = <<>> /\ a.done = <<>>)
  BY <1>6, <1>8, <1>9
<1>11. y.exit = Running =>
        /\ y.step \in Ops(c) \/ (y.step = "poll" /\ c.name = "start")
        /\ y.step = "explain" /\ c.name # "explain" => y.done # <<>>
  <2>1. SUFFICES ASSUME y.exit = Running
                 PROVE  /\ y.step \in Ops(c) \/ (y.step = "poll" /\ c.name = "start")
                        /\ y.step = "explain" /\ c.name # "explain" => y.done # <<>>
    OBVIOUS
  <2>2. CASE x.step = "tick"
    BY <1>1, <1>6, <2>1, <2>2, StepsOf DEF StepAfter, ExitAfter, Running
  <2>3. CASE x.step = "poll"
    BY <1>1, <1>6, <2>1, <2>3, StepsOf DEF StepAfter, ExitAfter, Running
  <2>4. CASE x.step = "status"
    <3>1. a.code = "Ok"
      BY <1>6, <2>1, <2>4 DEF ExitAfter, Running
    <3>2. a.done # <<>>
      BY <1>8, <3>1 DEF Good
    <3>3. QED
      BY <1>1, <1>6, <1>10, <2>4, <3>1, <3>2, StepsOf DEF StepAfter
  <2>5. CASE x.step \notin {"tick", "poll", "status"}
    BY <1>6, <2>1, <2>5 DEF ExitAfter, Running
  <2>6. QED
    BY <2>2, <2>3, <2>4, <2>5
<1>12. y.exit = 0 => y.done # <<>>
  <2>1. SUFFICES ASSUME y.exit = 0
                 PROVE  y.done # <<>>
    OBVIOUS
  <2>2. CASE x.step = "explain" /\ c.name # "explain"
    BY <1>10, <2>2 DEF RunOK
  <2>3. CASE ~(x.step = "explain" /\ c.name # "explain")
    <3>1. a.code \in Good
      BY <1>6, <2>1, <2>3 DEF ExitAfter, Running, Good
    <3>2. QED
      BY <1>8, <1>10, <3>1
  <2>4. QED
    BY <2>2, <2>3
<1>13. ASSUME y.exit \in {0, Running}, NEW e, a.done = <<e>>, e.code \in Codes(op),
              SameSubject(e.request, request(c, op)), a.code = e.code \/ a.code = "CorruptState"
       PROVE  DoneAs(c, e)
  <2>1. \/ e.code = "Ok"
        \/ op = "explain" /\ c.name # "explain"
        \/ op = "tick" /\ e.code = "ShuttingDown"
    BY <1>6, <1>13 DEF ExitAfter, Running, Good
  <2>2. QED
    BY <1>2, <1>13, <2>1, ServedDone
<1>14. y.exit \in {0, Running} => \A i \in DOMAIN y.done : DoneAs(c, y.done[i])
  <2>1. SUFFICES ASSUME y.exit \in {0, Running}, NEW i \in DOMAIN y.done
                 PROVE  DoneAs(c, y.done[i])
    OBVIOUS
  <2>2. CASE a.done = <<>>
    BY <1>6, <1>9, <2>1, <2>2
  <2>3. CASE a.done # <<>>
    <3>1. PICK e \in Entry(c) : /\ a.done = <<e>> /\ e.code \in Codes(op) /\ SameSubject(e.request, request(c, op))
                                /\ a.code = e.code \/ a.code = "CorruptState"
      BY <1>3, <2>3 DEF Serves
    <3>2. DoneAs(c, e)
      BY <1>13, <2>1, <3>1
    <3>3. y.done[i] = e \/ (i \in DOMAIN x.done /\ y.done[i] = x.done[i])
      BY <1>6, <1>9, <2>1, <3>1
    <3>4. QED
      BY <1>9, <3>2, <3>3
  <2>4. QED
    BY <2>2, <2>3
<1>15. RunOK(c, y)
  BY <1>1, <1>6, <1>7, <1>10, <1>11, <1>12, <1>14, Zenon DEF RunOK
<1>16. QED
  BY <1>15 DEF y, b, a

\* Trails of the parts make the trail of the whole.
LEMMA TrailJoins ==
    ASSUME NEW S, NEW s \in Seq(S), NEW t \in Seq(S), NEW u \in Seq(S), NEW v \in Seq(S),
           Trail(s) = Trail(u), Trail(t) = Trail(v)
    PROVE  Trail(s \o t) = Trail(u \o v)
<1> DEFINE T(e) == IF e.request.op = "propose" THEN [e EXCEPT !.request.actor = 0] ELSE e
<1>1. \A w : Trail(w) = [i \in DOMAIN w |-> T(w[i])]
  BY DEF Trail
<1> HIDE DEF T
<1>2. Len(s) = Len(u) /\ Len(t) = Len(v)
  <2>1. DOMAIN s = DOMAIN u /\ DOMAIN t = DOMAIN v
    BY <1>1
  <2>2. QED
    BY <2>1
<1>3. \A i \in 1 .. Len(s) : T(s[i]) = T(u[i])
  <2>1. \A i \in 1 .. Len(s) : Trail(s)[i] = T(s[i]) /\ Trail(u)[i] = T(u[i])
    BY <1>1, <1>2
  <2>2. QED
    BY <2>1
<1>4. \A i \in 1 .. Len(t) : T(t[i]) = T(v[i])
  <2>1. \A i \in 1 .. Len(t) : Trail(t)[i] = T(t[i]) /\ Trail(v)[i] = T(v[i])
    BY <1>1, <1>2
  <2>2. QED
    BY <2>1
<1>5. DOMAIN (s \o t) = 1 .. Len(s) + Len(t) /\ DOMAIN (u \o v) = 1 .. Len(s) + Len(t)
  BY <1>2
<1>6. \A i \in 1 .. Len(s) + Len(t) : T((s \o t)[i]) = T((u \o v)[i])
  <2>1. SUFFICES ASSUME NEW i \in 1 .. Len(s) + Len(t)
                 PROVE  T((s \o t)[i]) = T((u \o v)[i])
    BY Zenon
  <2>2. CASE i <= Len(s)
    <3>1. (s \o t)[i] = s[i] /\ (u \o v)[i] = u[i] /\ i \in 1 .. Len(s)
      BY <1>2, <2>2
    <3>2. QED
      BY <3>1, <1>3
  <2>3. CASE i > Len(s)
    <3>1. (s \o t)[i] = t[i - Len(s)] /\ (u \o v)[i] = v[i - Len(s)] /\ i - Len(s) \in 1 .. Len(t)
      BY <1>2, <2>3
    <3>2. QED
      BY <3>1, <1>4
  <2>4. i <= Len(s) \/ i > Len(s)
    OBVIOUS
  <2>5. QED
    BY <2>2, <2>3, <2>4, Zenon
<1>7. QED
  BY <1>1, <1>5, <1>6, Zenon

\* Progress that agrees but for the names of proposals.
SameRun(x, y) ==
    /\ x.step = y.step /\ x.ticks = y.ticks /\ x.shown = y.shown /\ x.exit = y.exit
    /\ Trail(x.done) = Trail(y.done)

\* The property SameCommand in these terms.
LEMMA SameCommandIs == SameCommand = (fits /\ Fits(command) => SameRun(run["local"], run["remote"]))
  BY DEF SameCommand, SameRun

\* Answers that are alike advance a command alike.
LEMMA AdvancedAlike ==
    ASSUME NEW c, NEW S, NEW x, NEW y, IsRun(x), IsRun(y), x.exit = Running, SameRun(x, y), NEW a, NEW b, Alike(a, b),
           a.arrived = b.arrived, x.done \in Seq(S), y.done \in Seq(S), a.done \in Seq(S), b.done \in Seq(S)
    PROVE  SameRun(advance(c, x, a), advance(c, y, b))
<1> DEFINE u == advance(c, x, a)
           v == advance(c, y, b)
<1>1. x.step = y.step /\ x.ticks = y.ticks /\ y.exit = Running /\ Trail(x.done) = Trail(y.done)
  BY DEF SameRun
<1>2. a.size = b.size /\ Trail(a.done) = Trail(b.done) /\ (a.code = b.code \/ (a.code \notin Good /\ b.code \notin Good))
  BY DEF Alike
<1>3. AdvancesTo(c, x, a, u) /\ AdvancesTo(c, y, b, v)
  BY <1>1, Advanced, Zenon
<1> HIDE DEF u, v
<1>4. Trail(u.done) = Trail(v.done)
  <2>1. Trail(x.done \o a.done) = Trail(y.done \o b.done)
    BY <1>1, <1>2, TrailJoins
  <2>2. QED
    BY <1>3, <2>1 DEF AdvancesTo
<1>5. /\ StepAfter(c, x.step, x.ticks, a.code, a.arrived) = StepAfter(c, y.step, y.ticks, b.code, b.arrived)
      /\ TicksAfter(x.step, x.ticks, a.code) = TicksAfter(y.step, y.ticks, b.code)
      /\ ExitAfter(c, x.step, x.ticks, a.code) = ExitAfter(c, y.step, y.ticks, b.code)
  BY <1>1, <1>2 DEF StepAfter, TicksAfter, ExitAfter, Good
<1>6. SameRun(u, v)
  BY <1>2, <1>3, <1>4, <1>5 DEF AdvancesTo, SameRun
<1>7. QED
  BY <1>6 DEF u, v

\* A command begins alike in both modes, with nothing performed.
LEMMA ApiInit == Init => AInv
<1> SUFFICES ASSUME Init
             PROVE  AInv
  OBVIOUS
<1> DEFINE x == begin(command)
<1>1. command \in Commands /\ run["local"] = x /\ run["remote"] = x /\ \A m \in Modes : run[m] = x
  BY DEF Init, Modes
<1>2. /\ IsRun(x) /\ x.step = first_step(command) /\ x.ticks = 0 /\ x.done = <<>> /\ x.shown = 0
      /\ x.exit = CASE usage_error(command) -> 2
                    [] command.name = "tick" /\ command.count = 0 -> 0
                    [] OTHER -> Running
  BY DEF begin, IsRun
<1> HIDE DEF x
<1>3. RunOK(command, x)
  <2>1. x.done \in Seq(Entry(command)) /\ DOMAIN x.done = {}
    BY <1>2
  <2>2. /\ x.exit = Running => ~usage_error(command)
        /\ x.exit = 0 => command.name = "tick" /\ command.count = 0
    BY <1>2 DEF Running
  <2>3. QED
    BY <1>1, <1>2, <2>1, <2>2, StepsOf DEF RunOK
<1>4. SameRun(run["local"], run["remote"])
  BY <1>1 DEF SameRun
<1>5. QED
  BY <1>1, <1>3, <1>4, SameCommandIs, Zenon DEF AInv

\* A call keeps the invariant.
LEMMA ApiStep == AInv /\ [Next]_vars => AInv'
<1> SUFFICES ASSUME AInv, [Next]_vars
             PROVE  AInv'
  OBVIOUS
<1>1. CASE UNCHANGED vars
  BY <1>1 DEF AInv, vars, SameCommand
<1>2. CASE Call
  <2> DEFINE c == command
             arg(m) == request(c, IF run[m].step = "poll" THEN "status" ELSE run[m].step)
             ans(m, o) == call(m, arg(m), o)
             got(m, o) == [code |-> ans(m, o).code, size |-> ans(m, o).size, done |-> ans(m, o).done, arrived |-> o.arrived]
  <2>1. PICK o \in Answers :
           /\ run' = [m \in Modes |-> IF run[m].exit # Running THEN run[m] ELSE advance(c, run[m], got(m, o))]
           /\ fits' = (fits /\ o.size <= MaxText /\ o.size <= MaxListed)
    BY <1>2, Zenon DEF Call
  <2>2. c \in Commands /\ command' = c /\ \A m \in Modes : RunOK(c, run[m])
    BY <1>2 DEF Call, AInv
  <2>3. \A m \in Modes : run'[m] = IF run[m].exit # Running THEN run[m] ELSE advance(c, run[m], got(m, o))
    BY <2>1, Zenon
  <2>4. ASSUME NEW m \in Modes
        PROVE  RunOK(c, run'[m])
    <3>1. CASE run[m].exit # Running
      BY <2>2, <2>3, <3>1, Zenon
    <3>2. CASE run[m].exit = Running
      <4>1. RunOK(c, advance(c, run[m], got(m, o)))
        BY <2>2, <3>2, RunKeeps, Zenon
      <4>2. QED
        BY <2>3, <3>2, <4>1, Zenon
    <3>3. QED
      BY <3>1, <3>2
  <2>5. ASSUME fits', Fits(c)
        PROVE  SameRun(run'["local"], run'["remote"])
    <3> DEFINE x == run["local"]
               y == run["remote"]
               op == IF x.step = "poll" THEN "status" ELSE x.step
               a == got("local", o)
               b == got("remote", o)
    <3>1. fits /\ o.size <= MaxText /\ o.size <= MaxListed
      BY <2>1, <2>5, Zenon
    <3>2. SameRun(x, y)
      BY <3>1, <2>5, SameCommandIs, Zenon DEF AInv
    <3>3. x.step = y.step /\ x.exit = y.exit
      BY <3>2 DEF SameRun
    <3>4. "local" \in Modes /\ "remote" \in Modes
      BY DEF Modes
    <3>5. CASE x.exit # Running
      BY <2>3, <3>2, <3>3, <3>4, <3>5, Zenon
    <3>6. CASE x.exit = Running
      <4>1. run'["local"] = advance(c, x, a) /\ run'["remote"] = advance(c, y, b)
        BY <2>3, <3>3, <3>4, <3>6, Zenon
      <4>2. RunOK(c, x) /\ RunOK(c, y)
        BY <2>2, <3>4, Zenon
      <4>3. ~usage_error(c) /\ op \in Ops(c)
        BY <2>2, <3>6, <4>2, StepsOf DEF RunOK
      <4>4. arg("local") = request(c, op) /\ arg("remote") = request(c, op)
        BY <3>3, Zenon
      <4>5. Alike(ans("local", o), ans("remote", o))
        BY <2>2, <2>5, <3>1, <4>3, <4>4, CalledAlike, Zenon
      <4>6. ASSUME NEW m \in Modes
            PROVE  ans(m, o).done \in Seq(Entry(c))
        <5>1. Serves(c, op, call(m, request(c, op), o))
          BY <2>2, <4>3, Called, Zenon
        <5>2. Serves(c, op, ans(m, o))
          BY <3>4, <4>4, <5>1 DEF Modes
        <5> DEFINE w == ans(m, o)
        <5> HIDE DEF w
        <5>3. w.done = <<>> \/ \E e \in Entry(c) : w.done = <<e>>
          BY <5>2, Zenon DEF Serves, w
        <5>4. w.done \in Seq(Entry(c))
          <6>1. CASE w.done = <<>>
            BY <6>1
          <6>2. CASE \E e \in Entry(c) : w.done = <<e>>
            <7>1. PICK e \in Entry(c) : w.done = <<e>>
              BY <6>2
            <7> DEFINE E == Entry(c)
            <7>2. e \in E
              BY <7>1
            <7> HIDE DEF E
            <7>3. <<e>> \in Seq(E)
              BY <7>2
            <7>4. QED
              BY <7>1, <7>3 DEF E
          <6>3. QED
            BY <5>3, <6>1, <6>2
        <5>5. QED
          BY <5>4 DEF w
      <4> HIDE DEF ans
      <4>7. /\ a.code = ans("local", o).code /\ a.size = ans("local", o).size /\ a.done = ans("local", o).done
            /\ b.code = ans("remote", o).code /\ b.size = ans("remote", o).size /\ b.done = ans("remote", o).done
            /\ a.arrived = b.arrived
        OBVIOUS
      <4> HIDE DEF got, x, y
      <4>8. Alike(a, b) /\ a.done \in Seq(Entry(c)) /\ b.done \in Seq(Entry(c))
        BY <3>4, <4>5, <4>6, <4>7 DEF Alike
      <4>9. IsRun(x) /\ IsRun(y) /\ x.done \in Seq(Entry(c)) /\ y.done \in Seq(Entry(c))
        BY <4>2 DEF RunOK
      <4>10. QED
        BY <3>2, <3>6, <4>1, <4>7, <4>8, <4>9, AdvancedAlike, Zenon
    <3>7. QED
      BY <3>5, <3>6
  <2>6. SameCommand'
    BY <2>2, <2>5 DEF SameCommand, SameRun
  <2>7. QED
    BY <2>2, <2>4, <2>6 DEF AInv
<1>3. QED
  BY <1>1, <1>2 DEF Next

\* A command that fits does the same in both modes, for every command line and
\* every bound of the protocol: the bodies of LocalApi's and RemoteApi's calls
\* decode to the same requests, and unwrap returns the controller's answers.
THEOREM ModesAgree == Spec => []SameCommand
<1>1. AInv => SameCommand
  BY DEF AInv
<1>2. QED
  BY <1>1, ApiInit, ApiStep, PTL DEF Spec

\* A command that exits with 0 was performed, in either mode, whatever its
\* strings and the sizes of the answers (run_command, remote_call, unwrap).
THEOREM OkIsDone == Spec => []OkMeansDone
<1>1. AInv => OkMeansDone
  <2> SUFFICES ASSUME AInv, NEW m \in Modes, run[m].exit = 0
               PROVE  /\ run[m].done = <<>> => command.name = "tick" /\ command.count = 0
                      /\ \A i \in DOMAIN run[m].done : DoneAs(command, run[m].done[i])
    BY Zenon DEF OkMeansDone, DoneAs
  <2>1. RunOK(command, run[m])
    BY DEF AInv
  <2>2. QED
    BY <2>1, Zenon DEF RunOK
<1>2. QED
  BY <1>1, ApiInit, ApiStep, PTL DEF Spec
==============================================================================
