--------------------------------- MODULE Api ---------------------------------
(***************************************************************************)
(* A command of mfctl, from the command line to the controller and back,   *)
(* in its two modes: against a journal of its own (LocalApi) and against a *)
(* running mfd (RemoteApi, the request bodies of src/transport/protocol.cpp*)
(* and the handler of apps/mfd/main.cpp).  A behaviour runs one command in *)
(* both modes; the controller answers the same operation alike in both.    *)
(*                                                                         *)
(* A string is its length, a body the sequence of its fields.  The frames  *)
(* and the connection under a call are module Transport's.                 *)
(***************************************************************************)
EXTENDS Naturals, Sequences, FiniteSets, Functions

CONSTANTS
    Commands,      \* command lines
    NameLength, TitleLength, ReasonLength, DetailLength,  \* kMaxNameLength, ...
    MaxTargets,    \* kMaxTargetsPerJob
    MaxDeps,       \* kMaxDependenciesPerJob
    MaxText,       \* kMaxFrameBytes / 2, the bound of a text body
    MaxBody,       \* kMaxFrameBytes, the bound of an envelope's body
    MaxListed,     \* kMaxJobsPerArbitration, the bound of a list
    Sizes          \* sizes of a text or a list that the controller can answer

\* The commands of main and run_command.  An attempt that is given has been
\* parsed, and so is not null; so has a target.
Names == {"propose", "approve", "arm", "cancel", "start", "status", "explain", "complete", "restore", "tick",
          "clear-quarantine", "observe", "conflicts", "arbitration", "quarantines", "topology", "policy"}
CommandLine == [name : Names, given : SUBSET STRING, job : Nat, actor : Nat, title : Nat, text : Nat,
                targets : Seq(Nat \ {0}), deps : Seq(Nat), attempt : Nat, ok : BOOLEAN, count : Nat]

ASSUME ApiAssumption ==
    /\ {NameLength, TitleLength, ReasonLength, DetailLength, MaxTargets, MaxDeps, MaxText, MaxBody, MaxListed}
            \cup Sizes \subseteq Nat
    /\ 0 < NameLength /\ NameLength <= ReasonLength /\ MaxListed <= MaxBody  \* core/limits.hpp
    /\ \A c \in Commands :
        /\ c \in CommandLine
        /\ "attempt" \in c.given => c.attempt # 0
        /\ "target" \in c.given => c.targets # <<>>

VARIABLES
    command,  \* the command line
    fits,     \* every answer so far was within the bounds of a reply
    run       \* for each mode, the command's progress there

vars == <<command, fits, run>>

Modes == {"local", "remote"}
Jobs == {"approve", "arm", "cancel", "start", "status", "explain", "complete", "restore"}
Texts == {"explain", "conflicts", "arbitration", "quarantines"}
Files == {"topology", "policy"}
-----------------------------------------------------------------------------
(* The command line.                                                       *)

\* main and run_command: a word without a dash is --job; what a command
\* requires, and the exit code 2 where it is missing.
Required(name) ==
    CASE name = "propose" -> {"title", "target"}
      [] name \in {"approve", "arm", "cancel", "start", "explain"} -> {"job"}
      [] name = "status" -> {}
      [] name = "complete" -> {"job", "attempt"}
      [] name = "restore" -> {"job", "attempt", "target"}
      [] name = "clear-quarantine" -> {"id"}
      [] name = "observe" -> {"target"}
      [] OTHER -> {}

usage_error(c) == ~(Required(c.name) \subseteq c.given)

\* The operation of FabricApi that a step of a command calls, with the
\* arguments it passes.
Request(op) == [op |-> op, job |-> 0, actor |-> 0, title |-> 0, text |-> 0, targets |-> <<>>, deps |-> <<>>,
                attempt |-> 0, target |-> 0, ok |-> TRUE]

request(c, step) ==
    CASE step = "propose" -> [Request(step) EXCEPT !.title = c.title, !.text = c.text, !.targets = c.targets,
                                                   !.deps = c.deps, !.actor = c.actor]
      [] step \in {"approve", "rearm"} -> [Request(step) EXCEPT !.job = c.job, !.actor = c.actor]
      [] step \in {"cancel", "clear_quarantine"} ->
            [Request(step) EXCEPT !.job = c.job, !.actor = c.actor, !.text = c.text]
      [] step = "status" -> [Request(step) EXCEPT !.job = c.job]
      [] step = "explain" -> [Request(step) EXCEPT !.job = c.job, !.text = IF c.name = "explain" THEN c.text ELSE 1]
      [] step = "report_completion" ->
            [Request(step) EXCEPT !.job = c.job, !.attempt = c.attempt, !.ok = c.ok, !.text = c.text]
      [] step = "report_restoration" ->
            [Request(step) EXCEPT !.job = c.job, !.attempt = c.attempt, !.target = c.targets[1],
                                  !.ok = c.ok, !.text = c.text]
      [] step = "observe" -> [Request(step) EXCEPT !.target = c.targets[1]]
      [] OTHER -> Request(step)

\* The first step of a command; start without a tick only shows the job.
first_step(c) ==
    CASE c.name = "arm" -> "rearm"
      [] c.name = "start" /\ c.count = 0 -> "status"
      [] c.name \in {"start", "tick"} -> "tick"
      [] c.name = "complete" -> "report_completion"
      [] c.name = "restore" -> "report_restoration"
      [] c.name = "clear-quarantine" -> "clear_quarantine"
      [] c.name = "status" /\ "job" \notin c.given -> "list"
      [] OTHER -> c.name
-----------------------------------------------------------------------------
(* The bodies of a request.  An overlong string is written as an empty one *)
(* (ByteWriter::str) and nothing looks at overflowed().                    *)

str(s, max) == IF s > max THEN 0 ELSE s

encode_request_body(r) == <<str(r.title, TitleLength), str(r.text, ReasonLength), r.targets, r.deps>>
encode_job_ref(job, text) == <<job, str(text, ReasonLength)>>
encode_swapped(job, actor, reason) == <<job, str(reason, NameLength), str(actor, ReasonLength)>>
encode_job_actor(job, actor, reason) == <<job, str(actor, NameLength), str(reason, ReasonLength)>>
encode_quarantine_clear(id, actor, why) == <<id, str(actor, NameLength), str(why, ReasonLength)>>
encode_completion_report(r) == <<r.job, r.attempt, r.ok, str(r.text, DetailLength)>>
encode_restoration_report(r) == <<r.job, r.attempt, r.target, r.ok, str(r.text, DetailLength)>>
encode_evidence_body(r) == <<r.target>>

\* What is decoded: a request for the controller, or the code of an error.
Decoded(r) == [error |-> "Ok", request |-> r]
Refused(code) == [error |-> code, request |-> Request("none")]

decode_request_body(b) ==
    IF Len(b[3]) > MaxTargets \/ Len(b[4]) > MaxDeps THEN Refused("LimitExceeded")
    ELSE Decoded([Request("propose") EXCEPT !.title = b[1], !.text = b[2], !.targets = b[3], !.deps = b[4]])
decode_job_ref(b) == [job |-> b[1], text |-> b[2]]
decode_job_actor(op, b) ==
    IF b[1] = 0 THEN Refused("CorruptState")
    ELSE Decoded([Request(op) EXCEPT !.job = b[1], !.actor = b[2], !.text = b[3]])
decode_quarantine_clear(b) == decode_job_actor("clear_quarantine", b)
decode_completion_report(b) ==
    IF b[1] = 0 \/ b[2] = 0 THEN Refused("CorruptState")
    ELSE Decoded([Request("report_completion") EXCEPT !.job = b[1], !.attempt = b[2], !.ok = b[3], !.text = b[4]])
decode_restoration_report(b) ==
    IF b[1] = 0 \/ b[2] = 0 \/ b[3] = 0 THEN Refused("CorruptState")
    ELSE Decoded([Request("report_restoration") EXCEPT !.job = b[1], !.attempt = b[2], !.target = b[3],
                                                       !.ok = b[4], !.text = b[5]])
decode_evidence_body(b) == Decoded([Request("observe") EXCEPT !.target = b[1]])
-----------------------------------------------------------------------------
(* The two implementations of FabricApi.                                   *)

\* RemoteApi: the body that an operation sends.
body(r) ==
    CASE r.op = "propose" -> encode_request_body(r)
      [] r.op \in {"approve", "rearm"} -> encode_job_ref(r.job, r.actor)
      [] r.op \in {"explain", "status"} -> encode_job_ref(r.job, r.text)
      [] r.op = "cancel" -> encode_job_actor(r.job, r.actor, r.text)
      [] r.op = "clear_quarantine" -> encode_quarantine_clear(r.job, r.actor, r.text)
      [] r.op = "report_completion" -> encode_completion_report(r)
      [] r.op = "report_restoration" -> encode_restoration_report(r)
      [] r.op = "observe" -> encode_evidence_body(r)
      [] OTHER -> <<>>

\* The daemon's own name, under which it proposes.
RemoteActor == 1

\* The handler of mfd: the operation of the controller that a body asks for.
handler(op, b) ==
    CASE op = "propose" ->
            LET d == decode_request_body(b) IN [d EXCEPT !.request.actor = RemoteActor]
      [] op = "status" -> Decoded([Request(op) EXCEPT !.job = decode_job_ref(b).job])
      [] op \in {"approve", "rearm"} ->
            Decoded([Request(op) EXCEPT !.job = decode_job_ref(b).job, !.actor = decode_job_ref(b).text])
      [] op = "explain" ->
            Decoded([Request(op) EXCEPT !.job = decode_job_ref(b).job, !.text = decode_job_ref(b).text])
      [] op = "cancel" -> decode_job_actor(op, b)
      [] op = "clear_quarantine" -> decode_quarantine_clear(b)
      [] op = "report_completion" -> decode_completion_report(b)
      [] op = "report_restoration" -> decode_restoration_report(b)
      [] op = "observe" -> decode_evidence_body(b)
      [] OTHER -> Decoded(Request(op))

\* validate_request_shape.
validate_request_shape(r) ==
    CASE r.title = 0 \/ r.title > TitleLength -> "InvalidArgument"
      [] r.text > ReasonLength -> "LimitExceeded"
      [] r.targets = <<>> -> "InvalidArgument"
      [] Len(r.targets) > MaxTargets \/ Len(r.deps) > MaxDeps -> "LimitExceeded"
      [] Cardinality(Range(r.targets)) # Len(r.targets) -> "InvalidArgument"
      [] Cardinality(Range(r.deps)) # Len(r.deps) -> "InvalidArgument"
      [] OTHER -> "Ok"

\* What the controller answers: any code, the size of its text or list, and
\* whether the job has arrived at a state that ends start.
Answers == [code : {"Ok", "NotFound", "ShuttingDown"}, size : Sizes, arrived : BOOLEAN]

\* An answer to run_command, with the operation that was performed for it.
Answer(code, size, done) == [code |-> code, size |-> IF code = "Ok" THEN size ELSE 0, done |-> done]

\* The codes an operation can have: a list or a report never fails, and only
\* these three are refused by a controller that is stopping.
Codes(op) ==
    {"Ok"} \cup (IF op \in Files \cup {"list"} \cup (Texts \ {"explain"}) THEN {} ELSE {"NotFound"})
           \cup (IF op \in {"tick", "propose", "observe"} THEN {"ShuttingDown"} ELSE {})

\* An operation of the controller, which refuses the shape of a proposal itself.
perform(r, o) ==
    LET code == IF o.code \in Codes(r.op) THEN o.code ELSE "Ok"
    IN  IF r.op = "propose" /\ validate_request_shape(r) # "Ok" THEN Answer(validate_request_shape(r), 0, <<>>)
        ELSE Answer(code, o.size, <<[request |-> r, code |-> code]>>)

local_call(r, o) == perform(r, o)

\* The two replies with a size: a text over its bound is written as an empty one,
\* a list is cut to its bound.
text_body(size) == str(size, MaxText)
snapshot_list(size) == IF size > MaxListed THEN MaxListed ELSE size

\* call and unwrap: the reply's code is the caller's, and a list over the bound
\* of a body cannot be decoded.
unwrap_body(op, a) == [a EXCEPT !.code = "Ok"]
unwrap(op, a) ==
    CASE a.code = "Ok" /\ op = "list" /\ a.size > MaxBody -> [a EXCEPT !.code = "CorruptState", !.size = 0]
      [] a.code = "Ok" /\ op = "list" /\ a.size <= MaxBody -> [a EXCEPT !.size = snapshot_list(@)]
      [] a.code = "Ok" /\ op \in Texts -> [a EXCEPT !.size = text_body(@)]
      [] OTHER -> a

remote_call(r, o) ==
    LET d == handler(r.op, body(r))
    IN  IF r.op \in Files THEN Answer("Unsupported", 0, <<>>)
        ELSE unwrap(r.op, IF d.error = "Ok" THEN perform(d.request, o) ELSE Answer(d.error, 0, <<>>))
-----------------------------------------------------------------------------
(* A command.                                                              *)

Running == 3

\* The exit code of a command that is refused is 2; no tick at all is a success.
begin(c) == [step |-> first_step(c), ticks |-> 0, done |-> <<>>, shown |-> 0,
             exit |-> CASE usage_error(c) -> 2
                        [] c.name = "tick" /\ c.count = 0 -> 0
                        [] OTHER -> Running]

\* run_command, after the answer a to the call of this step.
advance(c, x, a) ==
    LET y == [x EXCEPT !.done = @ \o a.done, !.shown = a.size]
        go(step) == [y EXCEPT !.step = step]
        exit(n) == [y EXCEPT !.exit = n]
    IN  CASE x.step = "tick" /\ a.code \notin {"Ok", "ShuttingDown"} -> exit(1)
          [] x.step = "tick" /\ a.code \in {"Ok", "ShuttingDown"} ->
                [y EXCEPT !.ticks = @ + 1,
                          !.step = IF c.name = "start" THEN "poll" ELSE @,
                          !.exit = IF c.name = "tick" /\ x.ticks + 1 = c.count THEN 0 ELSE @]
          [] x.step \in {"poll", "status"} /\ a.code # "Ok" -> exit(1)
          [] x.step = "poll" /\ a.code = "Ok" ->
                go(IF a.arrived \/ x.ticks = c.count THEN "status" ELSE "tick")
          [] x.step = "status" /\ a.code = "Ok" -> go("explain")
          [] x.step = "explain" /\ c.name # "explain" -> exit(0)
          [] OTHER -> exit(IF a.code = "Ok" THEN 0 ELSE 1)

call(m, r, o) == IF m = "local" THEN local_call(r, o) ELSE remote_call(r, o)

Init ==
    /\ command \in Commands
    /\ fits = TRUE
    /\ run = [m \in Modes |-> begin(command)]

\* The next call of the command, in each mode in which it has not ended.
Call ==
    /\ \E m \in Modes : run[m].exit = Running
    /\ \E o \in Answers :
        /\ run' = [m \in Modes |->
                     LET x == run[m]
                         r == request(command, IF x.step = "poll" THEN "status" ELSE x.step)
                         a == call(m, r, o)
                     IN  IF x.exit # Running THEN x
                         ELSE advance(command, x, [code |-> a.code, size |-> a.size, done |-> a.done,
                                                   arrived |-> o.arrived])]
        /\ fits' = (fits /\ o.size <= MaxText /\ o.size <= MaxListed)
    /\ UNCHANGED command

Next == Call
Spec == Init /\ [][Next]_vars
-----------------------------------------------------------------------------
(* Properties.                                                             *)

\* A command whose strings are within the bounds of the protocol, and that the
\* daemon does not refuse to every caller.
Fits(c) ==
    /\ c.actor <= NameLength /\ c.title <= TitleLength
    /\ c.text <= (IF c.name \in {"complete", "restore"} THEN DetailLength ELSE ReasonLength)
    /\ c.job > 0
    /\ c.name \notin Files

\* The same operations and answers; the daemon proposes under its own name.
Trail(done) == [i \in DOMAIN done |-> IF done[i].request.op = "propose"
                                       THEN [done[i] EXCEPT !.request.actor = 0] ELSE done[i]]

\* A command that fits does the same in both modes: the controller is asked for
\* the same operations with the same arguments, mfctl sees the same answers and
\* exits with the same code (LocalApi, RemoteApi, the handler of mfd).
SameCommand ==
    fits /\ Fits(command) =>
        /\ \A f \in {"step", "ticks", "shown", "exit"} : run.local[f] = run.remote[f]
        /\ Trail(run.local.done) = Trail(run.remote.done)

\* A command that exits with 0 was performed, on the job, attempt and target it
\* named, whatever the sizes of its strings and answers: every operation was
\* answered with success, but for an explanation that is only shown, and for a
\* pass that a stopping controller does not run.
OkMeansDone ==
    \A m \in Modes : LET x == run[m] IN x.exit = 0 =>
        /\ x.done = <<>> => command.name = "tick" /\ command.count = 0
        /\ \A i \in DOMAIN x.done :
            LET d == x.done[i]
                asked == request(command, d.request.op)
            IN  /\ \A f \in {"op", "job", "attempt", "target", "ok", "targets", "deps"} : d.request[f] = asked[f]
                /\ \/ d.code = "Ok"
                   \/ d.request.op = "explain" /\ command.name # "explain"
                   \/ d.request.op = "tick" /\ d.code = "ShuttingDown"

\* Every command behaves alike in both modes.
Identical == run.local.exit = run.remote.exit /\ run.local.done = run.remote.done

\* The name under which the journal records an operation: approved_by, the
\* history entry of a cancellation, cleared_by.
Recorded(r) ==
    CASE r.op \in {"propose", "approve", "rearm"} -> str(r.actor, NameLength)
      [] r.op = "cancel" -> IF r.actor + r.text > DetailLength THEN 0 ELSE r.actor
      [] OTHER -> IF r.actor + r.text > NameLength THEN 0 ELSE r.actor

\* The operator's name is recorded in the audit trail.
ActorRecorded ==
    \A m \in Modes : \A i \in DOMAIN run[m].done :
        LET d == run[m].done[i]
        IN  d.code = "Ok" /\ d.request.op \in {"propose", "approve", "rearm", "cancel", "clear_quarantine"}
                => Recorded(d.request) = command.actor
==============================================================================
