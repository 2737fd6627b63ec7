------------------------------ MODULE Lifecycle ------------------------------
(***************************************************************************)
(* The maintenance job's lifecycle: its states, the sets the controller    *)
(* tests them against, and the one transition relation that every state    *)
(* change of a job is submitted to (src/domain/lifecycle.cpp).             *)
(***************************************************************************)
EXTENDS Naturals

\* enum class JobState
Chain == {"Proposed", "Validated", "Prerequisites", "Ready", "InMaintenance",
          "Verifying", "Restoring", "Complete"}
JobState == Chain \cup {"Blocked", "Cancelled", "Failed"}

is_terminal(s) == s \in {"Complete", "Cancelled", "Failed"}

\* Stages during which the targets are out of service.  A Blocked job is not
\* one of them, whether or not it had already removed service.
stage_removes_service(s) == s \in {"InMaintenance", "Verifying", "Restoring"}

\* Position on the straight-line path; Blocked, Cancelled and Failed have none.
stage_index == [s \in Chain |->
    CASE s = "Proposed" -> 0      [] s = "Validated" -> 1
      [] s = "Prerequisites" -> 2 [] s = "Ready" -> 3
      [] s = "InMaintenance" -> 4 [] s = "Verifying" -> 5
      [] s = "Restoring" -> 6     [] s = "Complete" -> 7]

\* Leaving Blocked: before removal the job goes back to be evaluated again,
\* after removal only verification or restoration may follow.
Resume(removed) ==
    IF removed THEN {"Verifying", "Restoring"} ELSE {"Prerequisites", "Ready"}

\* Along the chain: one stage forward, or back (but never to Proposed) as long
\* as no service has been removed.
AlongChain(from, to, removed) ==
    /\ from \in Chain
    /\ to \in Chain
    /\ \/ stage_index[to] = stage_index[from] + 1
       \/ stage_index[to] < stage_index[from] /\ ~removed /\ to # "Proposed"

check_transition(from, to, removed) ==
    /\ from # to
    /\ ~is_terminal(from)
    /\ \/ to = "Cancelled" /\ ~removed
       \/ to \in {"Failed", "Blocked"}
       \/ from = "Blocked" /\ to \in Resume(removed)
       \/ AlongChain(from, to, removed)
==============================================================================
