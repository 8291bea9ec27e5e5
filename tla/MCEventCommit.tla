--------------------------- MODULE MCEventCommit ----------------------------
(* Model-checking instance of EventCommit: drivers are interchangeable, and  *)
(* so are clients.                                                           *)
EXTENDS EventCommit, TLC

CONSTANT Task   \* the task a history with task events is about

Symmetry == Permutations(Tasks \ {Task}) \cup Permutations(Clients)

RunEvent(from, to) == [kind |-> "run", task |-> NoTask, from |-> from, to |-> to]
TaskEvent(from, to) == [kind |-> "transition", task |-> Task, from |-> from, to |-> to]

\* Start has brought the run to starting.
Starting == <<RunEvent("planned", "starting")>>

\* The task's worker has reported and its validation has failed.
Unverified == Starting \o
    <<RunEvent("starting", "running"),
      TaskEvent("planned", "running"),
      TaskEvent("running", "reported_complete"),
      TaskEvent("reported_complete", "verifying"),
      TaskEvent("verifying", "verification_failed")>>
=============================================================================
